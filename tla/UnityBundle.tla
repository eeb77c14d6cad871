--------------------------- MODULE UnityBundle ---------------------------
(***************************************************************************)
(* The asset bundles of Unity (.aba): a header, the table of the blocks    *)
(* and of the files, and the blocks that hold the files one behind the     *)
(* other.  A number, a character and a byte of a file are one token each;  *)
(* so is what a compressor makes of a block.                               *)
(*                                                                         *)
(* A file to be written is [Name, Serialized, Source, Size, First,         *)
(* Second]: its bytes are there ("data") or are asked for ("stream") twice,*)
(* when the blocks are measured and when they are written.                 *)
(***************************************************************************)
EXTENDS Layouts

CONSTANTS
  Alignment,  \* where the table and the blocks may begin (16 bytes in the code)
  DataBlock   \* what a block holds (0x20000 bytes)

CompressionNone == 0
CompressionLZMA == 1
CompressionLZ4  == 2
CompressionKinds == {0, 1, 2, 3}
FlagHasDirectoryInfo == 64
FlagBlockAndDirAtEnd == 128
FlagBlockInfoNeedPaddingAtStart == 512
DirFlagSerializedFile == 4
Supported == 6 .. 8
CompressionType(flags) == flags % 64
HasFlag(flags, bit) == (flags \div bit) % 2 = 1

Chars(name) == <<Until("char", name, {"NUL"}, <<Get("char", "C")>>), Lit("char", "NUL")>>
Plaintext(s) == [i \in DOMAIN s |-> [C |-> s[i]]]
AbaHeader ==
  Chars("Signature") \o <<Num("#u32", "Version")>> \o Chars("GenerationVersion") \o Chars("EngineVersion")
    \o <<Num("#i64", "TotalFileSize"), Num("#u32", "CompressedSize"), Num("#u32", "DecompressedSize"), Num("#u32", "Flags")>>
BlockAndDirInfo ==
  <<Skip("hash"),
    ArrMin("#i32", "BlockInfos", 10, <<Num("#u32", "DecompressedSize"), Num("#u32", "CompressedSize"), Num("#u16", "Flags")>>),
    ArrMin("#i32", "DirectoryInfos", 21, <<Num("#i64", "Offset"), Num("#i64", "DecompressedSize"), Num("#u32", "Flags")>> \o Chars("Name")), End>>
WriteInfo(info) == <<Tok("hash", "")>> \o Write(Tail(BlockAndDirInfo), info)

Align(n) == n + ((Alignment - (n % Alignment)) % Alignment)
SumOf(s, Measure(_)) == FoldLeft(LAMBDA total, x : total + Measure(x), 0, s)
Sum(s, f) == SumOf(s, LAMBDA x : x[f])

\* A compressor that finds something to compress makes one token of a block.
Shrinks(block) == Len(block) > 1 /\ \E i \in 1 .. Len(block) - 1 : block[i].k = block[i + 1].k /\ block[i].v = block[i + 1].v
Compressed(kind, block) == <<Tok(IF kind = CompressionLZMA THEN "lzma" ELSE "lz4", block)>>
\* The decompressors go by the size they are told.
Decompressed(kind, bytes, size) ==
  IF kind = CompressionNone THEN [ok |-> Len(bytes) = size, v |-> bytes]
  ELSE IF Len(bytes) # 1 THEN [ok |-> FALSE]
  ELSE IF bytes[1].k # (IF kind = CompressionLZMA THEN "lzma" ELSE "lz4") THEN [ok |-> FALSE]
  ELSE [ok |-> Len(bytes[1].v) = size, v |-> bytes[1].v]

(***************************************************************************)
(* Reading.                                                                *)
(***************************************************************************)
NoBundle(st) == [st |-> st, doc |-> <<>>, p |-> 1]
BlockLegal(b) ==
  LET kind == CompressionType(b.Flags)
  IN /\ kind \in CompressionKinds
     /\ IF kind = CompressionNone THEN b.CompressedSize = b.DecompressedSize ELSE b.CompressedSize # 0 /\ b.DecompressedSize # 0
ParseBlockAndDirInfo(bytes) ==
  LET r == Read(BlockAndDirInfo, bytes)
      total == Sum(r.doc.BlockInfos, "DecompressedSize")
  IN IF r.st # "ok" THEN r
     ELSE IF /\ \A b \in Range(r.doc.BlockInfos) : BlockLegal(b)
             /\ \A d \in Range(r.doc.DirectoryInfos) : d.Offset >= 0 /\ d.DecompressedSize >= 0 /\ d.Offset + d.DecompressedSize <= total
     THEN r ELSE Fail(r, "refused")

\* Where the table is, and where the blocks begin and end.
HeaderEnd(h, p) == IF h.Version >= 7 THEN Align(p - 1) ELSE p - 1
InfoOffset(h, headerEnd, size) == IF HasFlag(h.Flags, FlagBlockAndDirAtEnd) THEN size - h.CompressedSize ELSE headerEnd
FileDataOffset(h, headerEnd, infoOffset) ==
  LET behind == IF HasFlag(h.Flags, FlagBlockAndDirAtEnd) THEN headerEnd ELSE infoOffset + h.CompressedSize
  IN IF HasFlag(h.Flags, FlagBlockInfoNeedPaddingAtStart) THEN Align(behind) ELSE behind
FileDataEnd(h, infoOffset, size) == IF HasFlag(h.Flags, FlagBlockAndDirAtEnd) THEN infoOffset ELSE size

\* The bytes from offset on that the block b, whose data begins at start, adds.
Overlap(b, bytes, start, offset, end) ==
  LET from == Max({offset, start}) - start
      to   == Min({end, start + b.DecompressedSize}) - start
  IN SubSeq(bytes, from + 1, to)
ReadDataRange(blocks, bytes, offset, size) ==
  LET end == offset + size
      Step(s, b) ==
        LET held == Decompressed(CompressionType(b.Flags), SubSeq(bytes, s.p, s.p + b.CompressedSize - 1), b.DecompressedSize)
            overlaps == offset < s.start + b.DecompressedSize /\ end > s.start
        IN [ok |-> s.ok /\ (overlaps => held.ok), p |-> s.p + b.CompressedSize, start |-> s.start + b.DecompressedSize,
            v |-> IF s.ok /\ overlaps /\ held.ok THEN s.v \o Overlap(b, held.v, s.start, offset, end) ELSE s.v]
  IN IF size = 0 THEN [ok |-> TRUE, v |-> <<>>] ELSE FoldLeft(Step, [ok |-> TRUE, p |-> 1, start |-> 0, v |-> <<>>], blocks)
GetFileDataRange(blocks, bytes, dir, offset, size) ==
  IF offset + size > dir.DecompressedSize THEN [ok |-> FALSE, v |-> <<>>] ELSE ReadDataRange(blocks, bytes, dir.Offset + offset, size)
GetBundleFile(blocks, bytes, dir) == GetFileDataRange(blocks, bytes, dir, 0, dir.DecompressedSize)
\* A part of a file is what the whole file has there.
PartsAgree(blocks, bytes, dir) ==
  LET whole == GetBundleFile(blocks, bytes, dir)
  IN \A offset \in 0 .. dir.DecompressedSize : \A size \in 0 .. dir.DecompressedSize - offset :
       LET part == GetFileDataRange(blocks, bytes, dir, offset, size) IN part.ok /\ part.v = SubSeq(whole.v, offset + 1, offset + size)

HeldFile(name, serialized, bytes) == [Name |-> name, Serialized |-> serialized, Source |-> "data", Size |-> 0, First |-> bytes, Second |-> bytes]
FilesOf(info, bytes) ==
  [i \in DOMAIN info.DirectoryInfos |->
     LET d == info.DirectoryInfos[i]
     IN HeldFile(d.Name, HasFlag(d.Flags, DirFlagSerializedFile), GetBundleFile(info.BlockInfos, bytes, d).v)]
ReadBundle(f) ==
  LET r == Read(AbaHeader, f)
      h == r.doc
      size == Len(f)
      headerEnd == HeaderEnd(h, r.p)
      infoOffset == InfoOffset(h, headerEnd, size)
      dataOffset == FileDataOffset(h, headerEnd, infoOffset)
      dataEnd == FileDataEnd(h, infoOffset, size)
      table == Decompressed(CompressionType(h.Flags), SubSeq(f, infoOffset + 1, infoOffset + h.CompressedSize), h.DecompressedSize)
      parsed == ParseBlockAndDirInfo(table.v)
      info == parsed.doc
      bytes == SubSeq(f, dataOffset + 1, dataEnd)
  IN IF r.st # "ok" THEN NoBundle(r.st)
     ELSE IF \/ h.Signature # Plaintext(<<"UnityFS">>) \/ h.Version \notin Supported \/ h.TotalFileSize # size
             \/ ~HasFlag(h.Flags, FlagHasDirectoryInfo) \/ h.CompressedSize = 0 \/ h.DecompressedSize = 0 \/ headerEnd > size
             \/ CompressionType(h.Flags) \notin CompressionKinds
             \/ infoOffset < headerEnd \/ infoOffset + h.CompressedSize > size
     THEN NoBundle("refused")
     ELSE IF ~table.ok THEN NoBundle("refused")
     ELSE IF parsed.st # "ok" THEN NoBundle(parsed.st)
     ELSE IF dataOffset > dataEnd \/ Sum(info.BlockInfos, "CompressedSize") # dataEnd - dataOffset THEN NoBundle("refused")
     ELSE IF ~\A d \in Range(info.DirectoryInfos) : GetBundleFile(info.BlockInfos, bytes, d).ok THEN NoBundle("garbled")
     ELSE [st |-> "ok", p |-> size + 1,
           doc |-> [Version |-> h.Version, GenerationVersion |-> h.GenerationVersion, EngineVersion |-> h.EngineVersion,
                    Compress |-> \E b \in Range(info.BlockInfos) : CompressionType(b.Flags) # CompressionNone,
                    Files |-> FilesOf(info, bytes),
                    PartsAgree |-> \A d \in Range(info.DirectoryInfos) : PartsAgree(info.BlockInfos, bytes, d)]]

(***************************************************************************)
(* Writing.                                                                *)
(***************************************************************************)
EntrySize(e) == IF e.Source = "data" THEN Len(e.Second) ELSE e.Size
FileEntryLegal(e) == IF e.Source = "data" THEN e.Size \in {0, Len(e.Second)} ELSE e.Size >= 0
\* What the sources give, which must be as much as they declared.
Exact(files, pass) == \A e \in Range(files) : Len(e[pass]) = EntrySize(e)
DataOf(files, pass) == FlattenSeq([i \in DOMAIN files |-> files[i][pass]])
ForEachBlock(bytes) ==
  IF bytes = <<>> THEN <<<<>>>>
  ELSE [i \in 1 .. (Len(bytes) - 1) \div DataBlock + 1 |-> SubSeq(bytes, (i - 1) * DataBlock + 1, Min({i * DataBlock, Len(bytes)}))]
EncodeBlock(block, compress) ==
  LET small == compress /\ Shrinks(block)
      bytes == IF small THEN Compressed(CompressionLZ4, block) ELSE block
  IN [info |-> [DecompressedSize |-> Len(block), CompressedSize |-> Len(bytes), Flags |-> IF small THEN CompressionLZ4 ELSE CompressionNone], bytes |-> bytes]
EncodedBlocks(d, pass) == LET blocks == ForEachBlock(DataOf(d.Files, pass)) IN [i \in DOMAIN blocks |-> EncodeBlock(blocks[i], d.Compress)]
Infos(encoded) == [i \in DOMAIN encoded |-> encoded[i].info]
DirectoryInfos(files) ==
  [i \in DOMAIN files |->
     [Offset |-> SumOf(SubSeq(files, 1, i - 1), EntrySize), DecompressedSize |-> EntrySize(files[i]),
      Flags |-> IF files[i].Serialized THEN DirFlagSerializedFile ELSE 0, Name |-> files[i].Name]]

Default(s, otherwise) == IF s = <<>> THEN Plaintext(otherwise) ELSE s
BundleHead(d, version, total, compressed, decompressed, flags) ==
  Write(AbaHeader, [Signature |-> Plaintext(<<"UnityFS">>), Version |-> version, GenerationVersion |-> d.GenerationVersion, EngineVersion |-> d.EngineVersion,
                    TotalFileSize |-> total, CompressedSize |-> compressed, DecompressedSize |-> decompressed, Flags |-> flags])
Zeroes(n) == [i \in 1 .. n |-> Tok("byte", "zero")]
HasNul(s) == \E i \in DOMAIN s : s[i].C = "NUL"
Optioned(d) ==
  [d EXCEPT !.Version = IF @ = 0 THEN 8 ELSE @, !.GenerationVersion = Default(@, <<"5", "x">>), !.EngineVersion = Default(@, <<"2022", "f1">>)]
WriteAba(given) ==
  LET d == Optioned(given)
      measured == IF d.Compress THEN EncodedBlocks(d, "First") ELSE EncodedBlocks(d, "Second")
      written == EncodedBlocks(d, "Second")
      info == WriteInfo([BlockInfos |-> Infos(measured), DirectoryInfos |-> DirectoryInfos(d.Files)])
      kind == IF Shrinks(info) THEN CompressionLZ4 ELSE CompressionNone
      table == IF kind = CompressionNone THEN info ELSE Compressed(kind, info)
      header == Len(BundleHead(d, d.Version, 0, 0, 0, 0))
      aligned == IF d.Version >= 7 THEN Align(header) ELSE header
      dataStart == Align(aligned + Len(table))
      total == dataStart + Sum(Infos(measured), "CompressedSize")
      flags == FlagHasDirectoryInfo + FlagBlockInfoNeedPaddingAtStart + kind
  IN IF \/ d.Version \notin Supported \/ HasNul(d.GenerationVersion) \/ HasNul(d.EngineVersion)
        \/ \E e \in Range(d.Files) : HasNul(e.Name) \/ ~FileEntryLegal(e)
        \/ ~Exact(d.Files, "Second") \/ (d.Compress /\ ~Exact(d.Files, "First"))
     THEN <<Refusal>>
     ELSE IF Infos(measured) # Infos(written) THEN <<Refusal>>
     ELSE BundleHead(d, d.Version, total, Len(table), Len(info), flags) \o Zeroes(aligned - header) \o table
            \o Zeroes(dataStart - (aligned + Len(table))) \o FlattenSeq([i \in DOMAIN written |-> written[i].bytes])

(***************************************************************************)
(* The bundles of the game: its tables and its blocks are where and        *)
(* compressed as it likes, d.Form = [AtEnd, Padded, Table, Blocks].        *)
(***************************************************************************)
GameBundle(d) ==
  LET blocks == ForEachBlock(DataOf(d.Files, "Second"))
      Stored(b) == IF d.Form.Blocks = CompressionNone \/ b = <<>> THEN b ELSE Compressed(d.Form.Blocks, b)
      infos == [i \in DOMAIN blocks |-> [DecompressedSize |-> Len(blocks[i]), CompressedSize |-> Len(Stored(blocks[i])),
                                        Flags |-> IF blocks[i] = <<>> THEN 0 ELSE d.Form.Blocks]]
      info == WriteInfo([BlockInfos |-> infos, DirectoryInfos |-> DirectoryInfos(d.Files)])
      table == IF d.Form.Table = CompressionNone THEN info ELSE Compressed(d.Form.Table, info)
      bytes == FlattenSeq([i \in DOMAIN blocks |-> Stored(blocks[i])])
      Padding(n) == IF d.Form.Padded THEN Zeroes(Align(n) - n) ELSE <<>>
      flags == FlagHasDirectoryInfo + (IF d.Form.AtEnd THEN FlagBlockAndDirAtEnd ELSE 0)
                 + (IF d.Form.Padded THEN FlagBlockInfoNeedPaddingAtStart ELSE 0) + d.Form.Table
      header == Len(BundleHead(d, d.Version, 0, 0, 0, 0))
      aligned == IF d.Version >= 7 THEN Align(header) ELSE header
      behind == IF d.Form.AtEnd THEN aligned ELSE aligned + Len(table)
      total == behind + Len(Padding(behind)) + Len(bytes) + (IF d.Form.AtEnd THEN Len(table) ELSE 0)
  IN BundleHead(d, d.Version, total, Len(table), Len(info), flags) \o Zeroes(aligned - header)
       \o (IF d.Form.AtEnd THEN Padding(behind) \o bytes \o table ELSE table \o Padding(behind) \o bytes)

\* A document as its file holds it.
SettledBundle(given) ==
  LET d == Optioned(given)
  IN [Version |-> d.Version, GenerationVersion |-> d.GenerationVersion, EngineVersion |-> d.EngineVersion,
      Compress |-> IF "Form" \in DOMAIN d THEN d.Form.Blocks # CompressionNone /\ DataOf(d.Files, "Second") # <<>>
                   ELSE d.Compress /\ \E i \in DOMAIN Infos(EncodedBlocks(d, "Second")) : Infos(EncodedBlocks(d, "Second"))[i].Flags # CompressionNone,
      Files |-> [i \in DOMAIN d.Files |-> HeldFile(d.Files[i].Name, d.Files[i].Serialized, d.Files[i].Second)],
      PartsAgree |-> TRUE]
=============================================================================
