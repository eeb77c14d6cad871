------------------------------- MODULE Lz4 -------------------------------
(***************************************************************************)
(* The LZ4 envelopes of MessagePack-CSharp: an array of an extension with  *)
(* the size of each block and of the blocks themselves, or an extension    *)
(* of one size and one block.  Whatever does not begin like an envelope is *)
(* taken for data that was never compressed.                               *)
(***************************************************************************)
EXTENDS MsgPack, SequencesExt

CONSTANTS
  BlockSize,               \* bytes of data a block holds (65536 in the code)
  MaxLz4DecompressedSize,  \* the most data an envelope may hold
  CompressBlock(_)         \* the library's compressor: <<>> of a block it cannot make smaller

Lz4ArrayType == 98
Lz4BlockType == 99
Fixed == [n \in {1, 2, 4, 8, 16} |-> CASE n = 1 -> 212 [] n = 2 -> 213 [] n = 4 -> 214 [] n = 8 -> 215 [] n = 16 -> 216]
IsExtMarker(byte)   == byte \in {199, 200, 201} \cup Range(Fixed)
IsArrayMarker(byte) == byte \in 144 .. 159 \cup {220, 221}

(***************************************************************************)
(* Extensions.                                                             *)
(***************************************************************************)
WriteExt(type, payload) ==
  LET n == Len(payload)
      b == Bytes4(n)
  IN (IF n \in DOMAIN Fixed THEN <<Fixed[n], type>>
      ELSE IF n <= 255 THEN <<199, n, type>>
      ELSE IF n <= 65535 THEN <<200, b[3], b[4], type>>
      ELSE <<201, b[1], b[2], b[3], b[4], type>>) \o payload
\* How many bytes behind the marker hold the size.
SizeBytes(marker) == CASE marker = 199 -> 1 [] marker = 200 -> 2 [] marker = 201 -> 4 [] OTHER -> 0
ReadExtPayload(f, p) ==
  LET wide  == SizeBytes(f[p])
      start == p + wide + 2
      size  == IF wide = 0 THEN Bytes4(CHOOSE n \in DOMAIN Fixed : Fixed[n] = f[p]) ELSE LengthAt(f, p, wide)
  IN IF p > Len(f) THEN Unread
     ELSE IF ~IsExtMarker(f[p]) \/ start - 1 > Len(f) THEN Unread
     ELSE IF size[1] >= 128 \/ Number(size) > Len(f) + 1 - start THEN Unread
     ELSE [ok |-> TRUE, type |-> f[start - 1], v |-> SubSeq(f, start, start + Number(size) - 1), p |-> start + Number(size)]

(***************************************************************************)
(* Blocks.  A block is a sequence of literals and copies of what went      *)
(* before; the last one has literals only.                                 *)
(***************************************************************************)
\* A length that does not fit into half a byte goes on in bytes of 255.
LongLength(n) == IF n < 15 THEN <<>> ELSE [i \in 1 .. (n - 15) \div 255 |-> 255] \o <<(n - 15) % 255>>
EncodeLz4LiteralBlock(block) == <<Min({Len(block), 15}) * 16>> \o LongLength(Len(block)) \o block
CompressLz4Block(block) == LET compressed == CompressBlock(block) IN IF compressed # <<>> THEN compressed ELSE EncodeLz4LiteralBlock(block)

\* (The library's decompressor.)  The length half, continued at p of b.
LengthFrom(b, p, half) ==
  IF half < 15 THEN [n |-> half, p |-> p]
  ELSE LET ends == {q \in p .. Len(b) : b[q] # 255}
           last == IF ends = {} THEN Len(b) + 1 ELSE Min(ends)
       IN [n |-> 15 + (last - p) * 255 + (IF ends = {} THEN 0 ELSE b[last]), p |-> last + 1]
Copied(out, offset, n) == out \o [i \in 1 .. n |-> out[Len(out) - offset + 1 + ((i - 1) % offset)]]
\* One sequence: s is the place p it begins at and the data held so far.
NextSequence(b, s) ==
  LET literals == LengthFrom(b, s.p + 1, b[s.p] \div 16)
      behind   == literals.p + literals.n
      held     == s.v \o SubSeq(b, literals.p, behind - 1)
      offset   == b[behind] + b[behind + 1] * 256
      match    == LengthFrom(b, behind + 2, b[s.p] % 16)
  IN IF s.st # "more" THEN s
     ELSE IF s.p > Len(b) \/ behind > Len(b) + 1 THEN [st |-> "bad"]
     ELSE IF behind = Len(b) + 1 THEN [st |-> "end", v |-> held]
     ELSE IF behind = Len(b) THEN [st |-> "bad"]
     ELSE IF offset = 0 \/ offset > Len(held) THEN [st |-> "bad"]
     ELSE [st |-> "more", p |-> match.p, v |-> Copied(held, offset, match.n + 4)]
\* (No block has more sequences than bytes.)
UncompressBlock(b) ==
  LET after[k \in 0 .. Len(b)] == IF k = 0 THEN [st |-> "more", p |-> 1, v |-> <<>>] ELSE NextSequence(b, after[k - 1])
      last == after[Len(b)]
  IN IF last.st = "end" THEN [ok |-> TRUE, v |-> last.v] ELSE Unread

\* The reader goes by the size that was announced.
DecompressLz4Bytes(compressed, size) ==
  IF size = 0 THEN (IF compressed = <<>> THEN [ok |-> TRUE, v |-> <<>>] ELSE Unread)
  ELSE LET r == UncompressBlock(compressed)
       IN IF r.ok THEN (IF Len(r.v) = size THEN r ELSE Unread) ELSE r

(***************************************************************************)
(* Sizes.                                                                  *)
(***************************************************************************)
AppendMsgpackUint(n) == LET b == Bytes4(n) IN AppendUInt64(<<0, 0, 0, 0>> \o b)
DecodeMsgpackInt(payload, p) == ReadInt64(payload, p)
SizeOf(v) == Number(SubSeq(v, 5, 8))
ValidateLz4Size(v) == IF Zeros(v, 4) /\ v[5] < 128 THEN SizeOf(v) <= MaxLz4DecompressedSize ELSE FALSE
\* One size: s is the place p it begins at and the sizes before it.
NextSize(payload, s) ==
  LET r == DecodeMsgpackInt(payload, s.p)
  IN IF ~s.ok THEN s
     ELSE IF s.p > Len(payload) THEN s
     ELSE IF ~r.ok THEN Unread
     ELSE IF ~ValidateLz4Size(r.v) THEN Unread
     ELSE [ok |-> TRUE, v |-> Append(s.v, SizeOf(r.v)), p |-> r.p]
DecodeMsgpackIntList(payload) ==
  LET after[k \in 0 .. Len(payload)] == IF k = 0 THEN [ok |-> TRUE, v |-> <<>>, p |-> 1] ELSE NextSize(payload, after[k - 1])
  IN after[Len(payload)]
\* The sum, or -1 of a sum that is too large.
AddSize(total, n) == IF total = -1 \/ n > MaxLz4DecompressedSize - total THEN -1 ELSE total + n
SumLz4Sizes(sizes) ==
  LET total[k \in 0 .. Len(sizes)] == IF k = 0 THEN 0 ELSE AddSize(total[k - 1], sizes[k])
  IN total[Len(sizes)]

(***************************************************************************)
(* Envelopes.                                                              *)
(***************************************************************************)
BlocksOf(bytes) ==
  [i \in 1 .. (Len(bytes) - 1) \div BlockSize + 1 |-> SubSeq(bytes, (i - 1) * BlockSize + 1, Min({i * BlockSize, Len(bytes)}))]
CompressLz4BlockArray(bytes) ==
  IF bytes = <<>> THEN [ok |-> TRUE, v |-> bytes]
  ELSE IF Len(bytes) > MaxLz4DecompressedSize THEN Unread
  ELSE LET blocks == BlocksOf(bytes)
           sizes  == FlattenSeq([i \in DOMAIN blocks |-> AppendMsgpackUint(Len(blocks[i]))])
       IN [ok |-> TRUE,
           v  |-> WriteArrayHeader(Bytes4(1 + Len(blocks))) \o WriteExt(Lz4ArrayType, sizes)
                    \o FlattenSeq([i \in DOMAIN blocks |-> writeBin32(CompressLz4Block(blocks[i]))])]
\* (The game's envelope of one block.)
Lz4Block(bytes) == WriteExt(Lz4BlockType, AppendMsgpackUint(Len(bytes)) \o CompressLz4Block(bytes))

DecompressSingleLz4Block(payload) ==
  LET size == DecodeMsgpackInt(payload, 1)
  IN IF ~size.ok THEN Unread
     ELSE IF ~ValidateLz4Size(size.v) THEN Unread
     ELSE DecompressLz4Bytes(SubSeq(payload, size.p, Len(payload)), SizeOf(size.v))
\* One block of the envelope f: s is the place p it begins at and the data before it.
NextBlock(f, s, size) ==
  LET bin   == ReadBin(f, s.p)
      block == DecompressLz4Bytes(bin.v, size)
  IN IF ~s.ok THEN s
     ELSE IF ~bin.ok THEN Unread
     ELSE IF ~block.ok THEN Unread
     ELSE [ok |-> TRUE, v |-> s.v \o block.v, p |-> bin.p]
Blocks(f, p, sizes) ==
  LET after[k \in 0 .. Len(sizes)] == IF k = 0 THEN [ok |-> TRUE, v |-> <<>>, p |-> p] ELSE NextBlock(f, after[k - 1], sizes[k])
  IN after[Len(sizes)]
DecompressStandardLz4BlockArray(f, p, blocks, header) ==
  LET sizes == DecodeMsgpackIntList(header)
      data  == Blocks(f, p, sizes.v)
  IN IF ~sizes.ok THEN Unread
     ELSE IF Len(sizes.v) # blocks \/ SumLz4Sizes(sizes.v) = -1 THEN Unread
     ELSE IF ~data.ok THEN Unread
     ELSE IF data.p = Len(f) + 1 THEN [ok |-> TRUE, v |-> data.v] ELSE Unread
DecompressLz4BlockArray(f) ==
  LET raw   == [ok |-> TRUE, v |-> f]
      array == readArrayHeader(f, 1)
      ext   == ReadExtPayload(f, IF IsExtMarker(f[1]) THEN 1 ELSE array.p)
  IN IF f = <<>> THEN raw
     ELSE IF IsExtMarker(f[1])
     THEN IF ~ext.ok THEN Unread
          ELSE IF ext.type # Lz4BlockType THEN raw
          ELSE IF ext.p # Len(f) + 1 THEN Unread ELSE DecompressSingleLz4Block(ext.v)
     ELSE IF ~IsArrayMarker(f[1]) THEN raw
     ELSE IF ~array.ok THEN Unread
     ELSE IF Number(array.v) < 2 \/ array.p > Len(f) THEN raw
     ELSE IF ~IsExtMarker(f[array.p]) THEN raw
     ELSE IF ~ext.ok THEN Unread
     ELSE IF ext.type # Lz4ArrayType THEN raw
     ELSE DecompressStandardLz4BlockArray(f, ext.p, Number(array.v) - 1, ext.v)
=============================================================================
