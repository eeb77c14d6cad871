-------------------------- MODULE Com3d2Archive --------------------------
(***************************************************************************)
(* The ARC archive: the files one after another, then two hash tables of   *)
(* the tree of directories (one by the UTF-16 and one by the UTF-8 bytes   *)
(* of the names, of which the reader uses the first), then the table that  *)
(* gives the hashes their names.  A name is hashed in lower case.          *)
(*                                                                         *)
(* An archive is [Name, Dirs, Files]: paths of directories, and a function *)
(* from paths to [Data, Compressed].  A name is a sequence of components,  *)
(* one but for the root; its hash is the name in lower case, taken to be   *)
(* one to one.  Compressed bytes are one token.  Names that differ in case *)
(* alone are in different directories: see hazards.                        *)
(***************************************************************************)
EXTENDS Layouts

CONSTANTS
  ToLower(_),       \* a component in lower case
  CompressGlobs(_), \* the names that are compressed
  MaxTableDepth     \* a bound of the model on directories in directories

Root == <<>>
Listed(S, Op(_)) == FoldSet(LAMBDA x, out : Append(out, Op(x)), <<>>, S)
NameOf(arc, path) == IF path = Root THEN <<"MeidoSerialization:", arc.Name>> ELSE <<Last(path)>>
NameHash(name) == [i \in DOMAIN name |-> ToLower(name[i])]
Held(paths, dir) == {path \in paths : path # Root /\ Front(path) = dir}
Dirs(arc, dir)  == Held(arc.Dirs, dir)
Files(arc, dir) == Held(DOMAIN arc.Files, dir)
RECURSIVE AllDirs(_, _), AllFiles(_, _)
AllDirs(arc, dir)  == <<dir>> \o FlattenSeq(Listed(Dirs(arc, dir), LAMBDA d : AllDirs(arc, d)))
AllFiles(arc, dir) == Listed(Files(arc, dir), LAMBDA file : file) \o FlattenSeq(Listed(Dirs(arc, dir), LAMBDA d : AllFiles(arc, d)))

deflateCompress(bytes) == <<Tok("deflated", bytes)>>
Deflated(bytes) == Len(bytes) = 1 /\ bytes[1].k = "deflated"
deflateDecompress(bytes) == bytes[1].v

(***************************************************************************)
(* Writing.                                                                *)
(***************************************************************************)
FileHeader == 4
StoredFile(arc, path) ==
  LET raw      == arc.Files[path].Data
      compress == arc.Files[path].Compressed \/ CompressGlobs(Last(path))
      enc      == IF compress THEN deflateCompress(raw) ELSE raw
  IN <<Tok("#u32", IF compress THEN 1 ELSE 0), Tok("u32", "zero"), Tok("raw size", Len(raw)), Tok("#u32", Len(enc))>> \o enc
\* Where a directory's table is, from the start of that of its parent, in bytes.
calculateDirOffsets(arc) ==
  LET TableSize(d) == 32 + 16 * (Cardinality(Dirs(arc, d)) + Cardinality(Files(arc, d))) + 8 * Len(d)
      Delta(dict, d) == FoldSet(LAMBDA n, sum : sum + dict[SubSeq(d, 1, n)], 0, 0 .. Len(d) - 1)
      Place(at, d) == [dict |-> (d :> at.offset - Delta(at.dict, d)) @@ at.dict, offset |-> at.offset + TableSize(d)]
  IN FoldLeft(Place, [dict |-> <<>>, offset |-> 0], AllDirs(arc, Root)).dict

\* The layout of a hash table, with one of the two hashes.
FileEntryRec(hash) == <<Get(hash, "Hash"), Num("#i64", "Offset")>>
RECURSIVE HashTable(_, _)
HashTable(hash, depth) ==
  <<Get("dir header", "Header"), Get(hash, "ID"), Cnt("#i32", "DirEntries"), Cnt("#i32", "FileEntries"), Size("#i32", "Depth"), Get("i32", "Padding"),
    Each("DirEntries", FileEntryRec(hash)), Each("FileEntries", FileEntryRec(hash)), Times("Depth", "ParentsID", <<Get(hash, "ID")>>),
    Par("DirEntries", "SubDirEntries", IF depth = 0 THEN <<Stop>> ELSE HashTable(hash, depth - 1))>>
RECURSIVE writeHashTable(_, _, _, _)
writeHashTable(arc, dirOffsets, fileOffsets, dir) ==
  LET Hash(path) == NameHash(NameOf(arc, path))
  IN [Header |-> "dir", ID |-> Hash(dir), Depth |-> Len(dir), Padding |-> "zero",
      DirEntries  |-> Listed(Dirs(arc, dir), LAMBDA d : [Hash |-> Hash(d), Offset |-> dirOffsets[d]]),
      FileEntries |-> Listed(Files(arc, dir), LAMBDA file : [Hash |-> Hash(file), Offset |-> fileOffsets[file]]),
      ParentsID   |-> [i \in 1 .. Len(dir) |-> [ID |-> Hash(SubSeq(dir, 1, i - 1))]],
      SubDirEntries |-> Listed(Dirs(arc, dir), LAMBDA d : writeHashTable(arc, dirOffsets, fileOffsets, d))]
\* The names of the files, then of the directories, each once.
writeNameTable(arc) ==
  LET paths == AllFiles(arc, Root) \o AllDirs(arc, Root)
      names == FoldLeft(LAMBDA seen, path : IF NameOf(arc, path) \in Range(seen) THEN seen ELSE Append(seen, NameOf(arc, path)), <<>>, paths)
  IN FlattenSeq([i \in DOMAIN names |-> <<Tok("utf16", NameHash(names[i])), Tok("name", names[i])>>])

Dump(arc) ==
  LET files == FoldLeft(LAMBDA out, path : [data |-> out.data \o StoredFile(arc, path), offsets |-> (path :> Len(out.data)) @@ out.offsets],
                        [data |-> <<>>, offsets |-> <<>>], AllFiles(arc, Root))
      Table(hash) == Write(HashTable(hash, MaxTableDepth), writeHashTable(arc, calculateDirOffsets(arc), files.offsets, Root))
      Section(type, content) == <<Tok("#i32", type), Tok("#i64", Len(content))>> \o content
      names == deflateCompress(writeNameTable(arc))
  IN <<Tok("str", "warc"), Tok("#i64", Len(files.data))>> \o files.data \o Section(0, Table("utf16")) \o Section(1, Table("utf8"))
       \o Section(3, <<Tok("#u32", 1), Tok("u32", "zero"), Tok("raw size", Len(writeNameTable(arc))), Tok("#u32", Len(names))>> \o names)

(***************************************************************************)
(* Reading.                                                                *)
(***************************************************************************)
NoArchive == [st |-> "refused", p |-> 1, doc |-> <<>>]
HeaderEnd == 2
AreKinds(f, p, kinds) == p > 0 /\ p + Len(kinds) - 1 <= Len(f) /\ \A i \in DOMAIN kinds : f[p + i - 1].k = kinds[i]
\* What a file or the name table holds, once as <<bytes>>; nothing if it cannot be read.
StoredKinds == <<"#u32", "u32", "raw size", "#u32">>
Content(f, p) ==
  IF ~AreKinds(f, p, StoredKinds) THEN <<>>
  ELSE LET size == f[p + 3].v
           data == SubSeq(f, p + FileHeader, p + FileHeader + size - 1)
       IN IF p + FileHeader + size - 1 > Len(f) THEN <<>>
          ELSE IF f[p].v # 1 THEN <<data>> ELSE IF Deflated(data) THEN <<deflateDecompress(data)>> ELSE <<>>
\* The blocks until each of the three has been met; the last of a type counts.
RECURSIVE ReadBlocks(_, _, _)
ReadBlocks(f, p, found) ==
  IF {0, 1, 3} \subseteq DOMAIN found THEN found
  ELSE IF ~AreKinds(f, p, <<"#i32", "#i64">>) THEN <<>>
  ELSE LET size == f[p + 1].v
       IN IF f[p].v \in {0, 1} /\ 0 <= size /\ p + 1 + size <= Len(f)
          THEN ReadBlocks(f, p + 2 + size, (f[p].v :> SubSeq(f, p + 2, p + 1 + size)) @@ found)
          ELSE IF f[p].v = 3 /\ Content(f, p + 2) # <<>>
          THEN ReadBlocks(f, p + 2 + FileHeader + f[p + 5].v, (3 :> Content(f, p + 2)[1]) @@ found)
          ELSE <<>>
readNameTable(names) == [i \in 1 .. Len(names) \div 2 |-> [hash |-> names[2 * i - 1].v, name |-> names[2 * i].v]]
\* The first name a hash has.
NameIn(lut, hash) ==
  LET named == {i \in DOMAIN lut : lut[i].hash = hash}
  IN IF named = {} THEN <<>> ELSE lut[CHOOSE i \in named : \A j \in named : i <= j].name

\* The directories and files below a table.
RECURSIVE populateArc(_, _, _)
populateArc(tab, lut, dir) ==
  LET Path(hash) == dir \o NameIn(lut, hash)
      Sub(hash) == {i \in DOMAIN tab.SubDirEntries : tab.SubDirEntries[i].ID = hash}
      First(S) == CHOOSE i \in S : \A j \in S : i <= j
      Under(i) == populateArc(tab.SubDirEntries[First(Sub(tab.DirEntries[i].Hash))], lut, Path(tab.DirEntries[i].Hash))
      named == \A entry \in Range(tab.DirEntries) \cup Range(tab.FileEntries) : NameIn(lut, entry.Hash) # <<>>
      here  == FoldLeft(LAMBDA files, entry : (Path(entry.Hash) :> entry.Offset) @@ files, <<>>, tab.FileEntries)
      below == [i \in DOMAIN tab.DirEntries |-> Under(i)]
  IN IF named /\ (\A i \in DOMAIN tab.DirEntries : Sub(tab.DirEntries[i].Hash) # {}) /\ \A i \in DOMAIN below : below[i].ok
     THEN [ok |-> TRUE, dirs |-> {Path(entry.Hash) : entry \in Range(tab.DirEntries)} \cup UNION {below[i].dirs : i \in DOMAIN below},
           files |-> FoldLeft(LAMBDA files, part : part.files @@ files, here, below)]
     ELSE [ok |-> FALSE]
\* An archive and the data of its files, which are read when they are asked for.
ReadArc(f) ==
  LET start  == HeaderEnd + 1
      blocks == ReadBlocks(f, start + f[2].v, <<>>)
      utf16  == Read(HashTable("utf16", MaxTableDepth), blocks[0])
      utf8   == Read(HashTable("utf8", MaxTableDepth), blocks[1])
      lut    == readNameTable(blocks[3])
      tree   == populateArc(utf16.doc, lut, Root)
      name   == NameIn(lut, utf16.doc.ID)
  IN IF ~AreKinds(f, 1, <<"str", "#i64">>) \/ blocks = <<>> THEN NoArchive
     ELSE IF utf16.st # "ok" \/ utf8.st # "ok" THEN NoArchive
     ELSE IF ~tree.ok THEN NoArchive
     ELSE IF \E path \in DOMAIN tree.files : Content(f, start + tree.files[path]) = <<>> THEN NoArchive
     ELSE [st |-> "ok", p |-> Len(f) + 1,
           doc |-> [Name |-> IF name = <<>> THEN "root" ELSE Last(name), Dirs |-> tree.dirs,
                    Files |-> [path \in DOMAIN tree.files |->
                                 [Data |-> Content(f, start + tree.files[path])[1], Compressed |-> f[start + tree.files[path]].v = 1]]]]
\* One spelling of a name for the whole archive, and compression by name.
SettledArc(arc) ==
  LET lut == readNameTable(writeNameTable(arc))
      Spelling(path) == [i \in DOMAIN path |-> NameIn(lut, NameHash(<<path[i]>>))[1]]
      At(path) == CHOOSE old \in DOMAIN arc.Files : Spelling(old) = path
  IN [arc EXCEPT !.Dirs = {Spelling(path) : path \in @},
                 !.Files = [path \in {Spelling(old) : old \in DOMAIN arc.Files} |->
                              [arc.Files[At(path)] EXCEPT !.Compressed = @ \/ CompressGlobs(Last(path))]]]

(***************************************************************************)
(* Editing.  An edit is [op, path, from, data, arc].                       *)
(***************************************************************************)
pathSplit(path) == SelectSeq(path, LAMBDA segment : segment \notin {"", "."})
\* The directories a path goes through, the last of them its own.
Step(dir, segment) == IF segment = ".." THEN (IF dir = Root THEN Root ELSE Front(dir)) ELSE Append(dir, segment)
Through(path) == FoldLeft(LAMBDA dirs, segment : Append(dirs, Step(Last(dirs), segment)), <<Root>>, Front(pathSplit(path)))
Resolved(path) == Append(Last(Through(path)), Last(pathSplit(path)))
AddFileByPath(arc, path, file) ==
  [arc EXCEPT !.Dirs = @ \cup (Range(Through(path)) \ {Root}), !.Files = (Resolved(path) :> file) @@ @]
Exists(arc, path) == Range(Through(path)) \subseteq arc.Dirs \cup {Root} /\ Resolved(path) \in DOMAIN arc.Files
DeleteFileByPath(arc, path) == [arc EXCEPT !.Files = [other \in DOMAIN @ \ {Resolved(path)} |-> @[other]]]
\* The copy is compressed if the file is.
CopyFile(arc, from, path) == AddFileByPath(arc, path, arc.Files[Resolved(from)])
MergeFrom(arc, other) == [arc EXCEPT !.Dirs = @ \cup other.Dirs, !.Files = other.Files @@ @]
Edited(arc, e) ==
  CASE e.op = "create" -> <<AddFileByPath(arc, e.path, [Data |-> e.data, Compressed |-> FALSE])>>
    [] e.op = "delete" -> IF Exists(arc, e.path) THEN <<DeleteFileByPath(arc, e.path)>> ELSE <<>>
    [] e.op = "copy"   -> IF Exists(arc, e.from) THEN <<CopyFile(arc, e.from, e.path)>> ELSE <<>>
    [] e.op = "merge"  -> <<MergeFrom(arc, e.arc)>>
\* An archive is saved, read again, edited and saved.
DumpEdited(arc, e) ==
  LET edited == Edited(ReadArc(Dump(arc)).doc, e) IN IF edited = <<>> THEN <<Refusal>> ELSE Dump(edited[1])
=============================================================================
