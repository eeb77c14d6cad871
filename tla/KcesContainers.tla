-------------------------- MODULE KcesContainers --------------------------
(***************************************************************************)
(* The virtual directory (.ct), a file that holds a tree of other files,   *)
(* and the catalogs.                                                       *)
(*                                                                         *)
(* Positions and sizes count tokens.  A path is the sequence of its        *)
(* components.  What is in a map is written in the order of its keys; any  *)
(* one fixed order stands for that.  The LZ4 envelope is not modelled.     *)
(***************************************************************************)
EXTENDS KcesFiles

Listed(S, Op(_)) == FoldSet(LAMBDA x, out : Append(out, Op(x)), <<>>, S)
InOrder(S) == Listed(S, LAMBDA x : x)
Merged(maps) == FoldLeft(LAMBDA all, map : map @@ all, <<>>, maps)
Unread == [st |-> "refused", p |-> 1, doc |-> <<>>]
Found(f, content) == [st |-> "ok", p |-> Len(f) + 1, doc |-> content]
Part(f, position, size) == SubSeq(f, position + 1, position + size)

\* A header, the bytes of the files, the tree of directories, and a footer with
\* the size of the tree, in two framings.
HeaderSize == 2
Signature == Tok("str", "virtual directory")
SerializeType == [legacy |-> Tok("#byte", 142), extended |-> Tok("#byte", 255)]
FooterKind == [legacy |-> "#u32", extended |-> "#i64"]
FooterMagic == [legacy |-> <<>>, extended |-> <<"magic">>]  \* the kinds of its tokens
FooterSize(framing) == 1 + Len(FooterMagic[framing])

VirtualFile == <<Get("key", "Name"), Lit("#array", 2), Num("#i64", "Position"), Num("#i32", "Size")>>
\* (A bound of the model; the library stops at 256 containers in one another.)
MaxDirectoryDepth == 3
RECURSIVE VirtualDirectory(_)
VirtualDirectory(depth) ==
  <<Lit("#array", 3), Int32("Version"),
    MapMin("#map", "Dirs", 2, <<Get("key", "Name")>> \o (IF depth = 0 THEN <<Stop>> ELSE VirtualDirectory(depth - 1))),
    MapMin("#map", "Files", 2, VirtualFile)>>
Tree == VirtualDirectory(MaxDirectoryDepth)

Unsafe == {"", ".", ".."}
canonicalVirtualComponent(name) == name \notin Unsafe
canonicalVirtualPath(path) == path # <<>> /\ \A i \in DOMAIN path : canonicalVirtualComponent(path[i])

\* What a directory at a path holds, itself and all below it.
RECURSIVE extractDirectoryFilesRaw(_, _)
extractDirectoryFilesRaw(dir, prefix) ==
  LET below == [i \in DOMAIN dir.Dirs |-> extractDirectoryFilesRaw(dir.Dirs[i], Append(prefix, dir.Dirs[i].Name))]
      here  == [i \in DOMAIN dir.Files |-> Append(prefix, dir.Files[i].Name) :> [Position |-> dir.Files[i].Position, Size |-> dir.Files[i].Size]]
  IN [Directories |-> Merged([i \in DOMAIN below |-> below[i].Directories]) @@ (IF prefix = <<>> THEN <<>> ELSE prefix :> dir.Version),
      Files |-> Merged([i \in DOMAIN below |-> below[i].Files] \o here)]

\* A content table: where its files are in the bytes Raw, of which those from
\* dataEnd on, if it is not 0, are not theirs.
Available(ct) == IF 0 < ct.dataEnd /\ ct.dataEnd < Len(ct.Raw) THEN ct.dataEnd ELSE Len(ct.Raw)
InBounds(ct, path) ==
  LET vf == ct.Files[path]
  IN 0 <= vf.Position /\ vf.Position <= Available(ct) /\ 0 <= vf.Size /\ vf.Size <= Available(ct) - vf.Position
GetFileData(ct, path) == Part(ct.Raw, ct.Files[path].Position, ct.Files[path].Size)
GetFileNames(ct) == InOrder(DOMAIN ct.Files)

\* Where the tree is in a file: <<the framing, its start, its end>>, if it can be.
readVirtualDirectoryMetadataRange(f) ==
  {r \in {<<framing, Len(f) - FooterSize(framing)>> : framing \in DOMAIN SerializeType} :
     /\ f[HeaderSize] = SerializeType[r[1]]
     /\ Len(f) >= HeaderSize + FooterSize(r[1]) + 1
     /\ [i \in 1 .. Len(f) - r[2] - 1 |-> f[r[2] + 1 + i].k] = FooterMagic[r[1]]
     /\ f[r[2] + 1].k = FooterKind[r[1]]
     /\ 0 < f[r[2] + 1].v /\ f[r[2] + 1].v <= r[2] - HeaderSize}
NoTable == [ok |-> FALSE]
ReadContentTable(f) ==
  IF Len(f) < HeaderSize \/ f[1] # Signature \/ readVirtualDirectoryMetadataRange(f) = {} THEN NoTable
  ELSE LET range == CHOOSE r \in readVirtualDirectoryMetadataRange(f) : TRUE
           start == range[2] - f[range[2] + 1].v
           root  == Read(Tree \o <<End>>, SubSeq(f, start + 1, range[2]))
           all   == extractDirectoryFilesRaw(root.doc, <<>>)
           ct    == [ok |-> TRUE, Version |-> root.doc.Version, Framing |-> range[1], Directories |-> all.Directories,
                     Files |-> all.Files, Raw |-> f, dataEnd |-> start]
       IN IF /\ root.st = "ok"
             /\ \A path \in DOMAIN all.Files \cup DOMAIN all.Directories : canonicalVirtualPath(path)
             /\ \A path \in DOMAIN all.Files :
                  InBounds(ct, path) /\ (all.Files[path].Size > 0 => all.Files[path].Position >= HeaderSize)
          THEN ct ELSE NoTable

\* A directory nobody gave a version has that of the one it is in.
RECURSIVE encodeVirtualDirNode(_, _, _, _)
encodeVirtualDirNode(dirs, files, prefix, inherited) ==
  LET version  == IF prefix \in DOMAIN dirs THEN dirs[prefix] ELSE inherited
      depth    == Len(prefix) + 1
      Under(paths, least) == {path \in paths : Len(path) >= least /\ SubSeq(path, 1, depth - 1) = prefix}
      children == {path[depth] : path \in Under(DOMAIN dirs, depth) \cup Under(DOMAIN files, depth + 1)}
      here     == {path \in Under(DOMAIN files, depth) : Len(path) = depth}
  IN [Version |-> version,
      Dirs  |-> Listed(children, LAMBDA name : [Name |-> name] @@ encodeVirtualDirNode(dirs, files, Append(prefix, name), version)),
      Files |-> Listed(here, LAMBDA path : [Name |-> path[depth]] @@ files[path])]
encodeVirtualDirectoryTree(ct, files) == encodeVirtualDirNode((<<>> :> ct.Version) @@ ct.Directories, files, <<>>, ct.Version)
encodeVirtualDirectoryMetadataFooter(framing, size) == <<Tok(FooterKind[framing], size)>> \o [i \in DOMAIN FooterMagic[framing] |-> Tok(FooterMagic[framing][i], "footer")]

\* The files are written one after another, whatever their positions were.
WriteContentTable(ct) ==
  LET names   == GetFileNames(ct)
      packed  == FoldLeft(LAMBDA out, path :
                            LET bytes == GetFileData(ct, path)
                            IN [Files |-> (path :> [Position |-> HeaderSize + Len(out.Data), Size |-> Len(bytes)]) @@ out.Files,
                                Data  |-> out.Data \o bytes],
                          [Files |-> <<>>, Data |-> <<>>], names)
      tree    == Write(Tree, encodeVirtualDirectoryTree(ct, packed.Files))
  IN IF /\ ct.Framing \in DOMAIN SerializeType
        /\ \A path \in DOMAIN ct.Files \cup DOMAIN ct.Directories : canonicalVirtualPath(path)
        /\ \A path \in DOMAIN ct.Files : InBounds(ct, path)
     THEN <<Signature, SerializeType[ct.Framing]>> \o packed.Data \o tree \o encodeVirtualDirectoryMetadataFooter(ct.Framing, Len(tree))
     ELSE <<Refusal>>

\* A file is added at the end, over what was behind the data that were read.
\* The space of one it replaces is given up.
AddFile(ct, path, bytes) ==
  LET raw == SubSeq(ct.Raw, 1, Available(ct))
  IN [ct EXCEPT !.Raw = raw \o bytes, !.dataEnd = 0, !.Files = (path :> [Position |-> Len(raw), Size |-> Len(bytes)]) @@ @]
NewContentTable(version, framing, directories) ==
  [ok |-> TRUE, Version |-> version, Framing |-> framing, Directories |-> directories, Files |-> <<>>,
   Raw |-> <<Signature, SerializeType.legacy>>, dataEnd |-> 0]
AddFiles(ct, files) == FoldSet(LAMBDA path, out : AddFile(out, path, files[path]), ct, DOMAIN files)
Contents(ct) == [path \in DOMAIN ct.Files |-> GetFileData(ct, path)]

\* The table as a document, and the one saved again with a file added to it.
TableOf(d) == AddFiles(NewContentTable(d.Version, d.Framing, d.Directories), d.Files)
DecodeTable(f) ==
  LET ct == ReadContentTable(f)
  IN IF ~ct.ok THEN Unread
     ELSE Found(f, [Version |-> ct.Version, Framing |-> ct.Framing, Directories |-> ct.Directories, Files |-> Contents(ct)])
EncodeTable(d) == WriteContentTable(TableOf(d))
EncodeEdited(d) ==
  LET out == EncodeTable(d)
  IN IF Refuses(out) THEN out ELSE WriteContentTable(AddFile(ReadContentTable(out), d.Name, d.Data))
\* The directories a file makes have a version when they come back.
Ancestors(paths) == UNION {{SubSeq(path, 1, n) : n \in 1 .. Len(path)} : path \in paths}
RECURSIVE VersionAt(_, _, _)
VersionAt(directories, path, root) ==
  IF path = <<>> THEN root ELSE IF path \in DOMAIN directories THEN directories[path] ELSE VersionAt(directories, Front(path), root)
Versioned(directories, files, root) ==
  [path \in Ancestors(DOMAIN directories \cup {Front(name) : name \in files}) |-> VersionAt(directories, path, root)]
SettledTable(d) == [d EXCEPT !.Directories = Versioned(@, DOMAIN d.Files, d.Version)]
SettledEdited(d) ==
  LET edited == [d EXCEPT !.Files = (d.Name :> d.Data) @@ @] IN [x \in {"Version", "Framing", "Directories", "Files"} |-> SettledTable(edited)[x]]

(***************************************************************************)
(* The catalog of a KCES asset bundle, the one of assets in a virtual      *)
(* directory, which has other fields and no word for which it is, and the  *)
(* list of the names that have an extension.                               *)
(***************************************************************************)
Texts(n) == List(n, <<Str("Text")>>)
CatalogItem        == Object("Item", <<Int32("ResourceIndex"), Str("Name"), Get("u64", "Hash")>>)
VirtualCatalogItem == Object("Item", <<Str("AssetPath"), Str("Name"), Get("u64", "Hash")>>)
CatalogHead ==
  <<Int32("Version"), Int32("CatalogType"), Int32("PackageType"), Int32("Priority"), Str("Name"), Str("SubName"), Get("u64", "Hash"), Get("i64", "CreateTime")>>
assetBundleCatalogWire  == Slots(CatalogHead \o <<Bool("IsEncrypted"), Texts("ResourceFileNames"), Texts("ExtensionList"), List("Items", <<CatalogItem>>)>>)
virtualAssetCatalogWire == Slots(CatalogHead \o <<Texts("ExtensionList"), List("VirtualItems", <<VirtualCatalogItem>>)>>)

\* A catalog of one kind has nothing in the fields of the other.
Wires == [assetBundle |-> assetBundleCatalogWire, virtualAsset |-> virtualAssetCatalogWire]
Unset(kind) ==
  LET others == IF kind = "assetBundle" THEN <<List("VirtualItems", <<VirtualCatalogItem>>)>>
                ELSE <<Bool("IsEncrypted"), Texts("ResourceFileNames"), List("Items", <<CatalogItem>>)>>
  IN [i \in DOMAIN others |-> Implied(others[i].n, Zero(others[i]))]
OfKind(kind) == <<Implied("Kind", kind)>> \o Unset(kind) \o Wires[kind]

\* The width alone tells the kind, where the caller does not.
decodeCatalog ==
  <<Ref("#array", "Catalog", <<Peek("#array", {12}, OfKind("assetBundle"), <<Peek("#array", {10}, OfKind("virtualAsset"), <<Stop>>)>>)>>), End>>
DecodeCatalogWithKind(kind) == <<Ref("#array", "Catalog", OfKind(kind)), End>>
EncodeCatalog == <<Ref("#array", "Catalog", <<Of("Kind", [kind \in DOMAIN Wires |-> OfKind(kind)])>>)>>

ExtensionNamePack == Object("Pack", <<Str("Name"), Get("u64", "Hash")>>)
ExtensionNameList == Object("Names", <<Str("Extension"), List("Data", <<ExtensionNamePack>>)>>)
DecodeExtensionNameList == <<ExtensionNameList, End>>
EncodeExtensionNameList == <<ExtensionNameList>>
=============================================================================
