------------------------- MODULE SerializedFile -------------------------
(***************************************************************************)
(* The serialized files of Unity: a header, the metadata (the types of the *)
(* objects with their trees, and the table of the objects), and the data.  *)
(* Files of versions 12 to 22 are read; those the packer builds are of     *)
(* version 22 and end in the container that names their objects.           *)
(*                                                                         *)
(* Metadata is tokens of Layouts, a node of a tree being one of them; data *)
(* is the bytes of TypeTrees.  Positions and sizes count tokens, and one   *)
(* flag stands for the order of the bytes.                                 *)
(*                                                                         *)
(* A type is [TypeId, IsStrippedType, ScriptTypeIndex, ScriptIdHash,       *)
(* TypeHash, Nodes, StringBuffer, TypeDependencies], a tree is that        *)
(* without the index, and its nodes are those of TypeTrees.                *)
(***************************************************************************)
EXTENDS UnityAssets

ClassIDTexture2D     == 28
ClassIDTextAsset     == 49
ClassIDMonoBehaviour == 114
ClassIDMonoScript    == 115
ClassIDAssetBundle   == 142
\* Material, Texture2D, Mesh, Shader, TextAsset, AnimationClip, AudioClip,
\* Cubemap, MonoScript, Font, AssetBundle, Sprite.
rawObjectHasLeadingName == {21, 28, 43, 48, 49, 74, 83, 89, 115, 128, 142, 213}

(***************************************************************************)
(* The header and the metadata, by version.                                *)
(***************************************************************************)
sfVersion == 22
UnityVersions2022 == {"2022.3.35f1", "2022.3.0"}  \* of the line 2022.3
Versions == 12 .. sfVersion
AssetsFileHeader ==
  <<Num("#u32", "LegacyMetadataSize"), Num("#u32", "LegacyFileSize"), Num("#u32", "Version"), Num("#u32", "LegacyDataOffset"),
    Num("#byte", "Endianness"), Get("reserved", "Reserved"), Check("Endianness", Between(0, 1)), Check("Version", Between(12, sfVersion)),
    If("Version", AtLeast(22), <<Num("#u32", "MetadataSize"), Size("#i64", "FileSize"), Size("#i64", "DataOffset"), Get("i64", "LargeFilesUnknown")>>)>>
MetadataSize(h) == IF h.Version >= 22 THEN h.MetadataSize ELSE h.LegacyMetadataSize
FileSize(h)     == IF h.Version >= 22 THEN h.FileSize ELSE h.LegacyFileSize
DataOffset(h)   == IF h.Version >= 22 THEN h.DataOffset ELSE h.LegacyDataOffset

Since(v, n, L)  == IF v >= n THEN L ELSE <<>>
Before(v, n, L) == IF v < n THEN L ELSE <<>>
PlusIf(c, n)    == IF c THEN n ELSE 0

\* Script types had negative class ids before version 16.
ScriptIdHash(v, ref) ==
  LET hash == <<Get("hash", "ScriptIdHash")>>
  IN IF ref THEN <<If("TypeId", Is(ClassIDMonoBehaviour), hash),
                   If("TypeId", Below(ClassIDMonoBehaviour) \cup AtLeast(ClassIDMonoBehaviour + 1), <<If("ScriptTypeIndex", AtLeast(0), hash)>>)>>
     ELSE <<If("TypeId", IF v < 16 THEN Below(0) ELSE Is(ClassIDMonoBehaviour), hash)>>
NodeBlob(v) == <<Get(IF v >= 19 THEN "node" ELSE "node24", "Node")>>
TreeBlob(v, ref) ==
  <<Cnt("#i32", "Nodes"), Cnt("#i32", "StringBuffer"), Each("Nodes", NodeBlob(v)), Each("StringBuffer", Char)>>
    \o Since(v, 21, IF ref THEN <<Get("str", "ClassName"), Get("str", "Namespace"), Get("str", "AssemblyName")>>
                    ELSE <<ArrMin("#i32", "TypeDependencies", 4, <<Get("i32", "D")>>)>>)
SerializedType(v, trees, ref) ==
  <<Num("#i32", "TypeId")>> \o Since(v, 16, <<Num("#bool", "IsStrippedType")>>)
    \o (IF v >= 17 THEN <<Num("#i16", "ScriptTypeIndex")>> ELSE <<Implied("ScriptTypeIndex", -1)>>)
    \o Since(v, 13, ScriptIdHash(v, ref) \o <<Get("hash", "TypeHash")>>) \o (IF trees THEN TreeBlob(v, ref) ELSE <<>>)
minimumSerializedTypeSize(v, trees, ref) ==
  4 + PlusIf(v >= 16, 1) + PlusIf(v >= 17, 2) + PlusIf(v >= 13, 16) + PlusIf(trees, 8) + PlusIf(trees /\ v >= 21, IF ref THEN 3 ELSE 4)

AssetInfo(v, big) ==
  Since(v, 14, <<Pad(4)>>) \o <<Num(IF v >= 14 \/ big THEN "#i64" ELSE "#i32", "PathId"), IF v >= 22 THEN Size("#i64", "ByteOffset") ELSE Num("#u32", "ByteOffset"),
    Num("#u32", "ByteSize"), Num("#i32", "TypeIdOrIndex")>>
    \o Before(v, 16, <<Num("#u16", "LegacyClassID")>>) \o Before(v, 17, <<Num("#i16", "ScriptTypeIndex")>>)
    \o (IF v \in 15 .. 16 THEN <<Num("#byte", "Stripped")>> ELSE <<>>)
minimumAssetInfoSize(v, big) ==
  (IF v >= 14 \/ big THEN 8 ELSE 4) + (IF v >= 22 THEN 8 ELSE 4) + 8 + PlusIf(v < 16, 2) + PlusIf(v <= 16, 2) + PlusIf(v \in 15 .. 16, 1)

\* L(TRUE) when the flag is set, else L(FALSE).
ByFlag(flag, L(_)) == <<If(flag, Is(0), L(FALSE)), If(flag, AtLeast(1) \cup Below(0), L(TRUE))>>
AssetInfos(v, big) == <<ArrMin("#i32", "AssetInfos", minimumAssetInfoSize(v, big), AssetInfo(v, big))>>
Identifier(v) == <<Num("#i32", "LocalSerializedFileIndex")>> \o (IF v >= 14 THEN <<Pad(4), Get("i64", "LocalIdentifierInFile")>> ELSE <<Get("i32", "LocalIdentifierInFile")>>)
ExternalFile == <<Get("str", "AssetPath"), Get("guid", "Guid"), Get("i32", "Type"), Get("str", "PathName")>>
MetadataTail(v) ==
  <<ArrMin("#i32", "ScriptTypes", IF v >= 14 THEN 12 ELSE 8, Identifier(v)), ArrMin("#i32", "ExternalFiles", 22, ExternalFile)>>
    \o Since(v, 20, ByFlag("TypeTreeEnabled",
         LAMBDA trees : <<ArrMin("#i32", "RefTypes", minimumSerializedTypeSize(v, trees, TRUE), SerializedType(v, trees, TRUE))>>))
    \o <<Get("str", "UserInformation"), End>>
Metadata(v) ==
  <<Get("str", "UnityVersion"), Get("u32", "TargetPlatform"), IF v >= 13 THEN Num("#bool", "TypeTreeEnabled") ELSE Implied("TypeTreeEnabled", 1)>>
    \o ByFlag("TypeTreeEnabled", LAMBDA trees : <<ArrMin("#i32", "TypeTreeTypes", minimumSerializedTypeSize(v, trees, FALSE), SerializedType(v, trees, FALSE))>>)
    \o (IF v < 14 THEN <<Num("#i32", "BigIDEnabled")>> \o ByFlag("BigIDEnabled", LAMBDA big : AssetInfos(v, big)) ELSE AssetInfos(v, TRUE))
    \o MetadataTail(v)
MetadataOf == [v \in Versions |-> Metadata(v)]

(***************************************************************************)
(* Reading.                                                                *)
(***************************************************************************)
ZeroHash == "0"
UnreadType == [IsStrippedType |-> 0, ScriptIdHash |-> ZeroHash, TypeHash |-> ZeroHash, Nodes |-> <<>>, StringBuffer |-> <<>>, TypeDependencies |-> <<>>]
\* The tree of an entry of the table of types.
TreeOf(type) ==
  LET tree == Fields(type @@ UnreadType, {"TypeId"} \cup DOMAIN UnreadType)
  IN [tree EXCEPT !.Nodes = [i \in DOMAIN @ |-> @[i].Node], !.ScriptIdHash = IF @ = "" THEN ZeroHash ELSE @]
TypesLegal(types) == \A type \in Range(types) : validateTypeTreeStringOffsets(TreeOf(type))
\* Path ids do not repeat, and the objects' data does not overlap.
validateAssetInfos(infos, dataSize) ==
  LET Behind(info) == info.ByteOffset + info.ByteSize
  IN /\ \A info \in Range(infos) : Behind(info) <= dataSize
     /\ \A i \in DOMAIN infos : \A j \in 1 .. i - 1 :
          /\ infos[i].PathId # infos[j].PathId
          /\ \/ infos[i].ByteSize = 0 \/ infos[j].ByteSize = 0
             \/ Behind(infos[i]) <= infos[j].ByteOffset \/ Behind(infos[j]) <= infos[i].ByteOffset
Refuse(r) == [st |-> IF r.st = "ok" THEN "refused" ELSE r.st, doc |-> <<>>, p |-> 1]
ReadAssetsFile(f) ==
  LET head == Read(AssetsFileHeader, f)
      h == head.doc
      start == head.p - 1
      end == start + MetadataSize(h)
      meta == Read(MetadataOf[h.Version], SubSeq(f, start + 1, end))
      m == meta.doc
      data == SubSeq(f, DataOffset(h) + 1, Len(f))
  IN IF head.st # "ok" THEN Refuse(head)
     ELSE IF FileSize(h) # Len(f) \/ DataOffset(h) > Len(f) \/ end > DataOffset(h) THEN Refuse(head)
     ELSE IF meta.st # "ok" THEN Refuse(meta)
     ELSE IF /\ TypesLegal(m.TypeTreeTypes)
             /\ h.Version >= 20 => TypesLegal(m.RefTypes)
             /\ h.Version >= 16 => \A info \in Range(m.AssetInfos) : info.TypeIdOrIndex \in 0 .. Len(m.TypeTreeTypes) - 1
             /\ validateAssetInfos(m.AssetInfos, Len(data))
     THEN [st |-> "ok", p |-> Len(f) + 1, doc |-> [Header |-> h, Metadata |-> m, Gap |-> SubSeq(f, end + 1, DataOffset(h)), Data |-> data]]
     ELSE Refuse(head)

\* An object of the file, and its type, if it has one.
ClassOf(af, info) ==
  IF af.Header.Version >= 16 THEN af.Metadata.TypeTreeTypes[info.TypeIdOrIndex + 1].TypeId ELSE info.LegacyClassID
typeTreeForAsset(af, info) ==
  LET types == af.Metadata.TypeTreeTypes
  IN IF af.Metadata.TypeTreeEnabled = 0 THEN <<>>
     ELSE IF af.Header.Version >= 16 THEN <<types[info.TypeIdOrIndex + 1]>>
     ELSE LET hits == SelectSeq(types, LAMBDA type : type.TypeId = ClassOf(af, info)) IN IF hits = <<>> THEN <<>> ELSE <<hits[1]>>
\* Its tree, unless the tree is empty.
AssetTypeTree(af, info) ==
  LET types == typeTreeForAsset(af, info) IN IF types = <<>> THEN <<>> ELSE IF types[1].Nodes = <<>> THEN <<>> ELSE <<TreeOf(types[1])>>
GetAssetData(af, info) == SubSeq(af.Data, info.ByteOffset + 1, info.ByteOffset + info.ByteSize)
tryReadAssetName(class, data) ==
  LET name == ReadAlignedString(data, 0)
  IN IF class \in rawObjectHasLeadingName /\ name.st = "ok" THEN name.v.v ELSE <<>>
ObjectAt(af, info) ==
  LET class == ClassOf(af, info)
      data == GetAssetData(af, info)
  IN [PathID |-> info.PathId, ClassID |-> class, Data |-> data, Name |-> tryReadAssetName(class, data), Trees |-> AssetTypeTree(af, info)]
GetAssetEntries(af) == [i \in DOMAIN af.Metadata.AssetInfos |-> ObjectAt(af, af.Metadata.AssetInfos[i])]


(***************************************************************************)
(* Building.  Each call that adds an object is one of                      *)
(*   [Kind |-> "text", Name, LoadName, Data, PathID],                      *)
(*   [Kind |-> "texture", Name, LoadName, Width, Height, Data, PathID],    *)
(*   [Kind |-> "raw", ClassID, Name, LoadName, Data, PathID],              *)
(*   [Kind |-> "native", ClassID, Tree, BigEndian, ... as raw],            *)
(*   [Kind |-> "source", ClassID, Tree, Size, ... as raw], whose data is   *)
(* asked for when the file is written.                                     *)
(***************************************************************************)
BuiltInTree(class, tree) ==
  tree @@ [TypeId |-> class, IsStrippedType |-> 0, ScriptIdHash |-> ZeroHash, TypeHash |-> "unity" \o ToString(class), TypeDependencies |-> <<>>]
TextAssetTree   == BuiltInTree(ClassIDTextAsset, unity2022TextAssetTypeTree)
Texture2DTree   == BuiltInTree(ClassIDTexture2D, unity2022Texture2DTypeTree)
ContainerTree   == BuiltInTree(ClassIDAssetBundle, unity2022AssetBundleTypeTree)
Upgraded(tree) ==
  LET bare == Fields(tree, {"Nodes", "StringBuffer"})
  IN IF tree.TypeId = ClassIDTexture2D /\ upgradeZeroHashNativeTypeTree(bare, tree.TypeHash) # bare THEN Texture2DTree ELSE tree
SchemaLegal(class, tree) == tree.TypeId = class /\ validateNativeUnityObjectSchema([ClassID |-> class] @@ tree)

\* The script of a behaviour in this file, by the 28 bytes all of them begin
\* with, or 0.
scriptPathId(class, prefix) ==
  IF class # ClassIDMonoBehaviour \/ Len(prefix) < 28 THEN 0
  ELSE IF prefix[17] = Tok(WordKind(4), 0) /\ prefix[21].k = WordKind(8) THEN prefix[21].v ELSE 0
\* An object to write, without its path id.
SerializedObject(o, class, trees, data, size) ==
  [ClassID |-> class, ScriptPathID |-> scriptPathId(class, data), Name |-> o.Name, LoadName |-> nonEmptyLoadName(o.LoadName, o.Name),
   Trees |-> trees, Data |-> data, Size |-> size]
Added(o) ==
  LET text == encodeTextAssetData(o.Name, o.Data)
      texture == encodeTexture2DData(o.Name, o.Width, o.Height, FlipRGBA32Rows(o.Width, o.Height, o.Data))
  IN CASE o.Kind = "text"    -> SerializedObject(o, ClassIDTextAsset, <<TextAssetTree>>, text, Len(text))
       [] o.Kind = "texture" -> SerializedObject(o, ClassIDTexture2D, <<Texture2DTree>>, texture, Len(texture))
       [] o.Kind = "raw"     -> SerializedObject(o, o.ClassID, <<>>, o.Data, Len(o.Data))
       [] o.Kind = "native"  -> SerializedObject(o, o.ClassID, <<Upgraded(o.Tree)>>, o.Data, Len(o.Data))
       [] o.Kind = "source"  -> SerializedObject(o, o.ClassID, <<Upgraded(o.Tree)>>, o.Data, o.Size)
MayAdd(o) ==
  CASE o.Kind = "texture" -> o.Width > 0 /\ o.Height > 0 /\ Len(o.Data) = 4 * o.Width * o.Height
    [] o.Kind = "native"  -> SchemaLegal(o.ClassID, o.Tree) /\ ~o.BigEndian
    [] o.Kind = "source"  -> SchemaLegal(o.ClassID, o.Tree)
    [] OTHER -> TRUE

\* Path ids: the one asked for, if it is free, else the next one.
containerPathID == 1
LastPathID == 100  \* math.MaxInt64
reserveOrAllocatePathID(s, id) ==
  LET taken == id = 0 \/ id \in s.used
      free  == CHOOSE n \in s.next .. s.next + Cardinality(s.used) : n \notin s.used /\ \A m \in s.next .. n - 1 : m \in s.used
      got   == IF taken THEN free ELSE id
  IN [id |-> got, used |-> s.used \cup {got}, next |-> IF taken \/ (id >= s.next /\ id < LastPathID) THEN got + 1 ELSE s.next]
\* The objects of so many calls, in their order.
AddedObjects(calls) ==
  LET Add(s, o) ==
        LET path == reserveOrAllocatePathID(s.paths, o.PathID) IN [paths |-> path, objects |-> Append(s.objects, Added(o) @@ [PathID |-> path.id])]
  IN FoldLeft(Add, [paths |-> [id |-> 0, used |-> {containerPathID}, next |-> 1], objects |-> <<>>], calls).objects

\* The table of types: behaviours have one for each of their scripts.
SharesType(type, o) ==
  /\ type.ClassID = o.ClassID /\ type.Trees = o.Trees
  /\ o.ClassID = ClassIDMonoBehaviour => type.ScriptPathID = o.ScriptPathID
serializedTypeIndex(types, o) == IF \E t \in Range(types) : SharesType(t, o) THEN (CHOOSE i \in DOMAIN types : SharesType(types[i], o)) - 1 ELSE -1
Scripted(o) == o.ClassID = ClassIDMonoBehaviour /\ o.ScriptPathID # 0
ScriptsKnown(objects) ==
  \A o \in Range(objects) : Scripted(o) => \E script \in Range(objects) : script.PathID = o.ScriptPathID /\ script.ClassID = ClassIDMonoScript
collectSerializedTypes(objects) ==
  LET Collect(s, o) ==
        LET known   == ~Scripted(o) \/ o.ScriptPathID \in Range(s.scripts)
            scripts == IF known THEN s.scripts ELSE Append(s.scripts, o.ScriptPathID)
            index   == IF Scripted(o) THEN (CHOOSE i \in DOMAIN scripts : scripts[i] = o.ScriptPathID) - 1 ELSE -1
        IN IF serializedTypeIndex(s.types, o) >= 0 THEN s
           ELSE [scripts |-> scripts,
                 types |-> Append(s.types, [ClassID |-> o.ClassID, ScriptPathID |-> o.ScriptPathID, Trees |-> o.Trees, ScriptTypeIndex |-> index])]
  IN FoldLeft(Collect, [types |-> <<>>, scripts |-> <<>>], objects)

AlignOffset(n, to) == n + ((to - (n % to)) % to)
\* The offset of the i-th object, or the size of all data for the one behind the last.
layoutDataSection(objects) ==
  LET offset[i \in 1 .. Len(objects) + 1] == IF i = 1 THEN 0 ELSE AlignOffset(offset[i - 1] + objects[i - 1].Size, 8) IN offset
writeDataSection(objects, offset) ==
  FoldLeft(LAMBDA out, i : out \o objects[i].Data \o [j \in 1 .. offset[i + 1] - offset[i] - Len(objects[i].Data) |-> Tok("pad", 0)],
           <<>>, [i \in DOMAIN objects |-> i])
TypeEntry(type) ==
  [type.Trees[1] EXCEPT !.TypeId = type.ClassID, !.Nodes = [i \in DOMAIN @ |-> [Node |-> @[i]]]] @@ [ScriptTypeIndex |-> type.ScriptTypeIndex]
AssetEntry(types, o, offset) == [PathId |-> o.PathID, ByteOffset |-> offset, ByteSize |-> o.Size, TypeIdOrIndex |-> serializedTypeIndex(types, o)]
buildMetadata(d, objects, offset) ==
  LET table == collectSerializedTypes(objects)
  IN Padded(Write(MetadataOf[sfVersion],
       [UnityVersion |-> IF d.UnityVersion = "" THEN "2022.3.35f1" ELSE d.UnityVersion, TargetPlatform |-> d.TargetPlatform, TypeTreeEnabled |-> 1,
        TypeTreeTypes |-> [i \in DOMAIN table.types |-> TypeEntry(table.types[i])],
        AssetInfos |-> [i \in DOMAIN objects |-> AssetEntry(table.types, objects[i], offset[i])],
        ScriptTypes |-> [i \in DOMAIN table.scripts |-> [LocalSerializedFileIndex |-> 0, LocalIdentifierInFile |-> table.scripts[i]]],
        ExternalFiles |-> d.ExternalFiles, RefTypes |-> <<>>, UserInformation |-> ""]))
BuiltHeader(metadata, offset, size) ==
  Write(AssetsFileHeader,
    [LegacyMetadataSize |-> 0, LegacyFileSize |-> 0, Version |-> sfVersion, LegacyDataOffset |-> 0, Endianness |-> 0, Reserved |-> "zeroes",
     MetadataSize |-> metadata, FileSize |-> size, DataOffset |-> offset, LargeFilesUnknown |-> "0"])
BundleName == <<3>>
ContainerObject(objects) ==
  LET data == encodeAssetBundleObject(objects, BundleName)
  IN [SerializedObject([Name |-> <<1>>, LoadName |-> <<>>], ClassIDAssetBundle, <<ContainerTree>>, data, Len(data)) EXCEPT !.ScriptPathID = 0]
       @@ [PathID |-> containerPathID]
WriteSerializedFile(d) ==
  LET objects  == AddedObjects(d.Objects)
      all      == SortSeq(Append(objects, ContainerObject(objects)), LAMBDA a, b : a.PathID < b.PathID)
      offset   == layoutDataSection(all)
      metadata == buildMetadata(d, all, offset)
      headed   == Len(BuiltHeader(0, 0, 0)) + Len(metadata)
      begin    == AlignOffset(headed, 16)
  IN IF /\ \A i \in DOMAIN d.Objects : MayAdd(d.Objects[i])
        /\ d.UnityVersion \in {""} \cup UnityVersions2022
        /\ \A o \in Range(objects) : o.Trees # <<>> /\ Len(o.Data) = o.Size
        /\ ScriptsKnown(all)
     THEN BuiltHeader(Len(metadata), begin, begin + offset[Len(all) + 1]) \o metadata \o [i \in 1 .. begin - headed |-> Tok("pad", 0)]
            \o writeDataSection(all, offset)
     ELSE Refused
=============================================================================
