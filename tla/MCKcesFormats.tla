---------------------------- MODULE MCKcesFormats ----------------------------
(* The codecs of KCES, each with the numbers its control depends on.     *)
EXTENDS KcesSaves, UnityBundle, SerializedFile

(***************************************************************************)
(* Small type trees, objects and files of Unity.                          *)
(***************************************************************************)
MCCommonNames ==
  <<"Array", "Base", "bool", "data", "first", "float", "int", "pair", "second", "size", "char", "string", "UInt8", "vector", "map", "m_Name", "TypelessData">>
MCCommonStrings == [i \in 0 .. Len(MCCommonNames) - 1 |-> MCCommonNames[i + 1]]

Base(rows) == <<<<0, "Sample", "Base", 0, 0>>>> \o rows
PlainRows == Base(<<<<1, "string", "m_Name", 0, 1>>, <<2, "Array", "Array", 1, 1>>, <<3, "int", "size", 0, 0>>, <<3, "char", "data", 0, 0>>,
                    <<1, "bool", "on", 0, 0>>, <<1, "UInt8", "few", 0, 1>>, <<1, "SInt16", "some", 0, 0>>>>)
ListRows  == Base(<<<<1, "vector", "list", 0, 0>>, <<2, "Array", "Array", 1, 1>>, <<3, "int", "size", 0, 0>>, <<3, "UInt16", "data", 0, 0>>, <<1, "UInt8", "last", 0, 0>>>>)
BytesRows == Base(<<<<1, "vector", "bytes", 0, 1>>, <<2, "Array", "Array", 1, 0>>, <<3, "int", "size", 0, 0>>, <<3, "UInt8", "data", 0, 0>>, <<1, "unsigned int", "last", 0, 0>>>>)
MapRows   == Base(<<<<1, "map", "m", 0, 0>>, <<2, "Array", "Array", 1, 0>>, <<3, "int", "size", 0, 0>>,
                    <<3, "pair", "data", 0, 0>>, <<4, "string", "first", 0, 0>>, <<4, "char", "second", 0, 1>>>>)
OldRows   == Base(<<<<1, "values", "list", 1, 0>>, <<2, "int", "size", 0, 0>>, <<2, "float", "data", 0, 0>>,
                    <<1, "TypelessData", "blob", 0, 1>>, <<2, "int", "size", 0, 0>>, <<2, "UInt8", "data", 0, 0>>, <<1, "FileSize", "offset", 0, 0>>>>)
BadRows ==
  {<<>>, Base(<<<<1, "vector", "list", 0, 0>>, <<2, "Array", "Array", 1, 0>>, <<3, "int", "size", 0, 0>>>>), Base(<<<<1, "odd", "x", 0, 0>>>>),
   Base(<<<<1, "vector", "list", 0, 0>>, <<2, "Array", "Array", 1, 0>>>>), <<<<0, "int", "Base", 0, 0>>, <<0, "int", "Base", 0, 0>>>>}

Number(type, name, n) == TreeValue(type, name, Holding("int", <<n>>), <<>>)
Scalar(type, name, is, v) == TreeValue(type, name, Holding(is, v), <<>>)
Struct(type, name, children) == TreeValue(type, name, NoValue, children)
Sample(children) == Struct("Sample", "Base", children)
PlainValue(text, on, few, some) == Sample(<<Scalar("string", "m_Name", "text", text), Scalar("bool", "on", "bool", <<on>>), Number("UInt8", "few", few), Number("SInt16", "some", some)>>)
ListValue(numbers, last) == Sample(<<Struct("vector", "list", [i \in DOMAIN numbers |-> Number("UInt16", "data", numbers[i])]), Number("UInt8", "last", last)>>)
BytesValue(v, last) == Sample(<<IF v = <<>> THEN Struct("vector", "bytes", <<>>) ELSE Scalar("vector", "bytes", "bytes", v), Number("unsigned int", "last", last)>>)
MapValue(keys) == Sample(<<Struct("map", "m", <<Struct("Array", "Array", [i \in DOMAIN keys |-> Struct("pair", "data", <<Scalar("string", "first", "text", keys[i]), Number("char", "second", i - 2)>>)])>>)>>)
OldValue(floats, blob, offset) ==
  Sample(<<Struct("values", "list", [i \in DOMAIN floats |-> Scalar("float", "data", "float", <<floats[i]>>)]), Scalar("TypelessData", "blob", "bytes", blob), Number("FileSize", "offset", offset)>>)
Without(value) == [value EXCEPT !.Children = Tail(@)]
Retyped(value) == [value EXCEPT !.Children[1].TypeName = "other"]

NativeDoc(rows, class, flags, dependencies, value) ==
  TreeFrom(rows) @@ [ClassID |-> class, Flags |-> flags, TypeDependencies |-> dependencies, ScriptIdHash |-> "s", TypeHash |-> "t", Value |-> value]
NativeDocs ==
  {NativeDoc(PlainRows, 114, 0, <<>>, PlainValue(text, 1, 3, some)) : text \in {<<>>, <<1, 2, 3>>}, some \in {-8, 7, 8}}
    \cup {NativeDoc(PlainRows, 114, 3, <<[D |-> "d"]>>, PlainValue(<<1, 2, 3, 0>>, 0, few, 0)) : few \in {-1, 0, 4}}
    \cup {NativeDoc(ListRows, class, 1, <<>>, ListValue(numbers, 0)) : class \in {0, 1}, numbers \in {<<>>, <<15>>, <<1, 2, 3>>}}
    \cup {NativeDoc(BytesRows, 1, 0, <<>>, BytesValue(v, last)) : v \in {<<>>, <<1>>, <<3, 2, 1, 0>>}, last \in {255, -1}}
    \cup {NativeDoc(MapRows, 1, 0, <<>>, MapValue(keys)) : keys \in {<<>>, <<<<1>>, <<2, 3>>>>}}
    \cup {NativeDoc(OldRows, 1, 0, <<>>, OldValue(<<>>, <<>>, 0)), NativeDoc(OldRows, 1, 2, <<>>, OldValue(<<5, 6>>, <<1, 2, 3>>, 70))}
    \cup {NativeDoc(rows, 1, 0, <<>>, Sample(<<>>)) : rows \in BadRows}
    \cup {NativeDoc(ListRows, 1, 0, <<>>, v) : v \in {Without(ListValue(<<1>>, 0)), Retyped(ListValue(<<1>>, 0))}}

(***************************************************************************)
(* Objects encoded by hand, read by hand and by their tree.                *)
(***************************************************************************)
Met(r, doc) == [st |-> r.st, p |-> r.p + 1, doc |-> doc]
Failed(r) == [st |-> r.st, p |-> 1, doc |-> <<>>]
\* The first reader that fails, or what both found.
Both(a, b, Doc(_, _)) == IF a.st # "ok" THEN Failed(a) ELSE IF b.st # "ok" THEN Failed(b) ELSE Met(b, Doc(a.v, b.v))

TextAssetDocs == [Name : {<<>>, <<1>>, <<1, 2, 3, 1>>}, Script : {<<>>, <<1, 2, 3>>, <<0, 1, 2, 3, 0>>}]
WriteTextAsset(d) == encodeTextAssetData(d.Name, d.Script)
ReadTextAsset(f) ==
  Both(GetTextAssetData(f), ReadAssetValue(unity2022TextAssetTypeTree, f),
       LAMBDA text, value : text @@ [ByTree |-> [Name |-> TextOf(value, "m_Name"), Script |-> TextOf(value, "m_Script")]])
SettledTextAsset(d) == LET plain == Fields(d, {"Name", "Script"}) IN plain @@ [ByTree |-> plain]

TextureDocs ==
  {[Name |-> name, Width |-> size[1], Height |-> size[2], ImageData |-> [i \in 1 .. size[3] |-> i % 4]] :
     name \in {<<>>, <<1, 2>>}, size \in {<<1, 1, 4>>, <<2, 1, 8>>, <<1, 2, 8>>, <<0, 1, 0>>, <<1, 1, 5>>}}
WriteTexture(d) == encodeTexture2DData(d.Name, d.Width, d.Height, FlipRGBA32Rows(d.Width, d.Height, d.ImageData))
\* An object with the legacy tree keeps its data when it gets the official one.
ReadTexture(f) ==
  LET upgraded == upgradeZeroHashNativeTypeTree(legacyTexture2DTreeSignature, "0")
  IN Both(GetTexture2DData(legacyTexture2DTreeSignature, f), GetTexture2DData(upgraded, f), LAMBDA old, new : Shown(new) @@ [Legacy |-> Shown(old)])
SettledTexture(d) ==
  LET shown == Fields(d, {"Name", "Width", "Height", "ImageData"})
                 @@ [TextureFormat |-> TextureFormatRGBA32, MipCount |-> 1, StreamData |-> [Offset |-> 0, Size |-> 0, Path |-> <<>>]]
  IN shown @@ [Legacy |-> shown]

Asset(name, load, id) == [Name |-> name, LoadName |-> load, PathID |-> id]
NameDocs ==
  [Objects : {<<>>, <<Asset(<<1>>, <<>>, 2)>>, <<Asset(<<1>>, <<2, 1>>, 2), Asset(<<>>, <<>>, 9)>>, <<Asset(<<1>>, <<1>>, 2), Asset(<<2>>, <<2>>, 2)>>},
   BundleName : {<<3>>}]
OldAssetBundleTree == AssetBundleTree(4)
WriteNames(d) == encodeAssetBundleObject(d.Objects, d.BundleName)
WriteOldNames(d) == Encoder(ContainerPieces(d.Objects, d.BundleName, "i32"))
ReadNames(f, version, tree) ==
  Both(GetAssetBundleContainerEntries(f, version), ReadAssetValue(tree, f),
       LAMBDA entries, value :
         [Objects |-> [i \in DOMAIN entries |-> Asset(<<>>, entries[i].Name, entries[i].PathID)], BundleName |-> TextOf(value, "m_AssetBundleName"),
          Entries |-> entries, Names |-> GetAssetBundleContainerMap(entries), Compatible |-> NumberOf(value, "m_RuntimeCompatibility"), Paths |-> NumberOf(value, "m_PathFlags")])
SettledNames(d) ==
  LET LoadName(i) == IF d.Objects[i].LoadName = <<>> THEN d.Objects[i].Name ELSE d.Objects[i].LoadName
      ids == {o.PathID : o \in Range(d.Objects)}
      LastOf(id) == Max({i \in DOMAIN d.Objects : d.Objects[i].PathID = id})
  IN [Objects |-> [i \in DOMAIN d.Objects |-> Asset(<<>>, LoadName(i), d.Objects[i].PathID)], BundleName |-> d.BundleName,
      Entries |-> [i \in DOMAIN d.Objects |->
        [Name |-> LoadName(i), PreloadIndex |-> i - 1, PreloadSize |-> 1, FileID |-> 0, PathID |-> d.Objects[i].PathID]],
      Names |-> [id \in ids |-> LoadName(LastOf(id))], Compatible |-> 1, Paths |-> 7]

(***************************************************************************)
(* References that follow their objects.                                   *)
(***************************************************************************)
ReferencesTree == TreeFrom(Base(ArrayRows(1, "vector", "list", 1, PointerRows(3, "data", 8))))
Reference(file, path) == [FileID |-> file, PathID |-> path]
PointerValue(r) == Struct("PPtr<Object>", "data", <<Number("int", "m_FileID", r.FileID), Number("SInt64", "m_PathID", r.PathID)>>)
ReferencesValue(list) == Sample(<<Struct("vector", "list", [i \in DOMAIN list |-> PointerValue(list[i])])>>)
ReferencesIn(value) ==
  LET list == value.Children[1].Children IN [i \in DOMAIN list |-> Reference(NumberOf(list[i], "m_FileID"), NumberOf(list[i], "m_PathID"))]
Moves == (Reference(0, 1) :> Reference(0, 7)) @@ (Reference(0, 2) :> Reference(1, 9)) @@ (Reference(2, 2) :> Reference(0, 0))
Back == (Reference(0, 7) :> Reference(0, 1)) @@ (Reference(1, 9) :> Reference(0, 2))
ReferenceDocs ==
  {[List |-> list] : list \in {<<>>, <<Reference(0, 1)>>, <<Reference(0, 2), Reference(0, 0), Reference(1, 1)>>, <<Reference(3, 0)>>, <<Reference(2, 2)>>}}
WriteReferences(d) ==
  LET moved == RewritePPtrReferences(ReferencesValue(d.List), Moves) IN IF moved.ok THEN EncodeAssetValue(ReferencesTree, moved.v) ELSE Refused
ReadReferences(f) ==
  LET r == ReadAssetValue(ReferencesTree, f) IN IF r.st # "ok" THEN Failed(r) ELSE Met(r, [List |-> ReferencesIn(RewritePPtrReferences(r.v, Back).v)])
SettledReferences(d) == [List |-> [i \in DOMAIN d.List |-> IF d.List[i].PathID = 0 THEN Reference(0, 0) ELSE d.List[i]]]

(***************************************************************************)
(* Objects whose payload is in a resource file.                            *)
(***************************************************************************)
StreamRows(level) == <<<<level, "FileSize", "offset", 0, 0>>, <<level, "unsigned int", "size", 0, 0>>, <<level, "string", "path", 0, 1>>>>
StreamTree ==
  [inline_texture |-> TreeFrom(Base(<<<<1, "int", "m_CompleteImageSize", 0, 0>>, <<1, "TypelessData", "image data", 1, 1>>, <<1, "StreamingInfo", "m_StreamData", 0, 0>>>> \o StreamRows(2))),
   inline_mesh |-> TreeFrom(Base(<<<<1, "VertexData", "m_VertexData", 0, 0>>, <<2, "TypelessData", "m_DataSize", 1, 1>>, <<1, "StreamingInfo", "m_StreamData", 0, 0>>>> \o StreamRows(2))),
   inline_audio |-> TreeFrom(Base(<<<<1, "StreamedResource", "m_Resource", 0, 0>>, <<2, "string", "m_Source", 0, 1>>, <<2, "UInt64", "m_Offset", 0, 0>>, <<2, "UInt64", "m_Size", 0, 0>>>>))]
Stream(info) == Struct("StreamingInfo", "m_StreamData", <<Number("FileSize", "offset", info.Offset), Number("unsigned int", "size", info.Size), Scalar("string", "path", "text", info.Path)>>)
StreamValue(f, inside, info) ==
  CASE f = "inline_texture" -> Sample(<<Number("int", "m_CompleteImageSize", Len(inside)), Scalar("TypelessData", "image data", "bytes", inside), Stream(info)>>)
    [] f = "inline_mesh" -> Sample(<<Struct("VertexData", "m_VertexData", <<Scalar("TypelessData", "m_DataSize", "bytes", inside)>>), Stream(info)>>)
    [] f = "inline_audio" -> Sample(<<Struct("StreamedResource", "m_Resource",
         <<Scalar("string", "m_Source", "text", info.Path), Number("UInt64", "m_Offset", info.Offset), Number("UInt64", "m_Size", info.Size)>>)>>)
Resource(offset, size, path) == [Offset |-> offset, Size |-> size, Path |-> path]
ResourceFiles == (<<1>> :> <<1, 2, 3, 0, 1>>)
\* (A clip has its sound behind it, everything else inside.)
StreamDocs(f) ==
  [Inside : {<<>>, <<2, 1>>, <<1, 0, 0>>},
   Info : {Resource(0, 0, <<>>), Resource(0, 2, <<>>), Resource(1, 3, <<1>>), Resource(2, 2, <<3, 0, 2, 0, 1>>), Resource(4, 2, <<1>>), Resource(1, 2, <<2>>), Resource(1, 0, <<1>>), Resource(0, 1, <<3, 0>>)}]
InlineStreamData(f, data, files) ==
  CASE f = "inline_texture" -> InlineTextureStreamData(StreamTree[f], data, files)
    [] f = "inline_mesh" -> InlineMeshStreamData(StreamTree[f], data, files) [] f = "inline_audio" -> InlineAudioClipStreamData(StreamTree[f], data, files)
IsClip(f) == f = "inline_audio"
WriteStreamed(f, d) ==
  IF "Value" \in DOMAIN d THEN EncodeValueWithTrailingData(IsClip(f), StreamTree[f], d.Value, d.Trailing)
  ELSE LET data == EncodeAssetValue(StreamTree[f], StreamValue(f, IF IsClip(f) THEN <<>> ELSE d.Inside, d.Info))
       IN InlineStreamData(f, IF IsClip(f) THEN data \o ToBytes(d.Inside) ELSE data, ResourceFiles)
ReadStreamed(f, bytes) ==
  LET r == DecodeValueAndTrailingData(IsClip(f), StreamTree[f], bytes) IN IF r.st # "ok" THEN Failed(r) ELSE Met(r, r.v)
SettledStreamed(f, d) ==
  LET bytes == IF d.Info.Size = 0 \/ d.Info.Path = <<>> THEN d.Inside ELSE [i \in 1 .. d.Info.Size |-> ResourceFiles[<<1>>][d.Info.Offset + i]]
      size == IF ~IsClip(f) THEN 0 ELSE IF d.Info.Path = <<>> THEN d.Info.Size ELSE Len(bytes)
  IN IF "Value" \in DOMAIN d THEN d
     ELSE [Value |-> StreamValue(f, IF IsClip(f) THEN <<>> ELSE bytes, Resource(0, size, <<>>)),
           Trailing |-> IF IsClip(f) THEN ToBytes(bytes) ELSE <<>>, AudioData |-> IF IsClip(f) THEN ToBytes(SubSeq(bytes, 1, size)) ELSE <<>>]

(***************************************************************************)
(* Serialized files: what the packer's calls make, unpacked into calls.    *)
(***************************************************************************)
ContainersOf(af) ==
  LET bundles == SelectSeq(GetAssetEntries(af), LAMBDA o : o.ClassID = ClassIDAssetBundle)
  IN [i \in DOMAIN bundles |-> GetAssetBundleContainerEntries(bundles[i].Data, af.Header.Version)]
\* The script of a behaviour by the table of types: what the game goes by.
ScriptByType(af, info) ==
  LET type == af.Metadata.TypeTreeTypes[info.TypeIdOrIndex + 1]
      scripts == af.Metadata.ScriptTypes
  IN IF type.ScriptTypeIndex + 1 \in DOMAIN scripts THEN scripts[type.ScriptTypeIndex + 1].LocalIdentifierInFile ELSE 0
Unpacked(af) ==
  LET containers == ContainersOf(af)
      names == GetAssetBundleContainerMap(FlattenSeq([i \in DOMAIN containers |-> containers[i].v]))
      others == SelectSeq(GetAssetEntries(af), LAMBDA o : o.ClassID # ClassIDAssetBundle)
      Call(o) ==
        [Kind |-> "native", ClassID |-> o.ClassID, Tree |-> o.Trees[1], BigEndian |-> af.Header.Endianness = 1,
         Name |-> o.Name, LoadName |-> IF o.PathID \in DOMAIN names THEN names[o.PathID] ELSE <<>>, Data |-> o.Data, PathID |-> o.PathID,
         Script |-> ScriptByType(af, (CHOOSE info \in Range(af.Metadata.AssetInfos) : info.PathId = o.PathID))]
  IN IF (\E i \in DOMAIN containers : containers[i].st # "ok") \/ (\E o \in Range(others) : o.Trees = <<>>) THEN <<>>
     ELSE <<Fields(af.Metadata, {"UnityVersion", "TargetPlatform", "ExternalFiles"}) @@ [Objects |-> [i \in DOMAIN others |-> Call(others[i])]]>>
ReadUnpacked(f) ==
  LET r == ReadAssetsFile(f) IN IF r.st # "ok" THEN r ELSE IF Unpacked(r.doc) = <<>> THEN Refuse(r) ELSE [r EXCEPT !.doc = Unpacked(@)[1]]

Called(kind, name, load, id) == [Kind |-> kind, Name |-> name, LoadName |-> load, PathID |-> id]
TextCall(name, id) == Called("text", name, <<>>, id) @@ [Data |-> <<1, 2>>]
IntTree == TreeFrom(Base(<<<<1, "int", "n", 0, 0>>>>))
TypedTree(tree, class, hash) ==
  tree @@ [TypeId |-> class, IsStrippedType |-> 0, ScriptIdHash |-> "s", TypeHash |-> hash, TypeDependencies |-> <<[D |-> "d"]>>]
NativeCall(class, data, id) ==
  Called("native", <<2>>, <<2, 1>>, id) @@ [ClassID |-> class, Tree |-> TypedTree(IntTree, class, "t"), BigEndian |-> FALSE, Data |-> data]
IntData(n) == WriteWord(n, 4)
ScriptOf(id) == Encoder(<< <<"i32", 0>>, <<"i64", 0>>, <<"byte", 1>>, <<"align", 0>>, <<"i32", 0>>, <<"i64", id>> >>)
Behaviour(script, id) == NativeCall(ClassIDMonoBehaviour, ScriptOf(script), id)
SourceCall(size, id) == Fields(NativeCall(4, IntData(7), id), DOMAIN NativeCall(4, <<>>, 0) \ {"BigEndian"}) @@ [Size |-> size]
Sourced(size, id) == [SourceCall(size, id) EXCEPT !.Kind = "source"]
LegacyTexture ==
  [NativeCall(ClassIDTexture2D, encodeTexture2DData(<<1>>, 1, 1, <<1, 2, 3, 0>>), 8) EXCEPT !.Tree = TypedTree(legacyTexture2DTreeSignature, ClassIDTexture2D, "0")]
CallLists ==
  {<<>>, <<TextCall(<<1>>, 3), TextCall(<<>>, 0), TextCall(<<1>>, 3), TextCall(<<2>>, 1), TextCall(<<1>>, -2)>>,
   <<NativeCall(4, IntData(1), LastPathID), Sourced(4, 0), Sourced(4, 0)>>, <<Sourced(5, 0)>>,
   <<Behaviour(5, 0), NativeCall(ClassIDMonoScript, WriteCounted(<<1, 2, 3, 0>>), 5), NativeCall(ClassIDMonoScript, WriteCounted(<<1, 2, 3, 0, 1>>), 6), Behaviour(6, 0), Behaviour(5, 9), Behaviour(0, 10)>>,
   <<Behaviour(5, 0), NativeCall(4, IntData(1), 5)>>,
   <<Called("texture", <<1>>, <<>>, 0) @@ [Width |-> 1, Height |-> 1, Data |-> <<1, 2, 3, 0>>], LegacyTexture>>,
   <<Called("texture", <<1>>, <<>>, 0) @@ [Width |-> 1, Height |-> 1, Data |-> <<1, 2, 3>>]>>,
   <<Called("raw", <<1>>, <<>>, 0) @@ [ClassID |-> 4, Data |-> IntData(3)]>>,
   <<[NativeCall(4, IntData(1), 2) EXCEPT !.BigEndian = TRUE]>>, <<[NativeCall(4, IntData(1), 2) EXCEPT !.ClassID = 5]>>}
SerializedDocs ==
  {[UnityVersion |-> "", TargetPlatform |-> "5", ExternalFiles |-> <<>>, Objects |-> list] : list \in CallLists}
    \cup {[UnityVersion |-> version, TargetPlatform |-> "5", ExternalFiles |-> <<[AssetPath |-> "", Guid |-> "g", Type |-> "2", PathName |-> "p"]>>,
           Objects |-> <<NativeCall(4, IntData(1), 2)>>] : version \in {"2022.3.35f1", "2021.3"}}

\* An object keeps the path id asked for unless the container or an object
\* before it has it; else it gets one above all those so far.
IdsGiven(calls) ==
  LET given[i \in DOMAIN calls] ==
        LET former == {containerPathID} \cup {given[j] : j \in 1 .. i - 1}
        IN IF calls[i].PathID \in former \cup {0} THEN 1 + Max({id \in former : id < LastPathID}) ELSE calls[i].PathID
  IN given
Placed(call, id) ==
  LET class == CASE call.Kind = "text" -> ClassIDTextAsset [] call.Kind = "texture" -> ClassIDTexture2D [] OTHER -> call.ClassID
      data == CASE call.Kind = "text" -> encodeTextAssetData(call.Name, call.Data)
                [] call.Kind = "texture" -> encodeTexture2DData(call.Name, call.Width, call.Height, call.Data) [] OTHER -> call.Data
      tree == CASE call.Kind = "text" -> TextAssetTree [] call.Kind = "texture" -> Texture2DTree [] call = LegacyTexture -> Texture2DTree [] OTHER -> call.Tree
  IN [Kind |-> "native", ClassID |-> class, Tree |-> IF class = ClassIDMonoBehaviour THEN tree ELSE [tree EXCEPT !.ScriptIdHash = ZeroHash], BigEndian |-> FALSE,
      Name |-> tryReadAssetName(class, data), LoadName |-> IF call.LoadName = <<>> THEN call.Name ELSE call.LoadName, Data |-> data, PathID |-> id,
      Script |-> scriptPathId(class, data)]
SettledSerialized(d) ==
  LET ids == IdsGiven(d.Objects)
  IN [d EXCEPT !.UnityVersion = IF @ = "" THEN "2022.3.35f1" ELSE @,
               !.Objects = SortSeq([i \in DOMAIN @ |-> Placed(@[i], ids[i])], LAMBDA a, b : a.PathID < b.PathID)]
\* Altered so that the order of the bytes, a class or a behaviour's script is not one to pack.
Unpackable(d) ==
  LET ids == IdsGiven(d.Objects)
  IN \E o \in Range(d.Objects) :
       \/ o.BigEndian \/ o.ClassID = 0
       \/ scriptPathId(o.ClassID, o.Data) # 0 /\ \A i \in DOMAIN ids : ids[i] # scriptPathId(o.ClassID, o.Data) \/ d.Objects[i].ClassID # ClassIDMonoScript

(***************************************************************************)
(* Serialized files of the versions the game has had, as Unity writes them.*)
(***************************************************************************)
Over(base, new) == [n \in DOMAIN base |-> IF n \in DOMAIN new THEN new[n] ELSE base[n]]
Places(o) == o.ByteOffset + 1 .. o.ByteOffset + o.ByteSize
UnityLegal(d) ==
  LET infos == d.Metadata.AssetInfos
  IN \A i \in DOMAIN infos :
       /\ Places(infos[i]) \subseteq DOMAIN d.Data
       /\ \A j \in DOMAIN infos \ {i} : infos[i].PathId # infos[j].PathId /\ Places(infos[i]) \cap Places(infos[j]) = {}
       /\ d.Header.Version >= 16 => infos[i].TypeIdOrIndex + 1 \in DOMAIN d.Metadata.TypeTreeTypes
WriteUnityFile(d) ==
  IF UnityLegal(d) THEN Write(AssetsFileHeader, d.Header) \o Padded(Write(MetadataOf[d.Header.Version], d.Metadata)) \o d.Gap \o d.Data ELSE Refused
ReadUnityFile(f) == LET r == ReadAssetsFile(f) IN IF r.st = "ok" THEN [r EXCEPT !.doc = @ @@ [Objects |-> GetAssetEntries(@)]] ELSE r

ClassIds(v) == <<ClassIDTextAsset, IF v < 16 THEN -1 ELSE ClassIDMonoBehaviour>>
UnityType(v, trees, ref, class, hash) ==
  Over(Blank(SerializedType(v, trees, ref)),
    [TypeId |-> class, IsStrippedType |-> 1, ScriptTypeIndex |-> IF v >= 17 /\ hash # "" THEN 0 ELSE -1, ScriptIdHash |-> hash, TypeHash |-> "t",
     Nodes |-> [i \in DOMAIN IntTree.Nodes |-> [Node |-> IntTree.Nodes[i]]], StringBuffer |-> IntTree.StringBuffer,
     TypeDependencies |-> <<[D |-> "d"]>>, ClassName |-> "c", Namespace |-> "n", AssemblyName |-> "a"])
UnityData == WriteCounted(<<1>>) \o ToBytes(<<0, 0, 0, 2, 3>>)
UnityObjects(v, big) ==
  <<[PathId |-> 7, ByteOffset |-> 0, ByteSize |-> 8, TypeIdOrIndex |-> IF v < 16 THEN ClassIDTextAsset ELSE 0, LegacyClassID |-> ClassIDTextAsset,
     ScriptTypeIndex |-> -1, Stripped |-> 0],
    [PathId |-> IF v % 2 = 0 THEN 8 ELSE -5, ByteOffset |-> 8, ByteSize |-> 2, TypeIdOrIndex |-> IF v < 16 THEN -1 ELSE 1, LegacyClassID |-> ClassIDMonoBehaviour,
     ScriptTypeIndex |-> 0, Stripped |-> 1]>>
UnityMetadata(v, trees, big) ==
  LET objects == UnityObjects(v, big)
      types == ClassIds(v)
  IN Over(Blank(MetadataOf[v]),
       [UnityVersion |-> "4", TargetPlatform |-> "5", TypeTreeEnabled |-> IF trees THEN 1 ELSE 0, BigIDEnabled |-> IF big THEN 1 ELSE 0,
        TypeTreeTypes |-> [i \in DOMAIN types |-> UnityType(v, trees, FALSE, types[i], IF i = 2 /\ v >= 13 THEN "s" ELSE "")],
        AssetInfos |-> [i \in DOMAIN objects |-> Over(Blank(AssetInfo(v, big)), objects[i])],
        ScriptTypes |-> <<[LocalSerializedFileIndex |-> 1, LocalIdentifierInFile |-> "i"]>>,
        ExternalFiles |-> <<[AssetPath |-> "a", Guid |-> "g", Type |-> "2", PathName |-> "p"]>>,
        RefTypes |-> <<UnityType(v, trees, TRUE, 5, "")>>, UserInformation |-> "u"])
\* What a reader is to find in it: the trees by the index or the class of the object.
UnityFound(v, trees) ==
  LET tree(class, hash) ==
        IntTree @@ [TypeId |-> class, IsStrippedType |-> IF v >= 16 THEN 1 ELSE 0, ScriptIdHash |-> hash, TypeHash |-> IF v >= 13 THEN "t" ELSE ZeroHash,
                    TypeDependencies |-> IF v >= 21 THEN <<[D |-> "d"]>> ELSE <<>>]
  IN <<[PathID |-> 7, ClassID |-> ClassIDTextAsset, Data |-> SubSeq(UnityData, 1, 8), Name |-> <<1>>,
        Trees |-> IF trees THEN <<tree(ClassIDTextAsset, ZeroHash)>> ELSE <<>>],
       [PathID |-> IF v % 2 = 0 THEN 8 ELSE -5, ClassID |-> ClassIDMonoBehaviour, Data |-> ToBytes(<<2, 3>>), Name |-> <<>>,
        Trees |-> IF trees /\ v >= 16 THEN <<tree(ClassIDMonoBehaviour, "s")>> ELSE <<>>]>>
UnityFile(v, trees, big, endianness) ==
  LET metadata == UnityMetadata(v, trees, big)
      gap == ToBytes(<<1, 0>>)
      wide == v >= 22
      begin == IF wide THEN 10 ELSE 6
      tokens == Len(Padded(Write(MetadataOf[v], metadata)))
      whole == begin + tokens + Len(gap) + Len(UnityData)
      In(w, n) == IF wide = w THEN n ELSE 0
  IN [Header |->
        [Version |-> v, Endianness |-> endianness, Reserved |-> "r", LargeFilesUnknown |-> IF wide THEN "l" ELSE "",
         LegacyMetadataSize |-> In(FALSE, tokens), LegacyFileSize |-> In(FALSE, whole), LegacyDataOffset |-> In(FALSE, whole - Len(UnityData)),
         MetadataSize |-> In(TRUE, tokens), FileSize |-> In(TRUE, whole), DataOffset |-> In(TRUE, whole - Len(UnityData))],
      Metadata |-> metadata, Gap |-> gap, Data |-> UnityData, Objects |-> UnityFound(v, trees)]
UnityFileDocs ==
  {UnityFile(v, trees, TRUE, 0) : v \in Versions, trees \in {TRUE}} \cup {UnityFile(v, FALSE, TRUE, 1) : v \in {13, 15, 16, 17, 20, 22}}
    \cup {UnityFile(v, TRUE, FALSE, 0) : v \in {12, 13}}

(***************************************************************************)
(* Together.                                                               *)
(***************************************************************************)
Streamings == {"inline_texture", "inline_mesh", "inline_audio"}
UnityFormats == {"native", "text_asset", "texture", "names", "names_old", "references", "serialized", "serialized_old"} \cup Streamings
UnityDocs(f) ==
  CASE f = "native" -> NativeDocs [] f = "text_asset" -> TextAssetDocs [] f = "texture" -> TextureDocs [] f \in {"names", "names_old"} -> NameDocs
    [] f = "references" -> ReferenceDocs [] f = "serialized" -> SerializedDocs [] f = "serialized_old" -> UnityFileDocs [] f \in Streamings -> StreamDocs(f)
WriteUnity(f, d) ==
  CASE f = "native" -> WriteNativeUnityObject(d) [] f = "text_asset" -> WriteTextAsset(d) [] f = "texture" -> WriteTexture(d)
    [] f = "names" -> WriteNames(d) [] f = "names_old" -> WriteOldNames(d) [] f = "references" -> WriteReferences(d)
    [] f = "serialized" -> WriteSerializedFile(d) [] f = "serialized_old" -> WriteUnityFile(d) [] f \in Streamings -> WriteStreamed(f, d)
ReadUnity(f, x) ==
  CASE f = "native" -> ReadNativeUnityObject(x) [] f = "text_asset" -> ReadTextAsset(x) [] f = "texture" -> ReadTexture(x)
    [] f = "names" -> ReadNames(x, 22, unity2022AssetBundleTypeTree) [] f = "names_old" -> ReadNames(x, 13, OldAssetBundleTree)
    [] f = "references" -> ReadReferences(x)
    [] f = "serialized" -> ReadUnpacked(x) [] f = "serialized_old" -> ReadUnityFile(x) [] f \in Streamings -> ReadStreamed(f, x)
SettledUnity(f, d) ==
  CASE f = "text_asset" -> SettledTextAsset(d) [] f = "texture" -> SettledTexture(d) [] f \in {"names", "names_old"} -> SettledNames(d)
    [] f = "references" -> SettledReferences(d) [] f = "serialized" -> SettledSerialized(d) [] f \in Streamings -> SettledStreamed(f, d) [] OTHER -> d
\* What is in a file need not be what the packer puts into one.
UnsavableUnity(f, altered, d) ==
  \/ f \in {"texture", "names", "names_old", "references"} /\ altered
  \/ f = "serialized" /\ Unpackable(d)
  \/ IsClip(f) /\ d.Trailing # <<>> /\ NumberOf(d.Value.Children[1], "m_Offset") # 0
\* A clip may have lost the zeroes behind its sound, or, unnoticed, all of it.
MayLackUnity(f, d, cut) ==
  /\ IsClip(f) /\ Len(cut) < Len(WriteStreamed(f, d))
  /\ LET r == ReadAssetValuePrefix(StreamTree[f], cut)
     IN r.st = "ok" /\ Len(cut) - r.p \notin 1 .. NumberOf(r.v.Children[1], "m_Size") - 1

(***************************************************************************)
(* The values of MessagePack as files of their own: their bytes and, so   *)
(* that a reader has something to run into, what follows them.            *)
(***************************************************************************)
\* (Which Single is nearest to a number is not the point: some one is.)
NearestSingle(kind, v) == [i \in 1 .. 4 |-> v[i + 4]]
\* The library's compressor, of a block that repeats one byte.
SameBytes(block) ==
  IF Len(block) < 13 \/ Cardinality(Range(block)) > 1 THEN <<>>
  ELSE LET n == Len(block) - 10
       IN <<16 + (IF n < 15 THEN n ELSE 15), block[1], 1, 0>> \o (IF n < 15 THEN <<>> ELSE [i \in 1 .. (n - 15) \div 255 |-> 255] \o <<(n - 15) % 255>>)
            \o <<80, block[1], block[1], block[1], block[1], block[1]>>
Large == INSTANCE Lz4 WITH ToSingle <- NearestSingle, BlockSize <- 272, MaxLz4DecompressedSize <- 273, CompressBlock <- SameBytes
Tiny  == INSTANCE Lz4 WITH ToSingle <- NearestSingle, BlockSize <- 1, MaxLz4DecompressedSize <- 18, CompressBlock <- SameBytes

\* The bytes at the beginning may be altered, the others are as they are.
ToFile(bytes) == [i \in DOMAIN bytes |-> Tok(IF i <= 8 THEN "#byte" ELSE "octet", bytes[i])]
OfFile(tokens) == [i \in DOMAIN tokens |-> IF tokens[i].k = "byte" THEN 0 ELSE tokens[i].v]

UInts   == {"mp_uint64", "mp_session"}
Ints64  == {"mp_int64"}
Ints32  == {"mp_int32", "mp_grad_int32"}
Floats == {"mp_single", "mp_grad_single", "mp_moveable_single"}
Arrays  == {"mp_array", "mp_grad_array", "mp_object_array"}
MapSet  == {"mp_map", "mp_grad_map", "mp_object_map"}
Texts8 == {"mp_string", "mp_moveable_string"}
Bins    == {"mp_bin"}
Wholes  == {"lz4", "lz4_tiny", "lz4_single"}
MsgPackFormats == UInts \cup Ints64 \cup Ints32 \cup Floats \cup Arrays \cup MapSet \cup Texts8 \cup Bins \cup Wholes

ReadValue(f, b) ==
  CASE f = "mp_uint64" -> Large!ReadUInt64(b, 1) [] f = "mp_session" -> Large!sessionReadUInt64(b, 1) [] f = "mp_int64" -> Large!ReadInt64(b, 1)
    [] f = "mp_int32" -> Large!ReadInt32(b, 1) [] f = "mp_grad_int32" -> Large!gradReadInt32(b, 1) [] f = "mp_single" -> Large!ReadSingle(b, 1)
    [] f = "mp_grad_single" -> Large!gradReadSingle(b, 1) [] f = "mp_moveable_single" -> Large!moveableReadSingle(b, 1)
    [] f = "mp_array" -> Large!readArrayLength(b, 1) [] f = "mp_grad_array" -> Large!gradReadArrayLength(b, 1) [] f = "mp_object_array" -> Large!readArrayHeader(b, 1)
    [] f = "mp_map" -> Large!readMapLength(b, 1) [] f = "mp_grad_map" -> Large!gradReadMapLength(b, 1) [] f = "mp_object_map" -> Large!ReadMapHeader(b, 1)
    [] f = "mp_string" -> Large!readString(b, 1) [] f = "mp_moveable_string" -> Large!moveableReadString(b, 1) [] f = "mp_bin" -> Large!ReadBin(b, 1)
    [] f \in {"lz4", "lz4_single"} -> Large!DecompressLz4BlockArray(b) [] f = "lz4_tiny" -> Tiny!DecompressLz4BlockArray(b)
WriteValue(f, v) ==
  CASE f = "mp_uint64" -> Large!AppendUInt64(v) [] f = "mp_session" -> Large!sessionAppendUInt64(v) [] f = "mp_int64" -> Large!AppendInt64(v)
    [] f = "mp_int32" -> Large!AppendInt32(v) [] f = "mp_grad_int32" -> Large!gradAppendInt32(v) [] f \in Floats -> Large!AppendSingle(v)
    [] f \in Arrays -> Large!WriteArrayHeader(Large!Bytes4(Len(v))) \o v [] f \in MapSet -> Large!AppendMapHeader(Large!Bytes4(Len(v) \div 2)) \o v
    [] f \in Texts8 -> Large!AppendString(v) [] f \in Bins -> Large!writeBin32(v)
    [] f = "lz4" -> Large!CompressLz4BlockArray(v).v [] f = "lz4_tiny" -> Tiny!CompressLz4BlockArray(v).v [] f = "lz4_single" -> Large!Lz4Block(v)

\* The value a file begins with, its elements with it.
ElementsIn(f, b, r) ==
  LET n == IF r.v[1] < 64 THEN Large!Number(r.v) * (IF f \in MapSet THEN 2 ELSE 1) ELSE Len(b)
  IN IF r.p + n - 1 > Len(b) THEN [st |-> "eof", doc |-> <<>>, p |-> r.p]
     ELSE [st |-> "ok", doc |-> [Value |-> SubSeq(b, r.p, r.p + n - 1)], p |-> r.p + n]
ReadMsgPack(f, tokens) ==
  LET b == OfFile(tokens)
      r == ReadValue(f, b)
  IN IF ~r.ok THEN [st |-> "refused", doc |-> <<>>, p |-> 1]
     ELSE IF f \in Arrays \cup MapSet THEN ElementsIn(f, b, r)
     ELSE [st |-> "ok", doc |-> [Value |-> r.v], p |-> IF f \in Wholes THEN Len(b) + 1 ELSE r.p]
WriteMsgPack(f, d) == ToFile(WriteValue(f, d.Value))
\* What there is to write.
SavableMsgPack(f, d) ==
  CASE f = "lz4" -> Large!CompressLz4BlockArray(d.Value).ok [] f = "lz4_tiny" -> Tiny!CompressLz4BlockArray(d.Value).ok [] OTHER -> TRUE

\* The numbers beside the boundaries of the forms, below and above zero.
Unsigned ==
  {<<0, 0, 0, 0, 0, 0, 0, b>> : b \in {0, 127, 128, 255}}
    \cup {<<0, 0, 0, 0, 0, 0, 1, 0>>, <<0, 0, 0, 0, 0, 0, 255, 255>>, <<0, 0, 0, 0, 0, 1, 0, 0>>, <<0, 0, 0, 0, 127, 255, 255, 255>>,
          <<0, 0, 0, 0, 255, 255, 255, 255>>, <<0, 0, 0, 1, 0, 0, 0, 0>>, <<127, 255, 255, 255, 255, 255, 255, 255>>}
Complement(v) == [i \in 1 .. 8 |-> 255 - v[i]]
Words == Unsigned \cup {Complement(v) : v \in Unsigned \cup {<<0, 0, 0, 0, 0, 0, 0, b>> : b \in {31, 32}} \cup {<<0, 0, 0, 0, 0, 0, 127, 255>>, <<0, 0, 0, 0, 0, 0, 128, 0>>}}
Same8(n) == [i \in 1 .. n |-> 65]
Mixed(n) == [i \in 1 .. n |-> (i * 7) % 256]
MsgPackDocs(f) ==
  LET values ==
        CASE f \in UInts \cup Ints64 -> Words
          [] f \in Ints32 -> {v \in Words : Large!InInt32(v)}
          [] f \in Floats -> {<<0, 0, 0, 0>>, <<63, 128, 0, 0>>, <<255, 192, 0, 1>>}
          [] f \in Arrays -> {Same8(n) : n \in {0, 1, 15, 16}}
          [] f \in MapSet -> {Same8(2 * n) : n \in {0, 1, 15, 16}}
          [] f \in Texts8 \cup Bins -> {Mixed(n) : n \in {0, 1, 31, 32, 255, 256}}
          [] f = "lz4" -> {Mixed(n) : n \in {0, 1, 14, 15, 128, 269, 270, 273, 274}} \cup {Same8(n) : n \in {13, 24, 25, 272, 273}}
          [] f = "lz4_single" -> {Mixed(n) : n \in {1, 15, 128}} \cup {Same8(n) : n \in {13, 25}}
          [] f = "lz4_tiny" -> {Mixed(n) : n \in {1, 2, 4, 8, 14, 15, 16, 18, 19}}
  IN {[Value |-> v] : v \in values}
\* A cut envelope that is no envelope any more is data.
NoEnvelope(f, tokens) ==
  /\ f \in Wholes
  /\ LET b == OfFile(tokens)
         r == ReadValue(f, b)
     IN IF r.ok THEN r.v = b ELSE FALSE

(***************************************************************************)
(* The formats.                                                            *)
(***************************************************************************)
F(reader, writer, numbers) == [reader |-> reader, writer |-> writer, numbers |-> numbers]
Payload(d, numbers) == F(decodeKCESPayloadVariants(d), encodeKCESPayloadVariant(d), numbers)
Payloads == [dbconf |-> DBConf, dslcol |-> DSLCol, dsbconf |-> DSBConf, dsb2conf |-> DSB2Conf]
Codecs ==
  [sad |-> F(DecodeSavedAttach, EncodeSavedAttach, [RecordVersion |-> {2000, 2001, 2002}]),
   sad_legacy |-> F(DecodeSavedAttach, LegacySavedAttach, [RecordVersion |-> {2000}]),
   saved_texture |-> F(readSavedTexture(0), writeSavedTexture(0), <<>>),
   properties |-> F(DecodePropertyData, EncodePropertyData,
                    [Version |-> {2000, 2001, 2002}, SlotValue |-> {"0"}, SavedAttachPositions |-> {0}, SavedTextureData |-> {0}]),
   color |-> F(DecodeColorData, EncodeColorData, [Version |-> {1200, 1201}, PartName |-> {"HAIR", "MAX"}]),
   body |-> F(DecodeBodyData, EncodeBodyData, <<>>),
   colliders |-> F(decodeColliderPackage, encodeColliderPackage, [Type |-> {0, 1, 2, 3, 4}, Width |-> {25}]),
   limbs |-> F(decodeLimbCollider, encodeLimbCollider, [Width |-> {25}]),
   limbs_narrow |-> F(decodeLimbCollider, NarrowLimbCollider, [Width |-> {22}]),
   panel_names |-> F(DecodePresetPanelNameSaveData, EncodePresetPanelNameSaveData, <<>>),
   palette |-> F(DecodePaletteColorSaveData, EncodePaletteColorSaveData, <<>>),
   panels |-> F(DecodeMoveablePanelSaveData, EncodeMoveablePanelSaveData, <<>>),
   grad |-> F(DecodeGradPointsData, EncodeGradPointsData, <<>>),
   grad2 |-> F(DecodeKCES2GradPointsData, KCES2GradPointsData, <<>>),
   favourites |-> F(DecodeItemFavouriteStates, ItemFavouriteStates, <<>>),
   orderlist |-> F(DecodeColorPresetOrderList, EncodeColorPresetOrderList, <<>>),
   color_pack |-> F(<<ReadPack>>, <<AppendPack>>, [LegacyMPNNamesOmitted |-> {0, 1}]),
   color_preset |-> F(decodeColorPreset, EncodeColorPreset,
                      [IndexedArrayWidth |-> {6, 7, 11, 0}, LegacyInstanceGUIDOmitted |-> {0, 1}, ColorPackList |-> {0}]),
   materials |-> F(DecodeMaterialAssets, EncodeMaterialAssets, [IndexedArrayWidth |-> {8, 9, 10, 0}]),
   model |-> F(DecodeModel, EncodeModel, [IndexedArrayWidth |-> {10, 11, 0}, Morphs |-> {0}, SkinThick |-> {0}, BoneNames |-> {0}]),
   models |-> F(DecodeModelAssets, EncodeModelAssets, [IndexedArrayWidth |-> {10, 11}]),
   priorities |-> F(DecodePriorityMaterialAssets, EncodePriorityMaterialAssets, <<>>),
   premul |-> F(<<ReadPreMulTexDatas>>, <<WritePreMulTexDatas>>, [PartCols |-> {0}, GradeCols |-> {0}]),
   premul_narrow |-> F(<<ReadPreMulTexDatas>>, <<NarrowPreMulTexDatas>>, [Grada |-> {0}, PartCols |-> {0}, GradaColDef |-> {0}]),
   colvari |-> F(<<Colvari(ReadPartsColor)>>, <<Colvari(WritePartsColor)>>, <<>>),
   menus |-> F(DecodeMenuAssets, EncodeMenuAssets, [IndexedArrayWidth |-> {21, 32, 0}, PreMulTexDatas |-> {0}, ColvariInfo |-> {0}]),
   hitcheck |-> F(DecodeHitCheck, EncodeHitCheck, <<>>),
   capsules |-> F(DecodeMaidCollider, EncodeMaidCollider, <<>>),
   bridge |-> F(DecodeGP03Bridge, EncodeGP03Bridge, [Version |-> {1999, 2000, 2001, 2002}]),
   kctex |-> F(DecodeKCTex, EncodeKCTex, [Signature |-> {"CM3D2_TEX", "other"}]),
   dbconf |-> Payload(DBConf, [JSON |-> {"text"}]),
   dslcol |-> Payload(DSLCol, [JSON |-> {"text"}, Package |-> {0}, DynamicBone |-> {0}]),
   dsbconf |-> Payload(DSBConf, [JSON |-> {"text"}]),
   dsb2conf |-> Payload(DSB2Conf, <<>>),
   mesh |-> F(DecodeKCMesh, EncodeKCMesh, <<>>),
   metadata |-> F(DecodeKCMetaData, EncodeKCMetaData, <<>>),
   kcmat |-> F(DecodeKCMat, EncodeKCMat, [IndexedArrayWidth |-> {8}]),
   kcmenu |-> F(DecodeKCMenu, EncodeKCMenu, [IndexedArrayWidth |-> {27}, PreMulTexDatas |-> {0}, ColvariInfo |-> {0}]),
   hairmake |-> F(DecodeHairMakeSave, EncodeHairMakeSave, [BaseBox |-> {0}]),
   edit_base |-> F(DecodeKCESPresetEditBaseData, EncodeKCESPresetEditBaseData, [IndexedArrayWidth |-> {6, 11}, ColorPackList |-> {0}]),
   edit_unit |-> F(DecodeKCESPresetEditUnitData, EncodeKCESPresetEditUnitData, <<>>),
   catalog |-> F(decodeCatalog, EncodeCatalog, [Kind |-> {"other"}]),
   catalog_of |-> F(DecodeCatalogWithKind("virtualAsset"), EncodeCatalog, <<>>),
   extension_names |-> F(DecodeExtensionNameList, EncodeExtensionNameList, <<>>),
   ik |-> F(decodeIKCollider, encodeIKCollider, [Type |-> {1, 2}, Width |-> {25}])]
MCIsMenuName(name) == name # "other"
\* The containers, whose readers and writers follow positions.
EditedOrNot(d) == IF "Name" \in DOMAIN d THEN EncodeEdited(d) ELSE EncodeTable(d)
C(decode(_), encode(_), x, reading) == IF reading THEN decode(x) ELSE encode(x)
BuiltOrNot(d) == IF "Form" \in DOMAIN d THEN GameBundle(d) ELSE WriteAba(d)
Containers == {"ct", "ct_edited", "system", "session", "preset", "shpreset", "enm", "enm_json", "bundle", "bundle_game"} \cup UnityFormats
Container(f, x, reading) ==
  CASE f = "ct" -> C(DecodeTable, EncodeTable, x, reading)
    [] f = "ct_edited" -> C(DecodeTable, EditedOrNot, x, reading)
    [] f = "system" -> C(DecodeKCESSystemData, EncodeKCESSystemData, x, reading)
    [] f = "session" -> C(DecodeKCESBridgeSession, EncodeKCESBridgeSession, x, reading)
    [] f = "preset" -> C(DecodeKCESPreset, EncodeKCESPreset, x, reading)
    [] f = "shpreset" -> C(DecodeSharePreset, EncodeSharePreset, x, reading)
    [] f = "enm" -> C(DecodeKCESExportNameMap, EncodeKCESExportNameMap, x, reading)
    [] f = "enm_json" -> C(DecodeKCESExportNameMapJSON, EncodeKCESExportNameMapJSON, x, reading)
    [] f = "bundle" -> C(ReadBundle, WriteAba, x, reading)
    [] f = "bundle_game" -> C(ReadBundle, BuiltOrNot, x, reading)
    [] f \in UnityFormats -> (IF reading THEN ReadUnity(f, x) ELSE WriteUnity(f, x))
MCFormats == LET streams == DOMAIN Codecs IN streams \cup Containers \cup MsgPackFormats
MCDecoded[f \in MCFormats, bytes \in Any] ==
  IF f \in Containers THEN Container(f, bytes, TRUE) ELSE IF f \in MsgPackFormats THEN ReadMsgPack(f, bytes) ELSE Read(Codecs[f].reader, bytes)
MCEncoded[f \in MCFormats, d \in Any] == IF f \in Containers THEN Container(f, d, FALSE) ELSE IF f \in MsgPackFormats THEN WriteMsgPack(f, d) ELSE Write(Codecs[f].writer, d)
OnRoot(d, Op(_)) == [d EXCEPT !.Asset = InOpt(@, Op)]
MCAccepts[f \in MCFormats, d \in Any] ==
  CASE f = "model" -> \A m \in Range(d.Asset) : validateModelNameSelector(m)
    [] f = "models" -> \A m \in AssetsOf(d) : validateModelNameSelector(m)
    [] OTHER -> TRUE
MCValid[f \in MCFormats, d \in Any] ==
  CASE f \in MsgPackFormats -> SavableMsgPack(f, d) [] f = "sad_legacy" -> LegacyLegal(d) [] f = "color" -> ColorLegal(d)
    [] f = "color_preset" -> validateColorPreset(d)
    [] f \in DOMAIN Payloads -> validateKCESPayloadEnvelopeRoots(Payloads[f], d)
    [] f = "kcmenu" -> \A menu \in Range(d.Asset) : validateMenuFileNameExtension(menu)
    [] f = "edit_base" -> \A held \in PresetsOf(d) : validateColorPreset(held)
    [] f = "menus" -> \A menu \in AssetsOf(d) : validateMenuFileNameExtension(menu)
    [] OTHER -> MCAccepts[f, d]
MCPrepared[f \in MCFormats, d \in Any] ==
  CASE f = "color_preset" -> Sized(d)
    [] f = "materials" -> OnAssets(d, cloneMaterialForEncoding)
    [] f = "model" -> OnRoot(d, cloneModelForEncoding)
    [] f = "models" -> OnAssets(d, cloneModelForEncoding)
    [] f = "menus" -> OnAssets(d, cloneMenuForEncoding)
    [] f = "kcmat" -> OnRoot(d, cloneMaterialForEncoding)
    [] f = "kcmenu" -> OnRoot(d, cloneMenuForEncoding)
    [] f = "edit_base" -> OnColorPreset(d, collapseKCESPresetEditColorPreset)
    [] OTHER -> d
Former18(preMul) ==
  [preMul EXCEPT !.PreTexCompoTypeStr = "Alpha", !.MaskParam = InOpt(@, LAMBDA mask : [mask EXCEPT !.ShareRtTargetPart = Nil])]
MCSettled[f \in MCFormats, d \in Any] ==
  CASE f = "ct" -> SettledTable(d) [] f = "ct_edited" -> (IF "Name" \in DOMAIN d THEN SettledEdited(d) ELSE SettledTable(d)) [] f = "system" -> SettledSystemData(d)
    [] f = "session" -> SettledSession(d) [] f = "preset" -> SettledPreset(d)
    [] f \in {"enm", "enm_json"} -> NameMap(d.Entries)
    [] f \in {"bundle", "bundle_game"} -> SettledBundle(d) [] f \in UnityFormats -> SettledUnity(f, d)
    [] f = "color_preset" -> SettledColorPreset(d)
    [] f = "premul_narrow" -> [d EXCEPT !.PreMul = InOpt(@, Former18)]
    [] f = "edit_base" -> OnColorPreset(MCPrepared[f, d], LAMBDA color : [color EXCEPT !.SerializeBinary = InOpt(@, SettledColorPreset)])
    [] OTHER -> MCPrepared[f, d]
MCReproduced[f \in MCFormats, h \in Any, whole \in Any, d \in Any] ==
  /\ f \in Containers \cup MsgPackFormats => h = "none"
  /\ f \notin {"bundle_game", "serialized", "sad_legacy", "limbs_narrow", "premul_narrow"}
  /\ f = "premul" => \A preMul \in Range(d.PreMul) : preMul.PreTexCompoTypeStr # "Alpha"
MCUnsavable[f \in MCFormats, h \in Any, d \in Any] == f \in UnityFormats /\ UnsavableUnity(f, h = "altered", d)
\* (What a server appended to a shared preset.)
MCMayLack[f \in MCFormats, whole \in Any, cut \in Any] ==
  \/ NoEnvelope(f, cut)
  \/ MayLackUnity(f, whole, cut)
  \/ f = "shpreset" /\ Len(cut) < Len(EncodeSharePreset(whole)) /\ Len(cut) >= cut[3].v + cut[4].v
Fragments == {"saved_texture", "color_pack", "premul", "premul_narrow", "colvari"}
MCTrailed[f \in MCFormats, d \in Any, more \in Any] ==
  CASE f = "shpreset" -> {Appended(d, more)} [] f \in Fragments \cup (MsgPackFormats \ Wholes) -> {MCSettled[f, d]}
    [] f \in Wholes -> (IF d.Value = <<>> THEN {[Value |-> OfFile(<<more>>)]} ELSE {}) [] OTHER -> {}
SizesOf(f) ==
  CASE f \in {"menus", "kcmat", "kcmenu", "mesh", "hairmake", "dsbconf", "dbconf"} -> {1} [] f \in {"properties", "models"} \cup Fragments -> {0, 1} [] OTHER -> {0, 1, 2}
\* The root of a model is one of its bones, or, wrongly, two of them.
Rooted(model) ==
  IF model.TransData = <<>> \/ model.TransData[1].Items = <<>> \/ model.TransData[1].Items[1].Trans = <<>> THEN model
  ELSE [model EXCEPT !.ModelName = model.TransData[1].Items[1].Trans[1].Name]
Twinned(model) ==
  LET root == Rooted(model)
  IN IF root = model THEN model
     ELSE [root EXCEPT !.TransData[1].Items = [i \in DOMAIN @ |-> [Trans |-> InOpt(@[i].Trans, LAMBDA t : [t EXCEPT !.Name = root.ModelName])]]]
Misnamed(menu) == [menu EXCEPT !.FileName = "other"]
Variants(f, docs) ==
  CASE f = "model" -> {OnRoot(d, Rooted) : d \in docs} \cup {OnRoot(d, Twinned) : d \in docs}
    [] f = "models" -> docs \cup {OnAssets(d, Rooted) : d \in docs}
    [] f = "menus" -> docs \cup {OnAssets(d, Misnamed) : d \in docs}
    [] OTHER -> docs
\* What containers hold: directories and files, some with a name they must not have.
Text(x) == <<Tok("byte", x)>>
Dirs == {<<>>, <<"a">> :> 3, (<<"a">> :> 3) @@ (<<"a", "b">> :> 4), <<"..">> :> 3}
Empty == <<>>
FileSets ==
  {Empty, <<"f">> :> Text("x"), (<<"f">> :> Empty) @@ (<<"a", "f">> :> Text("x") \o Text("y")), (<<"a", "b", "f">> :> Text("x")) @@ (<<"a", "b">> :> Text("y")),
   <<"a", "">> :> Text("x")}
Tables(dirs, files) ==
  {[Version |-> 2, Framing |-> framing, Directories |-> d, Files |-> f] : framing \in {"legacy", "extended"}, d \in dirs, f \in files}
    \cup {[Version |-> 2, Framing |-> "other", Directories |-> Empty, Files |-> Empty]}
Outer(format, framing, dirs) == [Format |-> format, ContainerVersion |-> 2, ContainerFraming |-> framing, Directories |-> dirs]
Plain(f) ==
  LET L == Codecs[f].reader
      docs == Fill(L, {Blank(L)}, <<>>, [ctl |-> Codecs[f].numbers, size |-> 1, odd |-> "", sfx |-> ""])
  IN CHOOSE d \in docs : MCValid[f, d] /\ ~Refuses(MCEncoded[f, MCPrepared[f, d]])
Entry(path, kind, f) == [Path |-> path, Kind |-> kind, Root |-> MCPrepared[f, Plain(f)], Also |-> {}]
PanelNames == Entry(<<"EditData", "PresetPanelNameSaveData::SceneEdit::savedata">>, "", "panel_names")
Moved   == Entry(<<"EditData", "MoveablePanelManager::SceneEdit::savedata">>, "moveable_panel", "panels")
Favours == Entry(<<"EditData", "KCES2Edit::ItemFavouriteStateSetting">>, "", "favourites")
Palette == Entry(<<"EditData", "PaletteColorSave7">>, "palette_color", "palette")
Grad    == Entry(<<"EditData", "GradSv0">>, "", "grad")
Grad2   == Entry(<<"EditData", "KCES2GradSv12">>, "", "grad2")
Order   == Entry(<<"EditData", "color_preset", "preset_orderlist">>, "", "orderlist")
OrderOf == Entry(<<"EditData", "color_preset", "HAIR", "preset_orderlist">>, "", "orderlist")
Color   == Entry(<<"EditData", "color_preset", "HAIR", "red">>, "color_preset", "color_preset")
EditDataLists ==
  {Empty, <<PanelNames, Moved, Favours>>, <<Palette, Grad, Grad2>>, <<Color, OrderOf>>, <<Order>>,
   <<Palette, Palette>>, <<[Palette EXCEPT !.Kind = "gradation_points"]>>, <<[Palette EXCEPT !.Also = {"palette_color"}]>>, <<[Palette EXCEPT !.Also = {"gradation_points"}]>>,
   <<[Palette EXCEPT !.Path = <<"EditData", "GradSv0">>]>>, <<[Palette EXCEPT !.Path = <<"EditData", "PaletteColorSave">>]>>}
Extras == {Empty, (<<"EditData", "other">> :> Text("x")) @@ (<<"f">> :> Empty), <<"EditData", "GradSv7">> :> Text("x")}
SystemDocs ==
  {Outer(KCESSystemDataFormat, "legacy", Empty) @@ [EditData |-> e, ExtraFiles |-> Empty] : e \in EditDataLists}
    \cup {Outer(format, "extended", <<"EditData">> :> 5) @@ [EditData |-> <<Grad>>, ExtraFiles |-> x] : format \in {"", "other"}, x \in Extras}
Session(id) == [Version |-> 1000, SessionID |-> id, HideMenuFileIDs |-> <<[Items |-> <<[ID |-> "ID1"], [ID |-> "ID2"]>>]>>]
SessionDocs ==
  {Outer("", framing, Empty) @@ [SessionData |-> Session(id), ExtraFiles |-> x] :
     framing \in {"legacy", "extended"}, id \in {"", "one"}, x \in {Empty, <<"f">> :> Text("x"), SessionIDFile :> Text("x")}}
Held(f) == {<<>>, <<Plain(f)>>}
PresetDocs ==
  {Outer("", "extended", Empty) @@
   [Thumbnail |-> thumbnail, Meta |-> meta, ExtraFiles |-> x,
    MaidData |-> [Version |-> 1000, PropData |-> property, ColorData |-> color, BodyData |-> body]] :
     thumbnail \in {Empty, Text("png")}, meta \in {<<>>, <<[Version |-> 1000, Data |-> <<[Items |-> <<[Key |-> "k", Text |-> Nil]>>]>>]>>},
     x \in {Empty, <<"thumbnail">> :> Empty}, property \in Held("properties"), color \in Held("color"), body \in Held("body")}
Image(n) == [Extension |-> Nil, Data |-> n]
SharedDocs ==
  {[Signature |-> signature, Version |-> 3, Gender |-> Nil, Height |-> "1", Weight |-> "2", Bust |-> "3", Waist |-> "4", Hip |-> "5",
    ItemMPNs |-> <<[Items |-> <<[MPN |-> "hair", Names |-> <<[Items |-> <<[Name |-> Nil]>>]>>]>>]>>, ParamMPNs |-> <<>>,
    PresetData |-> Text("x") \o Text("y"), BaseThumbnail |-> base, AdditionalThumbnails |-> more,
    ExtraFields |-> <<[Member |-> member, Raw |-> "1"]>>, AppendedData |-> tail] :
     signature \in {"SH_PRES", "other"}, base \in {<<>>, <<Image(Text("b"))>>},
     more \in {<<>>, <<<<>>>>, << << <<Image(Empty)>>, <<Image(Text("c"))>> >> >>, << << <<>> >> >>},
     member \in {"comment", "weist"}, tail \in {Empty, Text("server")}}
NameMapDocs ==
  {[Format |-> format, Version |-> version, Entries |-> entries] :
     format \in {"", KCESExportNameMapFormat, "other"}, version \in {1000, 1001},
     entries \in {<<>>, <<[InternalName |-> "a", FileName |-> "x"], [InternalName |-> "b", FileName |-> "x"]>>,
                  <<[InternalName |-> "a", FileName |-> "x"], [InternalName |-> "a", FileName |-> "y"]>>}}
\* Bundles: the files' sources, among them some that give something else the second time.
Xs(n) == [i \in 1 .. n |-> Tok("byte", IF i < 3 THEN "x" ELSE ToString(i))]
Streamed(size, first, second) == [Name |-> Plaintext(<<"s">>), Serialized |-> TRUE, Source |-> "stream", Size |-> size, First |-> first, Second |-> second]
TwoFiles == <<HeldFile(Plaintext(<<"a">>), TRUE, Xs(4)), HeldFile(Plaintext(<<"b", "c">>), FALSE, Xs(4))>>
FileLists ==
  {<<>>, <<HeldFile(<<>>, FALSE, <<>>)>>, TwoFiles, <<[TwoFiles[1] EXCEPT !.Size = 5]>>, <<[TwoFiles[1] EXCEPT !.Name = Plaintext(<<"a", "NUL">>)]>>}
    \cup {<<TwoFiles[2], Streamed(4, first, second)>> : first \in {Xs(4), Reverse(Xs(4))}, second \in {Xs(4), Xs(3), Xs(5)}}
Bundled(version, generation, engine, compress, files) ==
  [Version |-> version, GenerationVersion |-> Plaintext(generation), EngineVersion |-> Plaintext(engine), Compress |-> compress, Files |-> files]
BundleDocs ==
  {Bundled(version, <<>>, <<"2">>, compress, files) : version \in {0, 5, 6, 9}, compress \in BOOLEAN, files \in FileLists}
    \cup {Bundled(version, <<"5">>, engine, TRUE, TwoFiles) :
            version \in {6, 7}, engine \in {<<>>, <<"2">>, <<"2", "0">>, <<"2", "0", "2">>, <<"NUL">>}}
GameBundleDocs ==
  {[Form |-> [AtEnd |-> atEnd, Padded |-> padded, Table |-> table, Blocks |-> blocks]] @@ Bundled(version, <<"5">>, engine, FALSE, TwoFiles) :
     atEnd \in BOOLEAN, padded \in BOOLEAN, table \in {0, 1, 3}, blocks \in {0, 1, 2}, version \in {6, 8}, engine \in {<<"2">>, <<"2", "0">>}}
ContainerDocs(f) ==
  CASE f = "ct" -> Tables(Dirs, FileSets)
    [] f = "ct_edited" ->
         {t @@ [Name |-> name, Data |-> Text("new")] : t \in Tables({<<>>, <<"a">> :> 3}, FileSets), name \in {<<"f">>, <<"a", "f">>, <<"c", "g">>, <<".">>}}
    [] f = "system" -> SystemDocs [] f = "session" -> SessionDocs [] f = "preset" -> PresetDocs [] f = "shpreset" -> SharedDocs
    [] f \in {"enm", "enm_json"} -> NameMapDocs [] f = "bundle" -> BundleDocs [] f = "bundle_game" -> GameBundleDocs
    [] f \in UnityFormats -> UnityDocs(f)
MCDocs ==
  [f \in STRING |->
     IF f \in Containers THEN ContainerDocs(f)
     ELSE IF f \in MsgPackFormats THEN MsgPackDocs(f) ELSE Variants(f, Shapes(Codecs[f].reader, Codecs[f].numbers, SizesOf(f)))]
MCCodec ==
  LET codes == [Decoded |-> MCDecoded, Encoded |-> MCEncoded, Valid |-> MCValid, Accepts |-> MCAccepts, Prepared |-> MCPrepared]
  IN codes @@ [Docs |-> MCDocs, Settled |-> MCSettled, Reproduced |-> MCReproduced, Unsavable |-> MCUnsavable, MayLack |-> MCMayLack, Trailed |-> MCTrailed]
=============================================================================
