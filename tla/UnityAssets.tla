--------------------------- MODULE UnityAssets ---------------------------
(***************************************************************************)
(* The objects the packer encodes by hand, next to the type trees it       *)
(* stores with them: text assets, textures and the container that names a  *)
(* bundle's assets; the references among objects; and the payloads that    *)
(* are moved into an object from the resource file it streamed them from.  *)
(***************************************************************************)
EXTENDS TypeTrees

\* A tree from rows <<level, type, name, flags, meta>>; the names that are
\* not in the common table go into the tree's own buffer.
TreeFrom(rows) ==
  LET Local(names, x) == IF x \in Range(CommonStrings) \cup Range(names) THEN names ELSE Append(names, x)
      own == FoldLeft(LAMBDA names, row : Local(Local(names, row[2]), row[3]), <<>>, rows)
      Off(x) == IF x \in Range(own) THEN 2 * ((CHOOSE i \in DOMAIN own : own[i] = x) - 1)
                ELSE BuiltIn + CHOOSE i \in DOMAIN CommonStrings : CommonStrings[i] = x
  IN [Nodes |-> [i \in DOMAIN rows |->
        [Version |-> "1", Level |-> rows[i][1], TypeFlags |-> rows[i][4], TypeStrOff |-> Off(rows[i][2]), NameStrOff |-> Off(rows[i][3]),
         ByteSize |-> "-1", Index |-> ToString(i), MetaFlags |-> rows[i][5], RefTypeHash |-> "0"]] \o <<>>, \* (a tuple, applied often)
      StringBuffer |-> FlattenSeq([i \in DOMAIN own |-> <<[C |-> own[i]], [C |-> "NUL"]>>])]

(***************************************************************************)
(* Encoding by hand: pieces <<what, value>>.                               *)
(***************************************************************************)
Encoder(pieces) ==
  LET Put(out, piece) ==
        CASE piece[1] = "text"  -> Align4(out \o WriteCounted(piece[2]))
          [] piece[1] = "i32"   -> out \o WriteWord(piece[2], 4)
          [] piece[1] = "i64"   -> out \o WriteWord(piece[2], 8)
          [] piece[1] = "byte"  -> out \o WriteWord(piece[2], 1)
          [] piece[1] = "bytes" -> out \o ToBytes(piece[2])
          [] piece[1] = "align" -> Align4(out)
  IN FoldLeft(Put, <<>>, pieces)
Int32s(numbers) == [i \in DOMAIN numbers |-> <<"i32", numbers[i]>>]
Flags8(flags) == [i \in DOMAIN flags |-> <<"byte", flags[i]>>]
Alignment4 == << <<"align", 0>> >>
ReadAlignedString(f, p) == AlignReader4(f, ReadCounted(f, p, "text"))
TextRows(level, name) ==
  <<<<level, "string", name, 0, 0>>, <<level + 1, "Array", "Array", 1, 1>>, <<level + 2, "int", "size", 0, 0>>, <<level + 2, "char", "data", 0, 0>>>>
IntRows(level, names) == [i \in DOMAIN names |-> <<level, "int", names[i], 0, 0>>]
Child(value, name) == FieldsNamed(value.Children, name)[1]
NumberOf(value, name) == Child(value, name).Value.v[1]
TextOf(value, name) == Child(value, name).Value.v

\* A text asset: its name and its text, which the reader takes by hand too.
unity2022TextAssetTypeTree == TreeFrom(<<<<0, "TextAsset", "Base", 0, 0>>>> \o TextRows(1, "m_Name") \o TextRows(1, "m_Script"))
encodeTextAssetData(name, script) == Encoder(<< <<"text", name>>, <<"i32", Len(script)>>, <<"bytes", script>>, <<"align", 0>> >>)
GetTextAssetData(f) ==
  LET name == ReadAlignedString(f, 0)
      script == AlignReader4(f, ReadCounted(f, name.p, "text"))
  IN IF Len(f) < 8 THEN At("refused", 0, 0)
     ELSE IF name.st # "ok" THEN name
     ELSE IF script.st # "ok" THEN script
     ELSE IF script.p # Len(f) THEN At("refused", 0, 0)
     ELSE [script EXCEPT !.v = [Name |-> name.v.v, Script |-> @.v]]

(***************************************************************************)
(* Textures, stored with the last row first.                               *)
(***************************************************************************)
TextureFormatRGBA32 == 4
FlipRGBA32Rows(width, height, rgba) ==
  LET stride == 4 * width
  IN IF width <= 0 \/ height <= 0 \/ Len(rgba) # stride * height THEN rgba
     ELSE [i \in DOMAIN rgba |-> rgba[(height - 1 - ((i - 1) \div stride)) * stride + ((i - 1) % stride) + 1]]
encodeTexture2DData(name, width, height, rgba) ==
  IF width <= 0 \/ height <= 0 \/ Len(rgba) # 4 * width * height THEN <<Refusal>>
  ELSE Encoder(
    << <<"text", name>>, <<"i32", TextureFormatRGBA32>> >> \o Flags8(<<0, 0>>) \o Alignment4
      \o Int32s(<<width, height, Len(rgba), 0, TextureFormatRGBA32, 1>>) \o Flags8(<<1, 0, 0>>) \o Alignment4
      \o << <<"text", <<>> >> >> \o Flags8(<<0>>) \o Alignment4 \o Int32s(<<0, 1, 2>> \o <<1, 0, 0, 0, 0, 0>> \o <<0, 1>> \o <<0>>) \o Alignment4
      \o << <<"i32", Len(rgba)>>, <<"bytes", rgba>>, <<"align", 0>>, <<"i64", 0>>, <<"i32", 0>>, <<"text", <<>> >> >>)

\* The rows both trees of a texture have, and those in which they differ.
TextureSettings == <<<<1, "GLTextureSettings", "m_TextureSettings", 0, 0>>>>
  \o IntRows(2, <<"m_FilterMode", "m_Aniso">>) \o <<<<2, "float", "m_MipBias", 0, 0>>>> \o IntRows(2, <<"m_WrapU", "m_WrapV", "m_WrapW">>)
TextureTree(Name(_), complete, priority, platform, image, Path(_)) ==
  TreeFrom(<<<<0, "Texture2D", "Base", 0, 0>>>> \o Name("m_Name")
    \o <<<<1, "int", "m_ForcedFallbackFormat", 0, 0>>, <<1, "bool", "m_DownscaleFallback", 0, 0>>, <<1, "bool", "m_IsAlphaChannelOptional", 0, 1>>>>
    \o IntRows(1, <<"m_Width", "m_Height">>) \o <<<<1, complete, "m_CompleteImageSize", 0, 0>>>> \o IntRows(1, <<"m_MipsStripped", "m_TextureFormat", "m_MipCount">>)
    \o <<<<1, "bool", "m_IsReadable", 0, 0>>, <<1, "bool", "m_IsPreProcessed", 0, 0>>, <<1, "bool", "m_IgnoreMipmapLimit", 0, 1>>>>
    \o Name("m_MipmapLimitGroupName") \o <<<<1, "bool", "m_StreamingMipmaps", 0, 1>>, <<1, "int", "m_StreamingMipmapsPriority", 0, priority>>>>
    \o IntRows(1, <<"m_ImageCount", "m_TextureDimension">>) \o TextureSettings \o IntRows(1, <<"m_LightmapFormat", "m_ColorSpace">>)
    \o platform \o image
    \o <<<<1, "StreamingInfo", "m_StreamData", 0, 0>>, <<2, "unsigned long long", "offset", 0, 0>>, <<2, "unsigned int", "size", 0, 0>>>> \o Path("path"))
SizedBytes(level) == <<<<level, "int", "size", 0, 0>>, <<level, "UInt8", "data", 0, 0>>>>
unity2022Texture2DTypeTree ==
  TextureTree(LAMBDA n : TextRows(1, n), "unsigned int", 1,
    <<<<1, "vector", "m_PlatformBlob", 0, 0>>, <<2, "Array", "Array", 1, 1>>>> \o SizedBytes(3),
    <<<<1, "TypelessData", "image data", 1, 1>>>> \o SizedBytes(2), LAMBDA n : TextRows(2, n))
legacyTexture2DTreeSignature ==
  TextureTree(LAMBDA n : <<<<1, "string", n, 0, 1>>>>, "int", 0,
    <<<<1, "TypelessData", "m_PlatformBlob", 0, 1>>>>, <<<<1, "TypelessData", "image data", 0, 1>>>>, LAMBDA n : <<<<2, "string", n, 0, 1>>>>)
upgradeZeroHashNativeTypeTree(tree, hash) == IF hash = "0" /\ tree = legacyTexture2DTreeSignature THEN unity2022Texture2DTypeTree ELSE tree
\* What a reader takes of a texture; the programs that show it turn it over.
readStreamingInfo(stream) ==
  LET First(names) == SelectSeq(stream.Children, LAMBDA c : c.Name \in names)
      Got(names, otherwise) == IF First(names) = <<>> THEN otherwise ELSE First(names)[1].Value.v
  IN [Offset |-> Got({"offset", "m_Offset"}, <<0>>)[1], Size |-> Got({"size", "m_Size"}, <<0>>)[1], Path |-> Got({"path", "m_Source"}, <<>>)]
TextureIn(value) ==
  [Name |-> TextOf(value, "m_Name"), Width |-> NumberOf(value, "m_Width"), Height |-> NumberOf(value, "m_Height"),
   TextureFormat |-> NumberOf(value, "m_TextureFormat"), MipCount |-> NumberOf(value, "m_MipCount"),
   ImageData |-> TextOf(value, "image data"), StreamData |-> readStreamingInfo(Child(value, "m_StreamData"))]
GetTexture2DData(tree, f) ==
  LET r == ReadAssetValue(tree, f)
      texture == TextureIn(r.v)
  IN IF r.st # "ok" THEN r
     ELSE IF texture.Width <= 0 \/ texture.Height <= 0 \/ texture.ImageData = <<>> THEN At("refused", 0, 0)
     ELSE [r EXCEPT !.v = texture]
Shown(texture) == [texture EXCEPT !.ImageData = FlipRGBA32Rows(texture.Width, texture.Height, @)]

(***************************************************************************)
(* The container: the names a bundle's assets are loaded by.               *)
(***************************************************************************)
PointerRows(level, name, w) ==
  <<<<level, "PPtr<Object>", name, 0, 0>>, <<level + 1, "int", "m_FileID", 0, 0>>, <<level + 1, IF w = 8 THEN "SInt64" ELSE "int", "m_PathID", 0, 0>>>>
AssetInfoRows(level, name, w) ==
  <<<<level, "AssetInfo", name, 0, 0>>>> \o IntRows(level + 1, <<"preloadIndex", "preloadSize">>) \o PointerRows(level + 1, "asset", w)
ArrayRows(level, type, name, meta, element) ==
  <<<<level, type, name, 0, 0>>, <<level + 1, "Array", "Array", 1, meta>>, <<level + 2, "int", "size", 0, 0>>>> \o element
AssetBundleTree(w) ==
  TreeFrom(<<<<0, "AssetBundle", "Base", 0, 0>>>> \o TextRows(1, "m_Name")
    \o ArrayRows(1, "vector", "m_PreloadTable", 1, PointerRows(3, "data", w))
    \o ArrayRows(1, "map", "m_Container", 0, <<<<3, "pair", "data", 0, 0>>>> \o TextRows(4, "first") \o AssetInfoRows(4, "second", w))
    \o AssetInfoRows(1, "m_MainAsset", w) \o <<<<1, "unsigned int", "m_RuntimeCompatibility", 0, 0>>>> \o TextRows(1, "m_AssetBundleName")
    \o ArrayRows(1, "vector", "m_Dependencies", 1, TextRows(3, "data"))
    \o <<<<1, "bool", "m_IsStreamedSceneAssetBundle", 0, 1>>>> \o IntRows(1, <<"m_ExplicitDataLayout", "m_PathFlags">>)
    \o ArrayRows(1, "map", "m_SceneHashes", 0, <<<<3, "pair", "data", 0, 0>>>> \o TextRows(4, "first") \o TextRows(4, "second")))
unity2022AssetBundleTypeTree == AssetBundleTree(8)

nonEmptyLoadName(loadName, name) == IF loadName = <<>> THEN name ELSE loadName
ContainerPieces(objects, bundleName, id) ==
  << <<"text", <<1>> >>, <<"i32", Len(objects)>> >> \o FlattenSeq([i \in DOMAIN objects |-> << <<"i32", 0>>, <<id, objects[i].PathID>> >>])
    \o << <<"i32", Len(objects)>> >>
    \o FlattenSeq([i \in DOMAIN objects |->
         << <<"text", nonEmptyLoadName(objects[i].LoadName, objects[i].Name)>>, <<"i32", i - 1>>, <<"i32", 1>>, <<"i32", 0>>, <<id, objects[i].PathID>> >>])
    \o Int32s(<<0, 0, 0>>) \o << <<id, 0>>, <<"i32", 1>>, <<"text", bundleName>>, <<"i32", 0>>, <<"byte", 0>>, <<"align", 0>> >> \o Int32s(<<0, 7, 0>>)
encodeAssetBundleObject(objects, bundleName) == Encoder(ContainerPieces(objects, bundleName, "i64"))

serializedPPtrSize(version) == IF version >= 14 THEN 12 ELSE 8
readSerializedPPtr(f, p, version) ==
  LET file == ReadWord(f, p, 4)
      path == ReadWord(f, file.p, serializedPPtrSize(version) - 4)
  IN IF file.st # "ok" THEN file ELSE IF path.st # "ok" THEN path ELSE [path EXCEPT !.v = [FileID |-> file.v, PathID |-> @]]
\* So many things from s on, each read where the one before it ends.
Repeatedly(s, n, ReadOne(_)) ==
  FoldLeft(LAMBDA r, i : IF r.st # "ok" THEN r ELSE LET one == ReadOne(r.p) IN [one EXCEPT !.v = Append(r.v, @)], [s EXCEPT !.v = <<>>], [i \in 1 .. n |-> i])
\* A count of things of at least so many bytes.
ReadMany(f, p, least, ReadOne(_)) ==
  LET count == ReadWord(f, p, 4)
  IN IF count.st # "ok" THEN count
     ELSE IF count.v < 0 \/ count.v > (Len(f) - count.p) \div least THEN At("refused", p, 0)
     ELSE Repeatedly(count, count.v, ReadOne)
GetAssetBundleContainerEntries(f, version) ==
  LET name == ReadAlignedString(f, 0)
      preload == ReadMany(f, name.p, serializedPPtrSize(version), LAMBDA p : readSerializedPPtr(f, p, version))
      ReadEntry(p) ==
        LET load  == ReadAlignedString(f, p)
            index == ReadWord(f, load.p, 4)
            size  == ReadWord(f, index.p, 4)
            asset == readSerializedPPtr(f, size.p, version)
        IN IF load.st # "ok" THEN load ELSE IF index.st # "ok" THEN index ELSE IF size.st # "ok" THEN size
           ELSE IF index.v < 0 \/ size.v < 0 \/ index.v + size.v > Len(preload.v) THEN At("refused", p, 0)
           ELSE IF asset.st # "ok" THEN asset
           ELSE [asset EXCEPT !.v = [Name |-> load.v.v, PreloadIndex |-> index.v, PreloadSize |-> size.v] @@ @]
  IN IF name.st # "ok" THEN name ELSE IF preload.st # "ok" THEN preload
     ELSE ReadMany(f, preload.p, 12 + serializedPPtrSize(version), ReadEntry)
\* The name by path id; the last of two entries for one asset counts.
GetAssetBundleContainerMap(entries) ==
  FoldLeft(LAMBDA map, e : IF e.FileID = 0 /\ e.PathID # 0 THEN (e.PathID :> e.Name) @@ map ELSE map, <<>>, entries)

(***************************************************************************)
(* References to objects, moved to where the objects are now; a null one   *)
(* stays null, and none may become null.                                   *)
(***************************************************************************)
isPPtrTypeTreeValue(value) == value.TypeName \in {"PPtr<Object>", "PPtr<Mesh>"}
RECURSIVE RewritePPtrReferences(_, _)
\* remap gives the [FileID, PathID] of another; [ok, v] is the value rewritten.
RewritePPtrReferences(value, remap) ==
  LET file == FieldsNamed(value.Children, "m_FileID")
      path == FieldsNamed(value.Children, "m_PathID")
      old  == [FileID |-> file[1].Value.v[1], PathID |-> path[1].Value.v[1]]
      new  == IF old.PathID = 0 THEN [FileID |-> 0, PathID |-> 0] ELSE IF old \in DOMAIN remap THEN remap[old] ELSE old
      Moved(c) == IF c.Name = "m_FileID" THEN [c EXCEPT !.Value = Holding("int", <<new.FileID>>)]
                   ELSE IF c.Name = "m_PathID" THEN [c EXCEPT !.Value = Holding("int", <<new.PathID>>)] ELSE c
      inner == [i \in DOMAIN value.Children |-> RewritePPtrReferences(value.Children[i], remap)]
  IN IF isPPtrTypeTreeValue(value)
     THEN IF file = <<>> \/ path = <<>> THEN [ok |-> FALSE, v |-> value]
          ELSE [ok |-> old.PathID # 0 => new.PathID # 0, v |-> [value EXCEPT !.Children = [i \in DOMAIN @ |-> Moved(@[i])]]]
     ELSE [ok |-> \A i \in DOMAIN inner : inner[i].ok, v |-> [value EXCEPT !.Children = [i \in DOMAIN @ |-> inner[i].v]]]

(***************************************************************************)
(* Payloads in resource files, moved into the object.  A path is numbers,  *)
(* of which Slash separates directories and Archive begins a bundle's own. *)
(***************************************************************************)
Slash == 0
Archive == 3
normalizeStreamDataPath(path) ==
  LET bare  == IF Len(path) >= 2 /\ SubSeq(path, 1, 2) = <<Archive, Slash>> THEN SubSeq(path, 3, Len(path)) ELSE path
      named == {i \in DOMAIN bare : bare[i] # Slash}
      last  == Max(named)
      first == CHOOSE i \in 1 .. last : (\A j \in i .. last : bare[j] # Slash) /\ (i = 1 \/ bare[i - 1] = Slash)
  IN IF named = {} THEN <<>> ELSE SubSeq(bare, first, last)
clearStreamingInfo(stream) ==
  LET Cleared(c) == CASE c.Name \in {"offset", "m_Offset", "size", "m_Size"} -> [c EXCEPT !.Value = Holding("int", <<0>>)]
                      [] c.Name \in {"path", "m_Source"} -> [c EXCEPT !.Value = Holding("text", <<>>)] [] OTHER -> c
  IN [stream EXCEPT !.Children = [i \in DOMAIN @ |-> Cleared(@[i])]]

\* A resolver: the files a bundle has, by name; [ok, v].
resolveStreamingPayload(info, files) ==
  LET name == normalizeStreamDataPath(info.Path)
  IN IF info.Size = 0 THEN [ok |-> TRUE, v |-> <<>>]
     ELSE IF name = <<>> \/ name \notin DOMAIN files THEN [ok |-> FALSE]
     ELSE IF info.Offset + info.Size > Len(files[name]) THEN [ok |-> FALSE]
     ELSE [ok |-> TRUE, v |-> SubSeq(files[name], info.Offset + 1, info.Offset + info.Size)]
Elsewhere(info) == info.Offset # 0 \/ info.Size # 0 \/ info.Path # <<>>
OnChild(value, name, Op(_)) == [value EXCEPT !.Children = [i \in DOMAIN @ |-> IF @[i].Name = name THEN Op(@[i]) ELSE @[i]]]
Filled(value, name, bytes) == OnChild(value, name, LAMBDA c : [c EXCEPT !.Value = Holding("bytes", bytes), !.Children = <<>>])
Numbered(value, name, n) == OnChild(value, name, LAMBDA c : [c EXCEPT !.Value = Holding("int", <<n>>)])
\* The value a tree describes, and the bytes behind it.
ReadAssetValuePrefix(tree, data) ==
  LET r == ReadTypeTreeValue(tree, data, 0, 1) IN IF r.st = "ok" /\ SkipSubtree(tree, 1) <= Len(tree.Nodes) THEN At("refused", 0, 0) ELSE r
Refused == <<Refusal>>

\* Each gives the object's bytes with its payload in them.  `image` is a
\* texture's field; what a mesh streams are its vertices.
InlineTextureStreamData(tree, data, files) ==
  LET r == ReadAssetValue(tree, data)
      streams == FieldsNamed(r.v.Children, "m_StreamData")
      info == readStreamingInfo(streams[1])
      image == IF FieldsNamed(r.v.Children, "image data") # <<>> THEN "image data" ELSE "m_ImageData"
      images == FieldsNamed(r.v.Children, image)
      payload == IF info.Size > 0 THEN resolveStreamingPayload(info, files) ELSE [ok |-> TRUE, v |-> images[1].Value.v]
  IN IF r.st # "ok" THEN Refused
     ELSE IF streams = <<>> THEN data
     ELSE IF images = <<>> THEN Refused
     ELSE IF images[1].Value.is # "bytes" \/ (info.Size > 0 /\ images[1].Value.v # <<>>) \/ ~payload.ok THEN Refused
     ELSE IF ~Elsewhere(info) THEN data
     ELSE EncodeAssetValue(tree, OnChild(Numbered(Filled(r.v, image, payload.v), "m_CompleteImageSize", Len(payload.v)), "m_StreamData", clearStreamingInfo))
InlineMeshStreamData(tree, data, files) ==
  LET r == ReadAssetValue(tree, data)
      streams == FieldsNamed(r.v.Children, "m_StreamData")
      info == readStreamingInfo(streams[1])
      vertices == FlattenSeq([i \in DOMAIN r.v.Children |-> IF r.v.Children[i].Name = "m_VertexData" THEN FieldsNamed(r.v.Children[i].Children, "m_DataSize") ELSE <<>>])
      payload == resolveStreamingPayload(info, files)
      moved == IF info.Size = 0 THEN r.v ELSE OnChild(r.v, "m_VertexData", LAMBDA c : Filled(c, "m_DataSize", payload.v))
  IN IF r.st # "ok" THEN Refused
     ELSE IF streams = <<>> THEN data
     ELSE IF ~Elsewhere(info) THEN data
     ELSE IF vertices = <<>> THEN Refused
     ELSE IF vertices[1].Value.is # "bytes" \/ (info.Size > 0 /\ vertices[1].Value.v # <<>>) \/ ~payload.ok THEN Refused
     ELSE EncodeAssetValue(tree, OnChild(moved, "m_StreamData", clearStreamingInfo))
\* The sound behind a clip is as long as it says, but for a few zeroes.
validateInlineAudioPayload(trailing, size) ==
  /\ size <= Len(trailing) /\ Len(trailing) - size <= 7
  /\ \A i \in size + 1 .. Len(trailing) : trailing[i].k = "b" /\ trailing[i].v = 0
InlineAudioClipStreamData(tree, data, files) ==
  LET r == ReadAssetValuePrefix(tree, data)
      resources == FieldsNamed(r.v.Children, "m_Resource")
      info == readStreamingInfo(resources[1])
      trailing == SubSeq(data, r.p + 1, Len(data))
      payload == resolveStreamingPayload(info, files)
      Here(resource) == LET cleared == clearStreamingInfo(resource) IN Numbered(Numbered(cleared, "size", Len(payload.v)), "m_Size", Len(payload.v))
  IN IF r.st # "ok" THEN Refused
     ELSE IF resources = <<>> THEN (IF trailing = <<>> THEN data ELSE Refused)
     ELSE IF info.Path = <<>> THEN (IF validateInlineAudioPayload(trailing, info.Size) THEN data ELSE Refused)
     ELSE IF trailing # <<>> \/ ~payload.ok THEN Refused
     ELSE LET encoded == EncodeAssetValue(tree, OnChild(r.v, "m_Resource", Here)) IN IF GivesUp(encoded) THEN encoded ELSE encoded \o ToBytes(payload.v)

\* An object of its own: its value, and the sound behind it if it is a clip.
DecodeValueAndTrailingData(audio, tree, data) ==
  LET r == ReadAssetValuePrefix(tree, data)
      trailing == SubSeq(data, r.p + 1, Len(data))
      resources == FieldsNamed(r.v.Children, "m_Resource")
      info == readStreamingInfo(resources[1])
      Result(sound) == [r EXCEPT !.p = Len(data), !.v = [Value |-> r.v, Trailing |-> trailing, AudioData |-> sound]]
  IN IF r.st # "ok" THEN r
     ELSE IF trailing = <<>> THEN Result(<<>>)
     ELSE IF ~audio \/ resources = <<>> THEN At("refused", 0, 0)
     ELSE IF info.Path # <<>> \/ ~validateInlineAudioPayload(trailing, info.Size) THEN At("refused", 0, 0)
     ELSE Result(SubSeq(trailing, 1, info.Size))
EncodeValueWithTrailingData(audio, tree, value, trailing) ==
  LET encoded == EncodeAssetValue(tree, value)
      resources == FieldsNamed(value.Children, "m_Resource")
      info == readStreamingInfo(resources[1])
  IN IF GivesUp(encoded) \/ trailing = <<>> THEN encoded
     ELSE IF ~audio \/ resources = <<>> THEN Refused
     ELSE IF info.Path # <<>> \/ info.Offset # 0 \/ ~validateInlineAudioPayload(trailing, info.Size) THEN Refused
     ELSE encoded \o trailing
=============================================================================
