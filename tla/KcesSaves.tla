---------------------------- MODULE KcesSaves ----------------------------
(***************************************************************************)
(* What KCES keeps in virtual directories (the saves of system.dat, a      *)
(* bridge session, a character preset), the shared preset with its         *)
(* thumbnails, and the map of the names an export gives to files.          *)
(***************************************************************************)
EXTENDS KcesContainers, KcesPreset

\* What a table leaves to the file kept in it, and a save as a table.
Outside(ct, format) == [Format |-> format, ContainerVersion |-> ct.Version, ContainerFraming |-> ct.Framing, Directories |-> ct.Directories]
Inside(value, files) == AddFiles(NewContentTable(value.ContainerVersion, value.ContainerFraming, value.Directories), files)
Others(ct, named) == [path \in DOMAIN ct.Files \ named |-> GetFileData(ct, path)]
SettledOutside(value, format, files) ==
  [value EXCEPT !.Format = format, !.Directories = Versioned(@, files, value.ContainerVersion)]
FormatLegal(value, format) == value.Format \in {"", format}

(***************************************************************************)
(* system.dat: what a file holds follows from its path.                    *)
(***************************************************************************)
KCESSystemDataFormat == "kces-system-data"
EditDataCodecs ==
  [preset_panel_names |-> [read |-> DecodePresetPanelNameSaveData, write |-> EncodePresetPanelNameSaveData],
   palette_color |-> [read |-> DecodePaletteColorSaveData, write |-> EncodePaletteColorSaveData],
   gradation_points |-> [read |-> DecodeGradPointsData, write |-> EncodeGradPointsData],
   kces2_gradation_points |-> [read |-> DecodeKCES2GradPointsData, write |-> KCES2GradPointsData],
   item_favourite_state_setting |-> [read |-> DecodeItemFavouriteStates, write |-> ItemFavouriteStates],
   moveable_panel |-> [read |-> DecodeMoveablePanelSaveData, write |-> EncodeMoveablePanelSaveData],
   color_preset_order_list |-> [read |-> DecodeColorPresetOrderList, write |-> EncodeColorPresetOrderList],
   color_preset |-> [read |-> decodeColorPreset, write |-> EncodeColorPreset]]
Unrecognized == ""

\* The decimal suffixes the instances use.
Decimals == {"0", "7", "12"}
hasNonNegativeDecimalSuffix(value, prefix) == \E digits \in Decimals : value = prefix \o digits
KCESEditDataKindForPath(path) ==
  CASE path = <<"EditData", "PresetPanelNameSaveData::SceneEdit::savedata">> -> "preset_panel_names"
    [] path = <<"EditData", "MoveablePanelManager::SceneEdit::savedata">> -> "moveable_panel"
    [] path = <<"EditData", "KCES2Edit::ItemFavouriteStateSetting">> -> "item_favourite_state_setting"
    [] path[1] # "EditData" \/ Len(path) = 1 -> Unrecognized
    [] path[2] = "color_preset" /\ Len(path) > 2 ->
         IF Last(path) = "preset_orderlist" THEN "color_preset_order_list" ELSE IF Len(path) > 3 THEN "color_preset" ELSE Unrecognized
    [] Len(path) = 2 /\ hasNonNegativeDecimalSuffix(path[2], "PaletteColorSave") -> "palette_color"
    [] Len(path) = 2 /\ hasNonNegativeDecimalSuffix(path[2], "GradSv") -> "gradation_points"
    [] Len(path) = 2 /\ hasNonNegativeDecimalSuffix(path[2], "KCES2GradSv") -> "kces2_gradation_points"
    [] OTHER -> Unrecognized
\* An entry is its path, its kind, the root of that kind, and the kinds whose
\* roots are set as well.
DecodeKCESSystemData(f) ==
  LET ct    == ReadContentTable(f)
      typed == {path \in DOMAIN ct.Files : KCESEditDataKindForPath(path) # Unrecognized}
      Entry(path) ==
        LET kind == KCESEditDataKindForPath(path)
            root == Read(EditDataCodecs[kind].read, GetFileData(ct, path))
        IN [ok |-> root.st = "ok", entry |-> [Path |-> path, Kind |-> kind, Root |-> root.doc, Also |-> {}]]
      entries == [path \in typed |-> Entry(path)]
  IN IF ~ct.ok THEN Unread
     ELSE IF \E path \in typed : ~entries[path].ok THEN Unread
     ELSE Found(f, Outside(ct, KCESSystemDataFormat) @@
                   [EditData |-> Listed(typed, LAMBDA path : entries[path].entry), ExtraFiles |-> Others(ct, typed)])

KindOf(entry) == IF entry.Kind = "" THEN KCESEditDataKindForPath(entry.Path) ELSE entry.Kind
EntryPayload(entry) ==
  LET kind == KindOf(entry)
  IN IF kind = "color_preset" /\ ~validateColorPreset(entry.Root) THEN <<Refusal>>
     ELSE Write(EditDataCodecs[kind].write, IF kind = "color_preset" THEN Sized(entry.Root) ELSE entry.Root)
validateEditDataUnion(entry) == entry.Also \subseteq {KindOf(entry)}
EntryLegal(entry) ==
  /\ canonicalVirtualPath(entry.Path)
  /\ KCESEditDataKindForPath(entry.Path) \notin {Unrecognized} /\ KindOf(entry) = KCESEditDataKindForPath(entry.Path)
  /\ validateEditDataUnion(entry)
SystemDataLegal(value) ==
  /\ FormatLegal(value, KCESSystemDataFormat)
  /\ \A i \in DOMAIN value.EditData :
       /\ EntryLegal(value.EditData[i])
       /\ \A j \in 1 .. i - 1 : value.EditData[j].Path # value.EditData[i].Path
  /\ \A path \in DOMAIN value.ExtraFiles : canonicalVirtualPath(path) /\ KCESEditDataKindForPath(path) = Unrecognized
EncodeKCESSystemData(value) ==
  IF ~SystemDataLegal(value) THEN <<Refusal>>
  ELSE LET payloads == FoldLeft(LAMBDA files, entry : (entry.Path :> EntryPayload(entry)) @@ files, value.ExtraFiles, value.EditData)
       IN IF \E path \in DOMAIN payloads : GivesUp(payloads[path]) THEN <<Refusal>> ELSE WriteContentTable(Inside(value, payloads))
\* The entries come back in the order of their paths.
SettledSystemData(value) ==
  LET paths == {entry.Path : entry \in Range(value.EditData)}
      At(path) == CHOOSE entry \in Range(value.EditData) : entry.Path = path
      Typed(entry) == [entry EXCEPT !.Kind = KindOf(entry), !.Also = {}, !.Root = IF KindOf(entry) = "color_preset" THEN SettledColorPreset(@) ELSE @]
  IN [SettledOutside(value, KCESSystemDataFormat, paths \cup DOMAIN value.ExtraFiles) EXCEPT
        !.EditData = Listed(paths, LAMBDA path : Typed(At(path)))]

(***************************************************************************)
(* A bridge session: what it hides, and its name, which is kept twice.     *)
(***************************************************************************)
KCESBridgeSessionFormat == "kces-bridge-session"
SessionDataFile == <<"session_data">>
SessionIDFile   == <<"session_id">>
Reserved == {SessionDataFile, SessionIDFile}
SessionData == <<Lit("#array", 3), Int32("Version"), Get("str", "SessionID"), ListMin("HideMenuFileIDs", 1, <<Get("u64", "ID")>>)>>
NameText(text) == IF text = "" THEN <<>> ELSE <<Tok("name", text)>>
IsName(bytes, text) == [i \in DOMAIN bytes |-> bytes[i].k] = [i \in DOMAIN NameText(text) |-> "name"] /\ bytes = NameText(text)

DecodeKCESBridgeSession(f) ==
  LET ct   == ReadContentTable(f)
      data == Read(SessionData \o <<End>>, GetFileData(ct, SessionDataFile))
  IN IF ~ct.ok THEN Unread
     ELSE IF Reserved \subseteq DOMAIN ct.Files /\ data.st = "ok" /\ IsName(GetFileData(ct, SessionIDFile), data.doc.SessionID)
          THEN Found(f, Outside(ct, KCESBridgeSessionFormat) @@ [SessionData |-> data.doc, ExtraFiles |-> Others(ct, Reserved)])
          ELSE Unread
EncodeKCESBridgeSession(value) ==
  IF FormatLegal(value, KCESBridgeSessionFormat) /\ DOMAIN value.ExtraFiles \cap Reserved = {}
  THEN WriteContentTable(Inside(value, (SessionDataFile :> Write(SessionData, value.SessionData))
                                       @@ (SessionIDFile :> NameText(value.SessionData.SessionID)) @@ value.ExtraFiles))
  ELSE <<Refusal>>
SettledSession(value) == SettledOutside(value, KCESBridgeSessionFormat, Reserved \cup DOMAIN value.ExtraFiles)

(***************************************************************************)
(* A character preset: a thumbnail, the data of the maid as three blobs,   *)
(* any of which may be nil, and a map of names.  The document is the       *)
(* expanded one, the blobs decoded.                                        *)
(***************************************************************************)
KCESPresetFormat == "kces-virtual-directory-preset"
ThumbnailFile == <<"thumbnail">>
MaidDataFile  == <<"maiddata">>
MetaFile      == <<"meta">>
Blob(n, L) == Ref("#array", n, <<Frame("#array", L)>>)
KCESPresetCore(property, color, body) == Object("Core", <<Int32("Version"), Blob("PropData", property), Blob("ColorData", color), Blob("BodyData", body)>>)
ReadCore  == <<KCESPresetCore(Whole(DecodePropertyData), Whole(DecodeColorData), Whole(DecodeBodyData)), End>>
WriteCore == <<KCESPresetCore(EncodePropertyData, EncodeColorData, EncodeBodyData)>>
KCESPresetMeta == <<Object("Meta", <<Int32("Version"), Dict("Data", <<Get("str", "Key"), Str("Text")>>)>>)>>

DecodeKCESPreset(f) ==
  LET ct   == ReadContentTable(f)
      core == Read(ReadCore, GetFileData(ct, MaidDataFile))
      meta == IF MetaFile \in DOMAIN ct.Files THEN Read(KCESPresetMeta \o <<End>>, GetFileData(ct, MetaFile)) ELSE Read(<<>>, <<>>)
  IN IF ~ct.ok THEN Unread
     ELSE IF {ThumbnailFile, MaidDataFile} \subseteq DOMAIN ct.Files /\ core.st = "ok" /\ core.doc.Core # <<>> /\ meta.st = "ok"
          THEN Found(f, Outside(ct, KCESPresetFormat) @@
                        [Thumbnail |-> GetFileData(ct, ThumbnailFile), MaidData |-> core.doc.Core[1],
                         Meta |-> IF MetaFile \in DOMAIN ct.Files THEN meta.doc.Meta ELSE <<>>,
                         ExtraFiles |-> Others(ct, {ThumbnailFile, MaidDataFile, MetaFile})])
          ELSE Unread
CollapseExpandedKCESPreset(value) == Write(WriteCore, [Core |-> <<value.MaidData>>])
EncodeKCESPreset(value) ==
  LET maidData == CollapseExpandedKCESPreset(value)
      meta     == IF value.Meta = <<>> THEN <<>> ELSE MetaFile :> Write(KCESPresetMeta, [Meta |-> value.Meta])
  IN IF /\ FormatLegal(value, KCESPresetFormat)
        /\ ~GivesUp(maidData)
        /\ DOMAIN value.ExtraFiles \cap {ThumbnailFile, MaidDataFile, MetaFile} = {}
     THEN WriteContentTable(Inside(value, (ThumbnailFile :> value.Thumbnail) @@ (MaidDataFile :> maidData) @@ meta @@ value.ExtraFiles))
     ELSE <<Refusal>>
SettledPreset(value) ==
  SettledOutside(value, KCESPresetFormat, {ThumbnailFile, MaidDataFile, MetaFile} \cup DOMAIN value.ExtraFiles)

(***************************************************************************)
(* A shared preset: the preset and the thumbnails one after another, then  *)
(* the metadata that say where each is, in JSON, then what a server added. *)
(* The members of the JSON are modelled in one order.                      *)
(***************************************************************************)
sharePresetHeaderSize == 4
sharePresetWireMetadata ==
  LET position == <<Lit("#array", 2), Num("#u32", "Offset"), Num("#u32", "Length")>>
      thumbnail == <<Lit("#array", 3), Num("#u32", "Offset"), Num("#u32", "Length"), Str("Extension")>>
  IN <<Str("Gender"), Int32("Height"), Int32("Weight"), Int32("Bust"), Int32("Waist"), Int32("Hip"),
       Dict("ItemMPNs", <<Get("str", "MPN"), List("Names", <<Str("Name")>>)>>), Dict("ParamMPNs", <<Get("str", "MPN"), Int32("Value")>>),
       Ref("#array", "Preset", position), Ref("#array", "Base", thumbnail), List("Additional", <<Ref("#array", "Position", thumbnail)>>),
       Arr("#map", "ExtraFields", <<Get("member", "Member"), Get("json", "Raw")>>)>>
KnownMembers == {"gender", "height", "weight", "bust", "weist", "hip", "itemMpns", "paramMpns", "presetDataPos", "thumBasePos", "thumAddPos"}
SummaryFields == {"Gender", "Height", "Weight", "Bust", "Waist", "Hip", "ItemMPNs", "ParamMPNs", "ExtraFields"}

\* The regions are contiguous, the first after the header, the last up to the metadata.
sharePresetReadRegion(regions, start) ==
  LET Behind(i) == IF i = 0 THEN sharePresetHeaderSize ELSE regions[i].Offset + regions[i].Length
  IN (\A i \in DOMAIN regions : regions[i].Offset = Behind(i - 1)) /\ Behind(Len(regions)) = start
ItemsOf(list) == IF list = <<>> THEN <<>> ELSE list[1].Items
DecodeSharePreset(f) ==
  LET start == f[3].v
      end   == start + f[4].v
      meta  == Read(sharePresetWireMetadata \o <<End>>, SubSeq(f, start + 1, end))
      extra == ItemsOf(meta.doc.Additional)
      regions == meta.doc.Preset \o meta.doc.Base \o [i \in DOMAIN extra |-> extra[i].Position[1]]
      Content(r) == Part(f, r.Offset, r.Length)
      Thumbnail(r) == [Extension |-> r.Extension, Data |-> Content(r)]
  IN IF Len(f) < sharePresetHeaderSize \/ f[1] # Tok("str", "SH_PRES") THEN Unread
     ELSE IF start < sharePresetHeaderSize \/ end > Len(f) \/ meta.st # "ok" THEN Unread
     ELSE IF meta.doc.Preset = <<>> \/ \E i \in DOMAIN extra : extra[i].Position = <<>> THEN Unread
     ELSE IF ~sharePresetReadRegion(regions, start) THEN Unread
     ELSE Found(f, Fields(meta.doc, SummaryFields) @@
                   [Signature |-> "SH_PRES", Version |-> f[2].v, PresetData |-> Content(regions[1]),
                    BaseThumbnail |-> InOpt(meta.doc.Base, Thumbnail),
                    AdditionalThumbnails |-> InOpt(meta.doc.Additional, LAMBDA list : [i \in DOMAIN extra |-> <<Thumbnail(extra[i].Position[1])>>]),
                    AppendedData |-> SubSeq(f, end + 1, Len(f))])
EncodeSharePreset(value) ==
  LET added   == IF value.AdditionalThumbnails = <<>> THEN <<>> ELSE value.AdditionalThumbnails[1]
      images  == value.BaseThumbnail \o [i \in DOMAIN added |-> added[i][1]]
      blobs   == <<value.PresetData>> \o [i \in DOMAIN images |-> images[i].Data]
      payload == FlattenSeq(blobs)
      \* where the region i is, as sharePresetAppendRegion finds it
      At(i)   == [Offset |-> sharePresetHeaderSize + Len(FlattenSeq(SubSeq(blobs, 1, i - 1))), Length |-> Len(blobs[i])]
      Image(i) == At(i + 1) @@ [Extension |-> images[i].Extension]
      Position(i) == [Position |-> <<Image(Len(value.BaseThumbnail) + i)>>]
      metadata == Write(sharePresetWireMetadata,
                    Fields(value, SummaryFields) @@
                    [Preset |-> <<At(1)>>, Base |-> [i \in DOMAIN value.BaseThumbnail |-> Image(i)],
                     Additional |-> InOpt(value.AdditionalThumbnails, LAMBDA list : [Items |-> [i \in DOMAIN added |-> Position(i)]])])
  IN IF value.Signature # "SH_PRES" \/ \E i \in DOMAIN added : added[i] = <<>> THEN <<Refusal>>
     ELSE IF \E i \in DOMAIN value.ExtraFields : value.ExtraFields[i].Member \in KnownMembers THEN <<Refusal>>
     ELSE <<Tok("str", "SH_PRES"), Tok("#u32", value.Version), Tok("#u32", sharePresetHeaderSize + Len(payload)), Tok("#u32", Len(metadata))>>
            \o payload \o metadata \o value.AppendedData
\* What follows the metadata is kept.
Appended(value, more) == [value EXCEPT !.AppendedData = Append(@, more)]

(***************************************************************************)
(* The map of the names of an export: the game's file, a dictionary in     *)
(* JSON inside JSON, and the one to edit.                                  *)
(***************************************************************************)
KCESExportNameMapFormat == "kces-export-name-map"
KCESExportNameMapVersion == 1000
kcesExportNameMapNative ==
  <<Must("#i32", "Version", KCESExportNameMapVersion), Frame("#array", <<List("Keys", <<Get("key", "Name")>>), List("Values", <<Get("str", "Name")>>)>>)>>
kcesExportNameMapEditing ==
  <<Must("str", "Format", KCESExportNameMapFormat), Must("#i32", "Version", KCESExportNameMapVersion),
    Ref("#array", "List", <<Arr("#array", "Entries", <<Get("key", "InternalName"), Get("str", "FileName")>>)>>)>>
canonicalKCESExportNameMap(value) ==
  /\ FormatLegal(value, KCESExportNameMapFormat) /\ value.Version = KCESExportNameMapVersion
  /\ \A i \in DOMAIN value.Entries : \A j \in 1 .. i - 1 : value.Entries[i].InternalName # value.Entries[j].InternalName
NameMap(entries) == [Format |-> KCESExportNameMapFormat, Version |-> KCESExportNameMapVersion, Entries |-> entries]
DecodeKCESExportNameMap(f) ==
  LET r      == Read(kcesExportNameMapNative \o <<End>>, f)
      keys   == ItemsOf(r.doc.Keys)
      values == ItemsOf(r.doc.Values)
      value  == NameMap([i \in DOMAIN keys |-> [InternalName |-> keys[i].Name, FileName |-> values[i].Name]])
  IN IF /\ r.st = "ok" /\ r.doc.Keys # <<>> /\ r.doc.Values # <<>> /\ Len(keys) = Len(values)
        /\ \A i \in DOMAIN keys : Nil \notin {keys[i].Name, values[i].Name}
     THEN IF canonicalKCESExportNameMap(value) THEN Found(f, value) ELSE Unread
     ELSE Unread
EncodeKCESExportNameMap(value) ==
  LET Column(n) == <<[Items |-> [i \in DOMAIN value.Entries |-> [Name |-> value.Entries[i][n]]]]>>
  IN IF canonicalKCESExportNameMap(value)
     THEN Write(kcesExportNameMapNative, [Version |-> value.Version, Keys |-> Column("InternalName"), Values |-> Column("FileName")])
     ELSE <<Refusal>>
DecodeKCESExportNameMapJSON(f) ==
  LET r     == Read(kcesExportNameMapEditing \o <<End>>, f)
      value == NameMap(r.doc.List[1].Entries)
  IN IF r.st = "ok" /\ r.doc.List # <<>>
     THEN IF canonicalKCESExportNameMap(value) THEN Found(f, value) ELSE Unread
     ELSE Unread
EncodeKCESExportNameMapJSON(value) ==
  IF canonicalKCESExportNameMap(value)
  THEN Write(kcesExportNameMapEditing, NameMap(value.Entries) @@ [List |-> <<[Entries |-> value.Entries]>>])
  ELSE <<Refusal>>
=============================================================================
