---------------------------- MODULE KcesSystem ----------------------------
(***************************************************************************)
(* The virtual files of a KCES system.dat: names of preset panels, palette *)
(* colours, gradations, panels that were moved, favourites, and the colour *)
(* presets with the order they are listed in.  All are MessagePack read    *)
(* and written by hand; a short one is stored as it is, a longer one in an *)
(* LZ4 frame, which is not modelled.                                       *)
(***************************************************************************)
EXTENDS Indexed

Int32Map(n, min) == DictMin(n, min, <<Get("key", "Key"), Int32("Value")>>)
StringList(n, min) == ListMin(n, min, <<Str("Text")>>)

DecodePresetPanelNameSaveData == <<Object("Data", <<StringList("BoxNameList", 1)>>), End>>
EncodePresetPanelNameSaveData == <<Object("Data", <<StringList("BoxNameList", 0)>>)>>
DecodePaletteColorSaveData == <<Object("Data", <<Int32Map("Color", 2), Int32("Index"), Int32("IsSave")>>), End>>
EncodePaletteColorSaveData == <<Object("Data", <<Int32Map("Color", 0), Int32("Index"), Int32("IsSave")>>)>>

readPositionList    == ListMin("MoveablePanelPosition", 3, <<Lit("#array", 2), Str("PanelName"), Lit("#array", 3), Vector("Position")>>)
readActiveStateList == ListMin("MoveablePanelActiveState", 3, <<Lit("#array", 2), Str("PanelName"), Bool("Active")>>)
DecodeMoveablePanelSaveData == <<Object("Data", <<readPositionList, readActiveStateList>>), End>>
EncodeMoveablePanelSaveData ==
  <<Object("Data", <<List("MoveablePanelPosition", <<Lit("#array", 2), Str("PanelName"), Lit("#array", 3), Vector("Position")>>),
                     List("MoveablePanelActiveState", <<Lit("#array", 2), Str("PanelName"), Bool("Active")>>)>>)>>

readColorMapList       == ListMin("GradPointParam", 1, <<Int32Map("Color", 2)>>)
readFloat32List(n)     == ListMin(n, 1, <<Single("Value")>>)
appendFloat32List(n)   == List(n, <<Single("Value")>>)
DecodeGradPointsData ==
  <<Object("Data", <<readColorMapList, readFloat32List("ControlPointPosValue"), readFloat32List("GradationPointPositionRates"), Int32("EditMPN"),
                     readFloat32List("PointRangeAfterRates"), readFloat32List("PointRangeBeforeRates"), Int32("IsSave")>>), End>>
EncodeGradPointsData ==
  <<Object("Data", <<List("GradPointParam", <<Int32Map("Color", 0)>>), appendFloat32List("ControlPointPosValue"),
                     appendFloat32List("GradationPointPositionRates"), Int32("EditMPN"), appendFloat32List("PointRangeAfterRates"),
                     appendFloat32List("PointRangeBeforeRates"), Int32("IsSave")>>)>>
\* The next game's, whose maps take the last value of a key.
KCES2GradPointsData ==
  <<Object("Data", <<List("GradPointParam", <<Dict("Color", <<Get("int", "Key"), Int32("Value")>>)>>), List("ControlPointPosValue", <<Single("Value")>>),
                     List("GradationPointPositionRates", <<Single("Value")>>), List("PointRangeAfterRates", <<Single("Value")>>),
                     List("PointRangeBeforeRates", <<Single("Value")>>), Int32("IsSave")>>)>>
DecodeKCES2GradPointsData == KCES2GradPointsData \o <<End>>
ItemFavouriteStates == <<List("States", <<Object("State", <<Str("ItemFileName"), Str("ItemFavouriteStateString")>>)>>)>>
DecodeItemFavouriteStates == ItemFavouriteStates \o <<End>>

readColorPresetOrderStringList == StringList("IDOrderList", 1)
DecodeColorPresetOrderList == <<Object("Data", <<Int32("Version"), readColorPresetOrderStringList>>), End>>
EncodeColorPresetOrderList == <<Object("Data", <<Int32("Version"), StringList("IDOrderList", 0)>>)>>

(***************************************************************************)
(* Colour presets.                                                         *)
(***************************************************************************)
ReadFreeColor(n)   == Object(n, <<Int32("Version"), Int32("Hue"), Int32("Saturation"), Int32("Brightness"), Int32("Contrast")>>)
AppendFree(n)      == Object(n, <<Int32("Version"), Int32("Hue"), Int32("Saturation"), Int32("Brightness"), Int32("Contrast")>>)
ReadLayer          == Object("Layer", <<Int32("Version"), ReadFreeColor("BaseColor"), ReadFreeColor("ShadowColor"), Int32("ShadowRate")>>)
AppendLayer        == Object("Layer", <<Int32("Version"), AppendFree("BaseColor"), AppendFree("ShadowColor"), Int32("ShadowRate")>>)
ReadControlSlider(n)   == Object(n, <<Single("Value")>>)
AppendControlSlider(n) == Object(n, <<Single("Value")>>)
ReadGradation ==
  Object("Gradation", <<Int32("Version"), ReadFreeColor("BaseColor"), ReadFreeColor("ShadowColor"), Int32("ShadowRate"),
                        ReadControlSlider("Position"), ReadControlSlider("RangeBefore"), ReadControlSlider("RangeAfter")>>)
AppendGradation ==
  Object("Gradation", <<Int32("Version"), AppendFree("BaseColor"), AppendFree("ShadowColor"), Int32("ShadowRate"),
                        AppendControlSlider("Position"), AppendControlSlider("RangeBefore"), AppendControlSlider("RangeAfter")>>)
ReadLayerList      == ListMin("ColorList", 1, <<ReadLayer>>)
ReadGradationList  == ListMin("GradationColorList", 1, <<ReadGradation>>)
ReadInt32Array(n)  == ListMin(n, 1, <<Int32("Value")>>)
ReadStringArray(n) == StringList(n, 1)
\* A pack of the game before it had names for the parts has nine fields.
ReadPack ==
  Ref("#array", "Pack",
      <<Peek("#array", {9}, <<Lit("#array", 9), Implied("LegacyMPNNamesOmitted", 1)>>,
                            <<Lit("#array", 10), Implied("LegacyMPNNamesOmitted", 0)>>),
        Int32("Version"), ReadInt32Array("MPNs"), Str("LayerName"), Str("ViewName"), Int32("Type"),
        ReadLayerList, ReadGradationList, Single("Alpha"), Bool("AllowedMPNOverride"),
        If("LegacyMPNNamesOmitted", Is(0), <<ReadStringArray("MPNNames")>>)>>)
AppendPack ==
  Ref("#array", "Pack",
      <<If("LegacyMPNNamesOmitted", Is(1), <<Implied("MPNNames", <<>>), Lit("#array", 9)>>),
        If("LegacyMPNNamesOmitted", Is(0), <<Lit("#array", 10)>>),
        Int32("Version"), List("MPNs", <<Int32("Value")>>), Str("LayerName"), Str("ViewName"), Int32("Type"),
        List("ColorList", <<AppendLayer>>), List("GradationColorList", <<AppendGradation>>), Single("Alpha"), Bool("AllowedMPNOverride"),
        If("LegacyMPNNamesOmitted", Is(0), <<StringList("MPNNames", 0)>>)>>)
ReadPackList  == ListMin("ColorPackList", 1, <<ReadPack>>)
ReadStringMap == DictMin("MetaTexts", 2, <<Get("key", "Key"), Str("Text")>>)

PresetWidths == {6, 7, 11}
decodeColorPreset ==
  <<Ref("#array", "Preset",
        <<Num("#array", "IndexedArrayWidth"), Check("IndexedArrayWidth", {<<w, w>> : w \in PresetWidths}),
          If("IndexedArrayWidth", Is(6), <<Implied("LegacyInstanceGUIDOmitted", 1)>>), If("IndexedArrayWidth", AtLeast(7), <<Implied("LegacyInstanceGUIDOmitted", 0)>>),
          Int32("Version"), Str("ID"), Str("BaseMenuFile"), Bool("UserCreated"), Bool("IsAdvancedMode"), ReadPackList,
          If("IndexedArrayWidth", AtLeast(7), <<Str("InstanceGUID")>>),
          If("IndexedArrayWidth", Is(11), <<Get("u64", "SaveLocationHash"), Get("i64", "CreationTicks"), Get("i64", "LastUpdateTicks"), ReadStringMap>>)>>), End>>
EncodeColorPreset ==
  <<Ref("#array", "Preset",
        <<Num("#array", "IndexedArrayWidth"),
          Int32("Version"), Str("ID"), Str("BaseMenuFile"), Bool("UserCreated"), Bool("IsAdvancedMode"), List("ColorPackList", <<AppendPack>>),
          If("IndexedArrayWidth", AtLeast(7), <<Str("InstanceGUID")>>),
          If("IndexedArrayWidth", Is(11), <<Get("u64", "SaveLocationHash"), Get("i64", "CreationTicks"), Get("i64", "LastUpdateTicks"),
                                Dict("MetaTexts", <<Get("key", "Key"), Str("Text")>>)>>)>>)>>
\* The width a preset is written at: its own, or one that follows from its GUID.
colorPresetWireWidth(preset) ==
  IF preset.IndexedArrayWidth # 0 THEN preset.IndexedArrayWidth ELSE IF preset.LegacyInstanceGUIDOmitted = 1 THEN 6 ELSE 7
OnPreset(data, Op(_)) == [data EXCEPT !.Preset = [i \in DOMAIN @ |-> Op(@[i])]]
Sized(data) == OnPreset(data, LAMBDA preset : [preset EXCEPT !.IndexedArrayWidth = colorPresetWireWidth(preset)])
validateColorPreset(data) ==
  \A preset \in Range(data.Preset) :
    LET width == colorPresetWireWidth(preset)
    IN /\ width \in PresetWidths
       /\ preset.LegacyInstanceGUIDOmitted = 1 => width = 6
       /\ width = 6 => preset.InstanceGUID = Nil
       /\ width < 11 => /\ <<preset.SaveLocationHash, preset.CreationTicks, preset.LastUpdateTicks>> = <<"", "", "">>
                        /\ preset.MetaTexts = <<>>
SettledColorPreset(data) ==
  OnPreset(Sized(data), LAMBDA preset : [preset EXCEPT !.LegacyInstanceGUIDOmitted = IF preset.IndexedArrayWidth = 6 THEN 1 ELSE 0])
=============================================================================
