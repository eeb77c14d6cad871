-------------------------- MODULE Com3d2Preset --------------------------
(***************************************************************************)
(* The codec of .preset: the properties of a maid, her colours and body.   *)
(***************************************************************************)
EXTENDS Layouts

\* The versions of COM3D2.5, which are not one interval.
Extended == {<<2001, 19999>>, <<30000, Top>>}
Slotted  == {<<2003, 19999>>, <<30000, Top>>}
Colored  == {<<2, 1999>>, <<10000, Top>>}
Bodied   == {<<200, 1999>>, <<10000, Top>>}

readPresetSlot  == <<Get("slot", "SlotID"), If("PropVersion", Slotted, <<Get("str", "SlotName")>>)>>
writePresetSlot == <<Get("slot", "SlotID"), If("PropVersion", Slotted, <<Get("str", "SlotName")>>)>>

ReadPropertyHead ==
  <<Must("str", "Signature", "CM3D2_MPROP"), Num("#i32", "PropVersion"), Get("i32", "Index"), Get("key", "Name"),
    Get("i32", "Type"), Get("i32", "DefaultValue"), Get("i32", "Value"),
    If("PropVersion", AtLeast(101), <<Get("i32", "TempValue")>>),
    Get("i32", "LinkMaxValue"), Get("str", "FileName"), Get("i32", "FileNameRID"), Get("bool", "IsDut"),
    Get("i32", "Max"), Get("i32", "Min")>>
ReadSubProps ==
  <<Arr("#i32", "SubProps", <<Opt("#bool", "SubProp",
      <<Get("bool", "IsDut"), Get("str", "FileName"), Get("i32", "FileNameRID"),
        If("PropVersion", AtLeast(211), <<Get("f32", "TexMulAlpha")>>)>>)>>)>>
ReadSkinPositions ==
  <<Map("#i32", "SkinPositions", readPresetSlot \o <<Get("i32", "RID"), Get("bool", "Enable"), Get("f32x10", "PosRotScale")>>)>>
ReadAttachPositions ==
  <<Map("#i32", "AttachPositions", readPresetSlot
      \o <<Map("#i32", "Vertices", <<Get("name", "VertexKey"), Get("i32", "RID"), Get("bool", "Enable"),
                                     Get("i32", "VtxCount"), Get("i32", "VtxIdx"), Get("f32x10", "PosRotScale")>>)>>)>>
ReadMaterialProps ==
  <<Map("#i32", "MaterialProps", readPresetSlot
      \o <<Get("i32", "RID"), Get("i32", "MatId"), Get("str", "PropName"), Get("str", "TypeName"), Get("str", "MatValue")>>)>>
ReadBoneLengths ==
  <<Map("#i32", "BoneLengths", readPresetSlot
      \o <<Get("i32", "RID"), Map("#i32", "Lengths", <<Get("name", "Bone"), Get("f32", "Length")>>)>>)>>
readPresetProperty ==
  ReadPropertyHead
    \o <<If("PropVersion", AtLeast(200), ReadSubProps \o ReadSkinPositions \o ReadAttachPositions \o ReadMaterialProps),
         If("PropVersion", AtLeast(213), ReadBoneLengths),
         If("PropVersion", Extended, <<Get("bool", "IsCrcParts")>>)>>

WritePropertyHead ==
  <<Must("str", "Signature", "CM3D2_MPROP"), Num("#i32", "PropVersion"), Get("i32", "Index"), Get("key", "Name"),
    Get("i32", "Type"), Get("i32", "DefaultValue"), Get("i32", "Value"),
    If("PropVersion", AtLeast(101), <<Get("i32", "TempValue")>>),
    Get("i32", "LinkMaxValue"), Get("str", "FileName"), Get("i32", "FileNameRID"), Get("bool", "IsDut"),
    Get("i32", "Max"), Get("i32", "Min")>>
WritePropertySlots ==
  <<Arr("#i32", "SubProps", <<Opt("#bool", "SubProp",
      <<Get("bool", "IsDut"), Get("str", "FileName"), Get("i32", "FileNameRID"),
        If("PropVersion", AtLeast(211), <<Get("f32", "TexMulAlpha")>>)>>)>>),
    Map("#i32", "SkinPositions", writePresetSlot \o <<Get("i32", "RID"), Get("bool", "Enable"), Get("f32x10", "PosRotScale")>>),
    Map("#i32", "AttachPositions", writePresetSlot
      \o <<Map("#i32", "Vertices", <<Get("name", "VertexKey"), Get("i32", "RID"), Get("bool", "Enable"),
                                     Get("i32", "VtxCount"), Get("i32", "VtxIdx"), Get("f32x10", "PosRotScale")>>)>>)>>
WritePropertyRest ==
  <<Map("#i32", "MaterialProps", writePresetSlot
      \o <<Get("i32", "RID"), Get("i32", "MatId"), Get("str", "PropName"), Get("str", "TypeName"), Get("str", "MatValue")>>),
    If("PropVersion", AtLeast(213), <<Map("#i32", "BoneLengths", writePresetSlot
      \o <<Get("i32", "RID"), Map("#i32", "Lengths", <<Get("name", "Bone"), Get("f32", "Length")>>)>>)>>)>>
writePresetProperty ==
  WritePropertyHead \o <<If("PropVersion", AtLeast(200), WritePropertySlots \o WritePropertyRest),
                         If("PropVersion", Extended, <<Get("bool", "IsCrcParts")>>)>>

\* Nothing is set that the version has no room for.
SlotNamesLegal(p) ==
  Within(p.PropVersion, Slotted) \/
    \A slot \in Range(p.SkinPositions) \cup Range(p.AttachPositions) \cup Range(p.MaterialProps) \cup Range(p.BoneLengths) :
      slot.SlotName = ""
\* (Mutant: the names of slots are dropped in silence.)
validatePresetPropertyForDumpUnnamed(p) ==
  /\ p.PropVersion < 101 => p.TempValue = ""
  /\ p.PropVersion < 200 => p.SubProps = <<>> /\ p.SkinPositions = <<>> /\ p.AttachPositions = <<>> /\ p.MaterialProps = <<>>
  /\ p.PropVersion < 213 => p.BoneLengths = <<>>
  /\ p.PropVersion < 211 => \A s \in Range(p.SubProps) : \A x \in Range(s.SubProp) : x.TexMulAlpha = ""
  /\ Within(p.PropVersion, Extended) \/ p.IsCrcParts = ""
validatePresetPropertyForDump(p) ==
  /\ p.PropVersion < 101 => p.TempValue = ""
  /\ p.PropVersion < 200 => p.SubProps = <<>> /\ p.SkinPositions = <<>> /\ p.AttachPositions = <<>> /\ p.MaterialProps = <<>>
  /\ p.PropVersion < 213 => p.BoneLengths = <<>>
  /\ p.PropVersion < 211 => \A s \in Range(p.SubProps) : \A x \in Range(s.SubProp) : x.TexMulAlpha = ""
  /\ SlotNamesLegal(p)
  /\ Within(p.PropVersion, Extended) \/ p.IsCrcParts = ""

----------------------------------------------------------------------------
(* The colours: by number up to version 1200, then by name to the name MAX. *)

readPartsColor  == <<Get("bool", "IsUse"), Get("i32x9", "Color")>>
writePartsColor == <<Get("bool", "IsUse"), Get("i32x9", "Color")>>
NamedColor == <<If("ColorVersion", AtLeast(1201), <<Tag("PartName")>>)>> \o readPartsColor
readMultiColor ==
  <<Must("str", "Signature", "CM3D2_MULTI_COL"), Num("#i32", "ColorVersion"), Size("#i32", "PartCount"),
    If("ColorVersion", Below(1201), <<Times("PartCount", "PartsColors", NamedColor)>>),
    If("ColorVersion", AtLeast(1201),
       <<Until("str", "PartsColors", {"MAX"}, NamedColor), Lit("str", "MAX")>>)>>
dumpMultiColor ==
  <<Must("str", "Signature", "CM3D2_MULTI_COL"), Num("#i32", "ColorVersion"), Size("#i32", "PartCount"),
    If("ColorVersion", Below(1201), <<Each("PartsColors", writePartsColor)>>),
    If("ColorVersion", AtLeast(1201),
       <<Until("str", "PartsColors", {"MAX"}, <<Tag("PartName")>> \o writePartsColor), Lit("str", "MAX")>>)>>
validateMultiColorForDump(mc) ==
  LET names == {c.PartName : c \in Range(mc.PartsColors)}
  IN /\ mc.PartCount >= 0
     /\ IF mc.ColorVersion <= 1200 THEN names \subseteq {""} /\ mc.PartCount = Len(mc.PartsColors) ELSE "MAX" \notin names

readBodyProperty == <<Must("str", "Signature", "CM3D2_MAID_BODY"), Get("i32", "BodyVersion")>>
dumpBodyProperty == <<Must("str", "Signature", "CM3D2_MAID_BODY"), Get("i32", "BodyVersion")>>

----------------------------------------------------------------------------
(* The list of properties.  Before version 4 the key of a property is its  *)
(* name; the field Key is then left empty.                                 *)

KeyedProperty == <<If("ListVersion", AtLeast(4), <<Get("key", "Key")>>)>> \o readPresetProperty
readPresetPropertyList ==
  <<Must("str", "ListSignature", "CM3D2_MPROP_LIST"), Num("#i32", "ListVersion"),
    If("ListVersion", Below(4), <<MapBy("#i32", "PresetProperties", "Name", KeyedProperty)>>),
    If("ListVersion", AtLeast(4), <<MapBy("#i32", "PresetProperties", "Key", KeyedProperty)>>),
    If("ListVersion", Extended,
       <<Arr("#i32", "MaidPropOther", <<Get("str", "OtherKey")>> \o readPresetProperty),
         Block("#i32", "PartsColorOther", readMultiColor), Block("#i32", "CRCPreset", <<Get("preset", "Expanded")>>)>>)>>
dumpPresetPropertyList ==
  <<Must("str", "ListSignature", "CM3D2_MPROP_LIST"), Num("#i32", "ListVersion"), Cnt("#i32", "PresetProperties"),
    Each("PresetProperties", <<If("ListVersion", AtLeast(4), <<Get("key", "Key")>>)>> \o writePresetProperty),
    If("ListVersion", Extended,
       <<Arr("#i32", "MaidPropOther", <<Get("str", "OtherKey")>> \o writePresetProperty),
         Block("#i32", "PartsColorOther", dumpMultiColor), Block("#i32", "CRCPreset", <<Get("preset", "Expanded")>>)>>)>>
validatePresetPropertyListForDump(list) ==
  /\ \A p \in Range(list.PresetProperties) :
       validatePresetPropertyForDump(p) /\ (list.ListVersion < 4 => p.Key = "")
  /\ \A p \in Range(list.MaidPropOther) : validatePresetPropertyForDump(p)
  /\ \A mc \in Range(list.PartsColorOther) : validateMultiColorForDump(mc)
  /\ \/ Within(list.ListVersion, Extended)
     \/ (list.MaidPropOther = <<>> /\ list.PartsColorOther = <<>> /\ list.CRCPreset = <<>>)

ReadPreset ==
  <<Must("str", "Signature", "CM3D2_PRESET"), Num("#i32", "Version"), Get("i32", "PresetType"),
    Arr("#i32", "ThumbData", <<Get("byte", "Byte")>>)>>
    \o readPresetPropertyList
    \o <<If("Version", Colored, <<Ptr("MultiColor", readMultiColor)>>),
         If("Version", Bodied, <<Ptr("BodyProperty", readBodyProperty)>>), End>>
\* The start of it alone.
ReadPresetMetadata ==
  <<Must("str", "Signature", "CM3D2_PRESET"), Num("#i32", "Version"), Get("i32", "PresetType"),
    Arr("#i32", "ThumbData", <<Get("byte", "Byte")>>)>>
DumpPreset ==
  <<Must("str", "Signature", "CM3D2_PRESET"), Num("#i32", "Version"), Get("i32", "PresetType"),
    Arr("#i32", "ThumbData", <<Get("byte", "Byte")>>)>>
    \o dumpPresetPropertyList
    \o <<If("Version", Colored, <<Ptr("MultiColor", dumpMultiColor)>>),
         If("Version", Bodied, <<Ptr("BodyProperty", dumpBodyProperty)>>)>>
SettledPresetHead(preset) == Fields(preset, {"Signature", "Version", "PresetType", "ThumbData"})
validatePresetForDump(preset) ==
  /\ validatePresetPropertyListForDump(preset)
  /\ (preset.MultiColor # <<>>) = Within(preset.Version, Colored)
  /\ \A mc \in Range(preset.MultiColor) : validateMultiColorForDump(mc)
  /\ (preset.BodyProperty # <<>>) = Within(preset.Version, Bodied)
=============================================================================
