--------------------------- MODULE KcesPreset ---------------------------
(***************************************************************************)
(* The blocks inside a KCES .preset: the list of properties with their     *)
(* textures, colours, attach positions and sub-properties, the colours of  *)
(* the parts and the body; and the .sad file of saved attach positions,    *)
(* whose records the property list shares.                                 *)
(***************************************************************************)
EXTENDS Layouts

CONSTANT MaxInnerDepth  \* maxKCESPresetInnerDepth

(***************************************************************************)
(* Saved attach positions.  An old record begins with the name of its      *)
(* part; a new one with an empty or nil name and its version.              *)
(***************************************************************************)
SavedAttachVersions == {<<2000, 2001>>}
readSavedAttachOptionalPRS(n)  == <<Opt("#bool", n, <<Get("f32x10", "PosRotScale")>>)>>
writeSavedAttachOptionalPRS(n) == <<Opt("#bool", n, <<Get("f32x10", "PosRotScale")>>)>>
readSavedAttachInt32Slice  == <<Nullable("NewAttachVertexIndices", 4, <<Get("i32", "Index")>>)>>
writeSavedAttachInt32Slice == <<Nullable("NewAttachVertexIndices", 0, <<Get("i32", "Index")>>)>>
readSavedAttachHierarchy ==
  <<Opt("#bool", "BoneAttachedHierarchy", <<MapMin("#i32", "Bones", 41, <<Get("key", "Bone"), Get("f32x10", "PosRotScale")>>)>>)>>
writeSavedAttachHierarchy ==
  <<Opt("#bool", "BoneAttachedHierarchy", <<Map("#i32", "Bones", <<Get("key", "Bone"), Get("f32x10", "PosRotScale")>>)>>)>>
decodeSavedAttachItem ==
  <<Peek("nstr", {Nil, ""}, <<Skip("nstr"), Num("#i32", "RecordVersion"), Maybe("PartName")>>,
         <<Maybe("PartName"), Implied("RecordVersion", 2000)>>),
    Check("RecordVersion", SavedAttachVersions),
    Get("bool", "Enabled"), Get("u64", "MyRID"), Get("str", "MySlotID"), Get("u64", "TargetRID"), Get("str", "TargetSlotID"),
    If("RecordVersion", Is(2001), <<Get("i32", "TargetSlotNo")>>),
    Maybe("TargetAttachPointName"), Get("i32", "TargetVertexCount"), Get("i32", "TargetVertexIndex")>>
    \o readSavedAttachInt32Slice \o readSavedAttachOptionalPRS("PRS2") \o readSavedAttachOptionalPRS("PRS3")
    \o readSavedAttachHierarchy \o <<Get("bool", "BoneAttachEdited")>>
encodeSavedAttachItem ==
  <<Check("RecordVersion", SavedAttachVersions),
    If("RecordVersion", Below(2001), <<Implied("TargetSlotNo", "")>>),
    Lit("nstr", ""), Num("#i32", "RecordVersion"), Maybe("PartName"),
    Get("bool", "Enabled"), Get("u64", "MyRID"), Get("str", "MySlotID"), Get("u64", "TargetRID"), Get("str", "TargetSlotID"),
    If("RecordVersion", Is(2001), <<Get("i32", "TargetSlotNo")>>),
    Maybe("TargetAttachPointName"), Get("i32", "TargetVertexCount"), Get("i32", "TargetVertexIndex")>>
    \o writeSavedAttachInt32Slice \o writeSavedAttachOptionalPRS("PRS2") \o writeSavedAttachOptionalPRS("PRS3")
    \o writeSavedAttachHierarchy \o <<Get("bool", "BoneAttachEdited")>>
DecodeSavedAttach ==
  <<Must("str", "Signature", "SAVED_ATTACH_DATA"), Must("#i32", "Version", 2000), ArrMin("#i32", "Items", 36, decodeSavedAttachItem), End>>
EncodeSavedAttach ==
  <<Must("str", "Signature", "SAVED_ATTACH_DATA"), Must("#i32", "Version", 2000), Arr("#i32", "Items", encodeSavedAttachItem)>>
\* The records of the game before it gave them a version.
LegacyItem ==
  SelectSeq(encodeSavedAttachItem, LAMBDA it : it.t # "lit" /\ ~("n" \in DOMAIN it /\ it.n = "RecordVersion"))
LegacySavedAttach ==
  <<Must("str", "Signature", "SAVED_ATTACH_DATA"), Must("#i32", "Version", 2000), Arr("#i32", "Items", LegacyItem)>>
LegacyLegal(sad) == \A r \in Range(sad.Items) : r.RecordVersion = 2000 /\ r.PartName # Nil

(***************************************************************************)
(* The colours of saved textures.                                          *)
(***************************************************************************)
readInfinityPoint  == <<Get("i32x9", "Color")>>
writeInfinityPoint == <<Get("i32x9", "Color")>>
readInfinityPartsColor  == <<Get("i32x9", "Color"), ArrMin("#i32", "Gradation", 36, readInfinityPoint)>>
writeInfinityPartsColor == <<Get("i32x9", "Color"), Arr("#i32", "Gradation", writeInfinityPoint)>>
readFloat32Array  == <<Nullable("Rates", 4, <<Get("f32", "Rate")>>)>>
writeFloat32Array == <<Nullable("Rates", 0, <<Get("f32", "Rate")>>)>>
readVector4Array  == <<Nullable("Ranges", 16, <<Get("f32x4", "Range")>>)>>
writeVector4Array == <<Nullable("Ranges", 0, <<Get("f32x4", "Range")>>)>>
readGradationDef ==
  <<Maybe("NotUse"), Get("i32", "PointCount")>> \o readFloat32Array \o readVector4Array \o <<Rec("Color", readInfinityPartsColor)>>
writeGradationDef ==
  <<Maybe("NotUse"), Get("i32", "PointCount")>> \o writeFloat32Array \o writeVector4Array \o <<Rec("Color", writeInfinityPartsColor)>>
readPartColorDef  == <<Maybe("PartName"), Rec("Color", readInfinityPartsColor), Get("f32x2", "PatternScale"), Get("f32", "PatternRot")>>
writePartColorDef == <<Maybe("PartName"), Rec("Color", writeInfinityPartsColor), Get("f32x2", "PatternScale"), Get("f32", "PatternRot")>>
readInfinityColor ==
  <<Get("bool", "Independent"), Get("str", "ColorType"), Get("str", "PartsColorType"), Rec("Color", readInfinityPartsColor),
    Nullable("PartColors", 43, readPartColorDef), Opt("#bool", "Gradation", readGradationDef), Get("bool", "GradationMugen")>>
writeInfinityColor ==
  <<Get("bool", "Independent"), Get("str", "ColorType"), Get("str", "PartsColorType"), Rec("Color", writeInfinityPartsColor),
    Nullable("PartColors", 0, writePartColorDef), Opt("#bool", "Gradation", writeGradationDef), Get("bool", "GradationMugen")>>

(***************************************************************************)
(* Saved textures.  A transform may hold another as its default, down to a *)
(* depth at which the reader and the writer give up.                       *)
(***************************************************************************)
TransformFields ==
  <<Get("f32x4", "AreaUVDefault"), Get("f32x2", "ScaleDefault"), Get("f32x2", "Position"), Get("f32x2", "Scale"),
    Get("f32", "Rotation"), Get("f32x4", "AreaUV"), Get("i32x2", "SourcePixels")>>
RECURSIVE readTextureTransform(_), writeTextureTransform(_)
readTextureTransform(depth) ==
  IF depth > MaxInnerDepth THEN <<Stop>>
  ELSE TransformFields \o <<Opt("#bool", "Default", readTextureTransform(depth + 1))>>
writeTextureTransform(depth) ==
  IF depth > MaxInnerDepth THEN <<Stop>>
  ELSE TransformFields \o <<Opt("#bool", "Default", writeTextureTransform(depth + 1))>>
readTextureMasks == <<Nullable("Masks", 2, <<Maybe("Name"), Get("bool", "Mask")>>)>>
readTextureTransforms(depth) == <<Nullable("Transforms", 49, readTextureTransform(depth))>>
readSavedTexture(depth) ==
  <<Get("bool", "UseLayer"), Get("bool", "UseMultiplyAlpha"), Get("f32", "MultiplyAlpha")>>
    \o readTextureMasks \o readTextureTransforms(depth + 1)
    \o <<Opt("#bool", "InfinityColor", readInfinityColor), Maybe("InfinityColorLinkLayer"), Get("bool", "UseAlphaMaskTransform")>>
readSavedTextureMap(depth) == <<Nullable("SavedTextureData", 2, <<Get("str", "TextureKey")>> \o readSavedTexture(depth))>>
writeTextureMasks == <<Nullable("Masks", 0, <<Maybe("Name"), Get("bool", "Mask")>>)>>
writeTextureTransforms(depth) == <<Nullable("Transforms", 0, writeTextureTransform(depth))>>
writeSavedTexture(depth) ==
  <<Get("bool", "UseLayer"), Get("bool", "UseMultiplyAlpha"), Get("f32", "MultiplyAlpha")>>
    \o writeTextureMasks \o writeTextureTransforms(depth + 1)
    \o <<Opt("#bool", "InfinityColor", writeInfinityColor), Maybe("InfinityColorLinkLayer"), Get("bool", "UseAlphaMaskTransform")>>
writeSavedTextureMap(depth) == <<Nullable("SavedTextureData", 0, <<Get("str", "TextureKey")>> \o writeSavedTexture(depth))>>

(***************************************************************************)
(* Properties and their sub-properties, which hold the same base again.    *)
(***************************************************************************)
readCutoutMask  == <<Opt("#bool", "SavedCutoutMask", <<Get("i32", "MaxLevel"), Get("i32", "NowLevel"), Get("bool", "Enabled")>>)>>
writeCutoutMask == <<Opt("#bool", "SavedCutoutMask", <<Get("i32", "MaxLevel"), Get("i32", "NowLevel"), Get("bool", "Enabled")>>)>>
readPartHides   == <<Nullable("SavedPartHide", 2, <<Maybe("PartName"), Get("bool", "Enabled")>>)>>
writePartHides  == <<Nullable("SavedPartHide", 0, <<Maybe("PartName"), Get("bool", "Enabled")>>)>>
readHairLengths  == <<Nullable("SavedHairLengths", 5, <<Maybe("PartName"), Get("f32", "Value")>>)>>
writeHairLengths == <<Nullable("SavedHairLengths", 0, <<Maybe("PartName"), Get("f32", "Value")>>)>>

readSavedAttachPositions  == <<Nullable("SavedAttachPositions", 36, decodeSavedAttachItem)>>
writeSavedAttachPositions == <<Nullable("SavedAttachPositions", 0, encodeSavedAttachItem)>>

RECURSIVE readPropBase(_), writePropBase(_)
readSubProperty(depth) ==
  IF depth > MaxInnerDepth THEN <<Stop>>
  ELSE <<Get("i32", "Number"), Get("str", "DefaultHokuroTattooSlotID"), Block("#i32", "EditUnitData", <<Get("edit", "Unit")>>),
         If("Version", AtLeast(2001), <<Get("u64", "SavedDefaultHokuroTattooRID")>>)>> \o readPropBase(depth)
readSubProperties(depth) == <<Nullable("SubProperties", 1, <<Opt("#bool", "SubProperty", readSubProperty(depth + 1))>>)>>
readPropBase(depth) ==
  IF depth > MaxInnerDepth THEN <<Stop>>
  ELSE <<Get("i32", "Index"), Get("str", "Type"), Get("str", "SubType"), Maybe("FileName"), Get("u64", "FileNameRID"),
         Get("bool", "Enabled"), Get("u64", "BeforeFileNameRID"), Get("u64", "Defines"), Get("u64", "SavedTextureDataRID"),
         Get("u64", "SavedTextureDataDefines")>>
         \o readSavedTextureMap(depth)
         \o <<Get("bool", "ShareInfinityColorData"), Block("#i32", "EditBaseData", <<Get("edit", "Base")>>), Get("u64", "SavedCutoutMaskRID")>>
         \o readCutoutMask \o <<Get("u64", "SavedPartHideRID")>> \o readPartHides
         \o <<Get("bool", "UsePartHide"), Get("u64", "SavedAttachPositionRID")>> \o readSavedAttachPositions
         \o <<Get("bool", "NoScale"), Get("bool", "SubPropertyIsTuftTexture"), Get("u64", "SavedHairLengthRID")>> \o readHairLengths \o readSubProperties(depth)
writeSubProperty(depth) ==
  IF depth > MaxInnerDepth THEN <<Stop>>
  ELSE <<If("Version", Below(2001), <<Implied("SavedDefaultHokuroTattooRID", "")>>),
         Get("i32", "Number"), Get("str", "DefaultHokuroTattooSlotID"), Block("#i32", "EditUnitData", <<Get("edit", "Unit")>>),
         If("Version", AtLeast(2001), <<Get("u64", "SavedDefaultHokuroTattooRID")>>)>> \o writePropBase(depth)
writeSubProperties(depth) == <<Nullable("SubProperties", 0, <<Opt("#bool", "SubProperty", writeSubProperty(depth + 1))>>)>>
writePropBase(depth) ==
  IF depth > MaxInnerDepth THEN <<Stop>>
  ELSE <<Get("i32", "Index"), Get("str", "Type"), Get("str", "SubType"), Maybe("FileName"), Get("u64", "FileNameRID"),
         Get("bool", "Enabled"), Get("u64", "BeforeFileNameRID"), Get("u64", "Defines"), Get("u64", "SavedTextureDataRID"),
         Get("u64", "SavedTextureDataDefines")>>
         \o writeSavedTextureMap(depth)
         \o <<Get("bool", "ShareInfinityColorData"), Block("#i32", "EditBaseData", <<Get("edit", "Base")>>), Get("u64", "SavedCutoutMaskRID")>>
         \o writeCutoutMask \o <<Get("u64", "SavedPartHideRID")>> \o writePartHides
         \o <<Get("bool", "UsePartHide"), Get("u64", "SavedAttachPositionRID")>> \o writeSavedAttachPositions
         \o <<Get("bool", "NoScale"), Get("bool", "SubPropertyIsTuftTexture"), Get("u64", "SavedHairLengthRID")>> \o writeHairLengths \o writeSubProperties(depth)

readMaterialValue ==
  <<Get("u64", "RID"), Get("i32", "MaterialNumber"), Maybe("PropertyName"), Maybe("TypeName"), Maybe("Value")>>
\* The slot value came with version 2002, and is -1 before it.
readMaterialSlot ==
  <<Get("str", "SlotID"), If("Version", AtLeast(2002), <<Get("i32", "SlotValue")>>), If("Version", Below(2002), <<Implied("SlotValue", "-1")>>),
    ArrMin("#i32", "Properties", 10, <<Get("str", "PropertyKey")>> \o readMaterialValue)>>
writeMaterialValue ==
  <<Get("u64", "RID"), Get("i32", "MaterialNumber"), Maybe("PropertyName"), Maybe("TypeName"), Maybe("Value")>>
writeMaterialSlot ==
  <<If("Version", Below(2002), <<Implied("SlotValue", "-1")>>), Get("str", "SlotID"), If("Version", AtLeast(2002), <<Get("i32", "SlotValue")>>),
    Arr("#i32", "Properties", <<Get("str", "PropertyKey")>> \o writeMaterialValue)>>
readProperty ==
  <<Must("str", "Signature", "GP03_MPROP"), Num("#i32", "Version"), Get("str", "Name"), Get("i32", "DefaultValue"), Get("i32", "Value"),
    Get("i32", "TempValue"), Get("u64", "FileNameRID"), Get("bool", "Enabled"), Get("i32", "Max"), Get("i32", "Min"),
    ArrMin("#i32", "MaterialProperties", 3, readMaterialSlot), Rec("Base", readPropBase(0))>>
writeProperty ==
  <<Must("str", "Signature", "GP03_MPROP"), Num("#i32", "Version"), Get("str", "Name"), Get("i32", "DefaultValue"), Get("i32", "Value"),
    Get("i32", "TempValue"), Get("u64", "FileNameRID"), Get("bool", "Enabled"), Get("i32", "Max"), Get("i32", "Min"),
    Arr("#i32", "MaterialProperties", writeMaterialSlot), Rec("Base", writePropBase(0))>>
DecodePropertyData ==
  <<Must("str", "ListSignature", "GP03_MPROP_LIST"), Get("i32", "ListVersion"),
    ArrMin("#i32", "Properties", 2, <<Get("str", "Key"), Rec("Property", readProperty)>>), End>>
EncodePropertyData ==
  <<Must("str", "ListSignature", "GP03_MPROP_LIST"), Get("i32", "ListVersion"),
    Arr("#i32", "Properties", <<Get("str", "Key"), Rec("Property", writeProperty)>>)>>

(***************************************************************************)
(* Colours and body.  Up to version 1200 the colours are counted, then     *)
(* each has a name and the name MAX ends them.                             *)
(***************************************************************************)
\* (Mutant: a negative count is let through.)
DecodeColorDataSigned ==
  <<Must("str", "Signature", "CM3D2_MULTI_COL"), Num("#i32", "Version"), Num("#i32", "PartCount"),
    If("Version", Below(1201), <<Fits("PartCount", 37), Times("PartCount", "LegacyParts", <<Get("bool", "Use"), Get("i32x9", "Color")>>)>>),
    If("Version", AtLeast(1201), <<Until("str", "PartNames", {"MAX"}, <<Tag("PartName")>>), Lit("str", "MAX")>>), End>>
DecodeColorData ==
  <<Must("str", "Signature", "CM3D2_MULTI_COL"), Num("#i32", "Version"), Size("#i32", "PartCount"),
    If("Version", Below(1201), <<Fits("PartCount", 37), Times("PartCount", "LegacyParts", <<Get("bool", "Use"), Get("i32x9", "Color")>>)>>),
    If("Version", AtLeast(1201), <<Until("str", "PartNames", {"MAX"}, <<Tag("PartName")>>), Lit("str", "MAX")>>), End>>
EncodeColorData ==
  <<Must("str", "Signature", "CM3D2_MULTI_COL"), Num("#i32", "Version"), Size("#i32", "PartCount"),
    If("Version", Below(1201), <<Each("LegacyParts", <<Get("bool", "Use"), Get("i32x9", "Color")>>)>>),
    If("Version", AtLeast(1201), <<Until("str", "PartNames", {"MAX"}, <<Tag("PartName")>>), Lit("str", "MAX")>>)>>
ColorLegal(color) ==
  /\ color.PartCount >= 0
  /\ IF color.Version <= 1200 THEN color.PartCount = Len(color.LegacyParts) /\ color.PartNames = <<>>
     ELSE color.LegacyParts = <<>> /\ \A i \in DOMAIN color.PartNames : color.PartNames[i].PartName # "MAX"

\* (Mutant: the body's reader does not look for bytes after the version.)
DecodeBodyDataLenient == <<Must("str", "Signature", "CM3D2_MAID_BODY"), Get("i32", "Version")>>
DecodeBodyData == <<Must("str", "Signature", "CM3D2_MAID_BODY"), Get("i32", "Version"), End>>
EncodeBodyData == <<Must("str", "Signature", "CM3D2_MAID_BODY"), Get("i32", "Version")>>
=============================================================================
