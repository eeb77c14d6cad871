---------------------------- MODULE KcesAssets ----------------------------
(***************************************************************************)
(* The resource classes of KCES: menus, models, materials, priority        *)
(* materials, and the classes of parts_types.go they are made of.  All are *)
(* objects of module Indexed, in one LZ4 frame that is not modelled.       *)
(*                                                                         *)
(* Menus, models and materials carry the hash of their own file name, by   *)
(* which the game finds them; saving one computes the hash anew, whatever  *)
(* the document says it is.                                                *)
(***************************************************************************)
EXTENDS Indexed

CONSTANT IsMenuName(_)  \* the name ends in .menu or .kcmenu

InOpt(opt, Op(_)) == [i \in DOMAIN opt |-> Op(opt[i])]
Strings(n) == List(n, <<Str("Text")>>)
Vectors(n) == List(n, <<Vector("Value")>>)

(***************************************************************************)
(* parts_types.go                                                          *)
(***************************************************************************)
\* The gradations of a colour are a byte array inside the object; one that is
\* nil is read as none, and none is written as a count of zero.
DecodePartsColorGrada ==
  <<Former("#array", {-1}, <<Lit("#array", -1), Implied("Grada", <<>>)>>,
                         <<Frame("#array", <<ArrMin("#i32", "Grada", 36, <<Get("i32x9", "Shades")>>)>>)>>)>>
EncodePartsColorGrada == <<Frame("#array", <<Arr("#i32", "Grada", <<Get("i32x9", "Shades")>>)>>)>>
ReadPartsColor(n)  == Rec(n, <<Lit("#array", 10), Get("intx9", "Shades")>> \o DecodePartsColorGrada)
WritePartsColor(n) == Rec(n, <<Lit("#array", 10), Get("intx9", "Shades")>> \o EncodePartsColorGrada)

MaskData == Object("MaskData", <<Str("Name"), Bool("Mask")>>)
MaskParamFields ==
  <<List("MaskData", <<MaskData>>), Str("MaskTexName"), Vectors("MaskRanges"), Str("LinkMaskName"), Int32("LinkMaskNo"), Str("ShareRtTargetPart")>>
\* A class that had a slot less does not remember it: it is written at its
\* present width, the field at the default of the class.
ReadMaskParam ==
  Ref("#array", "MaskParam",
      <<Former("#array", {5}, <<Lit("#array", 5)>> \o SubSeq(MaskParamFields, 1, 5) \o <<Implied("ShareRtTargetPart", Nil)>>, Slots(MaskParamFields))>>)
WriteMaskParam == Object("MaskParam", MaskParamFields)

TransTexFields(def) == <<Vector("Pos"), Vector("Scale"), Single("RotDeg"), Vector("AreaUV"), Vector("SrcTexPixcel"), def>>
\* The transform a transform is compared with; one more level is modelled.
TransTexData == Object("TransTexData", TransTexFields(Object("DefTrans", TransTexFields(Sparse))))

PartColDef(Color(_))  == Object("PartColDef", <<Str("PartName"), Color("MultiCol"), Vector("PatternScale"), Single("PatternRot")>>)
GradaColDef(n, Color(_)) ==
  Object(n, <<Str("NotUse"), Int32("GradaNum"), List("GradaRates", <<Single("Rate")>>), Vectors("GradaRateRanges"), Color("MultiCol")>>)
InfColorParam(Color(_)) ==
  Object("InfColParam",
         <<Str("Tag"), Int32("InfColType"), Int32("InfColorID"), Bool("IsIndependenceMultiColor"), Color("PC"), Strings("IDTexName"),
           List("PartCols", <<PartColDef(Color)>>), GradaColDef("GradeCols", Color), Vectors("GradaLines"), Bool("IDTexIsRGB"), Bool("GradaIsMugen")>>)
InfColData(Color(_)) ==
  Object("PreInfColData",
         <<Bool("IsIndependenceMultiColor"), Int32("InfColType"), Int32("PartsColorType"), Color("ColData"),
           List("PartColDefs", <<PartColDef(Color)>>), GradaColDef("GradaColDef", Color), Bool("GradaIsMugen")>>)
PreMulTexFields(Color(_), mask) ==
  <<Int32("Version"), Str("SlotID"), Str("SaveTag"), Int32("MatNo"), Str("PropName"), Int32("LayerNo"), Str("FileName"), Str("BlendMode"), mask,
    InfColorParam(Color), Bool("TexGroup"), Int32("LayNoInGroup"), Single("Alpha"), Int32("TargetBodyTexSize"), Str("PosDefHokuroTatooSlot"),
    List("PreMaskData", <<MaskData>>), List("PreTransTexData", <<TransTexData>>), InfColData(Color), Str("PreTexCompoTypeStr")>>
\* The composition of the textures is "Alpha" where the class has no slot for it.
ReadPreMulTexDatas ==
  LET L == PreMulTexFields(ReadPartsColor, ReadMaskParam)
  IN Ref("#array", "PreMul",
         <<Former("#array", {18}, <<Lit("#array", 18)>> \o SubSeq(L, 1, 18) \o <<Implied("PreTexCompoTypeStr", "Alpha")>>, Slots(L))>>)
\* What a game without those slots has written.
NarrowPreMulTexDatas ==
  LET NoGrada(n) == Rec(n, <<Lit("#array", 10), Get("intx9", "Shades"), Lit("#array", -1)>>)
      L == PreMulTexFields(NoGrada, Ref("#array", "MaskParam", <<Lit("#array", 5)>> \o SubSeq(MaskParamFields, 1, 5)))
  IN Ref("#array", "PreMul", <<Lit("#array", 18)>> \o SubSeq(L, 1, 18))
WritePreMulTexDatas == Object("PreMul", PreMulTexFields(WritePartsColor, WriteMaskParam))

ColvariData(Color(_)) ==
  Object("ColvariData",
         <<Int32("Version"), Str("MPN"), Str("LayerName"), Int32("ColorType"), List("MaskData", <<MaskData>>), Single("Alpha"), Color("ColData"),
           List("PartColDefs", <<PartColDef(Color)>>), GradaColDef("GradaColDef", Color), Str("MamaFileName"), Int32("ColorTypeSub"),
           Get("uint8", "UseType"), Str("SaveInfColDataLinkLayer"), Str("ViewName")>>)
Colvari(Color(_)) ==
  Object("ColvariInfo", <<Int32("Version"), Color("IconColor"), Str("IconFileName"), Str("ReqDefine"), List("ColvariDatas", <<ColvariData(Color)>>)>>)

BlendData == Object("BlendData", <<Str("Name"), List("VIndex", <<Int32("Index")>>), Vectors("Vert"), Vectors("Norm"), Vectors("Tan")>>)
ThicknessDefPerAngle == Object("Def", <<Int32("AngleDegree"), Int32("VertexIndex"), Single("DefaultDistance")>>)
ThicknessPoint == Object("Point", <<Str("TargetBoneName"), Single("RatioSegmentStartToEnd"), List("DistanceParAngle", <<ThicknessDefPerAngle>>)>>)
ThicknessGroup ==
  Object("Group", <<Str("GroupName"), Str("StartBoneName"), Str("EndBoneName"), Int32("StepAngleDegree"), List("Points", <<ThicknessPoint>>)>>)
SkinThickness  == Object("SkinThick", <<Bool("Use"), Dict("Groups", <<Get("str", "Key"), ThicknessGroup>>)>>)
TupleStringInt == Object("PartsVer", <<Str("Item1"), Int32("Item2")>>)

(***************************************************************************)
(* The resources, and the containers of many of them.                      *)
(***************************************************************************)
Assets(asset) == <<Object("Data", <<Str("FileName"), List("Assets", <<asset>>)>>)>>
OnAssets(data, Op(_)) ==
  [data EXCEPT !.Data = InOpt(@, LAMBDA container :
     [container EXCEPT !.Assets = InOpt(@, LAMBDA list :
        [list EXCEPT !.Items = InOpt(@, LAMBDA slot : [slot EXCEPT !.Asset = InOpt(@, Op)])])])]

HashString(name) == "hash of " \o name
HashStringIgnoreCase(name) == "hash in lower case of " \o name
\* An asset at the width it was read at, or at the usual one.
AtWidth(asset, default) == [asset EXCEPT !.IndexedArrayWidth = IF @ = 0 THEN default ELSE @]

TextureProp == Object("Prop", <<Int32("Type"), Str("FileName"), Single("Ox"), Single("Oy"), Single("Sx"), Single("Sy")>>)
ColorProp   == Object("Prop", <<Int32("Type"), Single("R"), Single("G"), Single("B"), Single("A")>>)
VectorProp  == Object("Prop", <<Int32("Type"), Single("X"), Single("Y"), Single("Z"), Single("W")>>)
FloatProp   == Object("Prop", <<Int32("Type"), Single("V")>>)
KeywordProp == Object("Prop", <<Int32("Type"), Bool("Value")>>)
MaterialWidths == {8, 10}
Material ==
  <<Int32("Version"), Get("uint64", "ID"), Str("FileName"), Str("ShaderName"), List("TextureProps", <<TextureProp>>),
    List("ColorProps", <<ColorProp>>), List("VectorProps", <<VectorProp>>), List("FloatProps", <<FloatProp>>),
    List("KeywordProps", <<KeywordProp>>), Int32("RenderQueue")>>
DecodeMaterialAssets == Assets(Ref("#array", "Asset", SlotsRead("IndexedArrayWidth", MaterialWidths, Material))) \o <<End>>
EncodeMaterialAssets == Assets(Ref("#array", "Asset", SlotsWritten("IndexedArrayWidth", MaterialWidths, Material)))
normalizeMaterialLookupFields(material) ==
  IF material.FileName = Nil THEN material ELSE [material EXCEPT !.ID = HashString(material.FileName)]
cloneMaterialForEncoding(material) == normalizeMaterialLookupFields(AtWidth(material, 8))

TransData == Object("Trans", <<Str("Name"), Int32("ParentNo"), Bool("IsSCL"), Vector("Pos"), Vector("Rot"), Vector("Scale")>>)
ModelWidths == {10, 11}
Model ==
  <<Int32("Version"), Get("uint64", "ID"), Str("FileName"), Str("MeshFileName"), Str("ModelName"), List("TransData", <<TransData>>),
    Strings("BoneNames"), Strings("MaterialFileName"), List("Morphs", <<BlendData>>), SkinThickness, Int32("ShadowModeFlags")>>
DecodeModel == <<Ref("#array", "Asset", SlotsRead("IndexedArrayWidth", ModelWidths, Model)), End>>
EncodeModel == <<Ref("#array", "Asset", SlotsWritten("IndexedArrayWidth", ModelWidths, Model))>>
DecodeModelAssets == Assets(DecodeModel[1]) \o <<End>>
EncodeModelAssets == Assets(EncodeModel[1])
normalizeModelLookupFields(model) == IF model.FileName = Nil THEN model ELSE [model EXCEPT !.ID = HashString(model.FileName)]
cloneModelForEncoding(model) == normalizeModelLookupFields(AtWidth(model, 11))
\* The name of the model is that of exactly one of its bones.
validateModelNameSelector(model) ==
  \/ model.ModelName = Nil /\ (model.TransData = <<>> \/ model.TransData[1].Items = <<>>)
  \/ /\ model.ModelName # Nil /\ model.TransData # <<>>
     /\ LET bones == model.TransData[1].Items
        IN Cardinality({i \in DOMAIN bones : bones[i].Trans # <<>> /\ bones[i].Trans[1].Name = model.ModelName}) = 1

PriorityMaterial == Object("Asset", <<Int32("Version"), Get("uint64", "ID"), Str("FileName"), Single("RenderQueue"), Get("uint64", "TargetID")>>)
EncodePriorityMaterialAssets == Assets(PriorityMaterial)
DecodePriorityMaterialAssets == Assets(PriorityMaterial) \o <<End>>

HairMake ==
  Object("HairMake", <<Int32("Version"), Str("ExportedGUID"), Int32("ExportedHairBuildVersion"), Int32("ExportedHairGameVersion"),
                       Str("SuspendedSaveFileName"), Strings("MaterialPerOriginalMenuFileName"),
                       List("MaterialPerOriginalMenuVersion", <<Int32("MenuVersion")>>)>>)
Command == Object("Command", <<Int32("Type"), Strings("Args")>>)
MenuWidths == {21, 22, 26, 27, 28, 30, 31, 32}
Menu(Color(_), preMul) ==
  <<Int32("Version"), Get("uint64", "GUID"), Get("uint64", "ID"), Str("FileName"), Str("ItemName"), Str("IconFileName"), Str("InfoText"),
    Int32("Priority"), Get("uint64", "ParentID"), Bool("IsMan"), Bool("IsDiff"), Bool("IsDelete"), List("Commands", <<Command>>),
    Str("CategoryText"), Str("ColorSetText"), Get("uint64", "DefineTagNames"), Dict("PreMulTexDatas", <<Get("uint64", "Key"), preMul>>),
    Str("ColvariFileNameExp"), Colvari(Color), Get("uint32", "SrcFileHashCRC32"), Get("uint64", "DefineFirst"), TupleStringInt,
    Bool("IsRecommendMan"), Int32("TargetBodyType"), Sparse, Get("uint64", "Attribute"), Bool("HideInEdit"), Str("ToeLockSlotId"),
    Str("ExportModelFormTextureName"), Int32("IsHarayureAvailable"), Int32("SkirtPhys"), HairMake>>
DecodeMenuAssets == Assets(Ref("#array", "Asset", SlotsRead("IndexedArrayWidth", MenuWidths, Menu(ReadPartsColor, ReadPreMulTexDatas)))) \o <<End>>
EncodeMenuAssets == Assets(Ref("#array", "Asset", SlotsWritten("IndexedArrayWidth", MenuWidths, Menu(WritePartsColor, WritePreMulTexDatas))))
\* A menu that says under which GUID it was exported keeps it, any other has a
\* new one each time it is saved.
normalizeMenuLookupFields(menu) ==
  [menu EXCEPT !.ID = IF menu.FileName = Nil THEN @ ELSE HashStringIgnoreCase(menu.FileName),
               !.GUID = IF menu.HairMake # <<>> /\ menu.HairMake[1].ExportedGUID # Nil
                        THEN HashStringIgnoreCase(menu.HairMake[1].ExportedGUID) ELSE "hash of a new GUID"]
cloneMenuForEncoding(menu) == normalizeMenuLookupFields(AtWidth(menu, 31))
validateMenuFileNameExtension(menu) == menu.FileName = Nil \/ IsMenuName(menu.FileName)
AssetsOf(data) ==
  UNION {UNION {UNION {Range(slot.Asset) : slot \in Range(list.Items)} : list \in Range(container.Assets)} : container \in Range(data.Data)}
=============================================================================
