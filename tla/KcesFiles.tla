---------------------------- MODULE KcesFiles ----------------------------
(***************************************************************************)
(* The smaller KCES files: colliders, collision spheres and capsules, the  *)
(* bridge between the two games, the payloads of dynamic bones and of      *)
(* cloth in their envelope, the mesh, texture and meta data of KCES 2, the *)
(* saves of the hair editor and the edit data inside a preset.             *)
(***************************************************************************)
EXTENDS KcesSystem, KcesAssets

(***************************************************************************)
(* The MessagePack payloads of colliders: packages, limb and IK groups.    *)
(***************************************************************************)
ColliderObject ==
  <<Int32("Version"), Str("ParentName"), Str("SelfName"), Vector("LocalPosition"), Vector("LocalRotation"), Vector("LocalScale"),
    Vector("Center"), Int32("Bound")>>
ColliderPlane   == ColliderObject \o <<Int32("Direction"), Bool("IsDirectionInverse")>>
ColliderCapsule == ColliderPlane \o <<Single("StartRadius"), Single("EndRadius"), Single("Height")>>
ColliderSphere  == ColliderObject \o <<Single("Radius")>>
ColliderMaidProp ==
  ColliderCapsule
    \o <<Sparse, Sparse, Sparse, List("CenterMpnList", <<Int32("Mpn")>>), Vector("CenterRateMax"),
         List("StartRadiusMpnList", <<Int32("Mpn")>>), Single("MaxStartRadius"), List("EndRadiusMpnList", <<Int32("Mpn")>>),
         Single("MaxEndRadius"), List("CenterMpnNameList", <<Str("MpnName")>>),
         List("StartRadiusMpnNameList", <<Str("MpnName")>>), List("EndRadiusMpnNameList", <<Str("MpnName")>>)>>
\* It is read without the three lists of names too, and written with them.
MaidPropWidths == {22, 25}
MaidPropRead    == SlotsRead("Width", MaidPropWidths, ColliderMaidProp)
MaidPropWritten == Slots(ColliderMaidProp)

\* The union: a type and an object of that type, or nil.
newColliderStatusForType(maidProp) ==
  (0 :> Slots(ColliderPlane)) @@ (1 :> Slots(ColliderCapsule)) @@ (2 :> Slots(ColliderSphere)) @@ (3 :> maidProp)
Known == {<<0, 3>>}
ColliderRefDecode ==
  <<Ref("#array", "Ref", <<Lit("#array", 2), Num("#i32", "Type"), Check("Type", Known)>>
      \o <<Ref("#array", "Collider", <<Kinds("Type", newColliderStatusForType(MaidPropRead))>>)>>)>>
ColliderRefEncode ==
  <<Ref("#array", "Ref", <<Check("Type", Known), Lit("#array", 2), Num("#i32", "Type")>>
      \o <<Ref("#array", "Collider", <<Kinds("Type", newColliderStatusForType(MaidPropWritten))>>)>>)>>
ColliderState == <<Int32("Version"), Int32("LimbType"), Bool("IsEnable")>>

decodeColliderPackage ==
  <<Object("Package", <<Int32("Version"), List("Colliders", ColliderRefDecode), List("LimbEnableList", <<Object("State", ColliderState)>>)>>), End>>
encodeColliderPackage ==
  <<Object("Package", <<Int32("Version"), List("Colliders", ColliderRefEncode), List("LimbEnableList", <<Object("State", ColliderState)>>)>>)>>
decodeLimbCollider ==
  <<Object("Package", <<Int32("Version"), List("Items", <<Object("Item", <<Int32("Version"), Int32("Target"), Ref("#array", "Collider", MaidPropRead)>>)>>)>>), End>>
encodeLimbCollider ==
  <<Object("Package", <<Int32("Version"), List("Items", <<Object("Item", <<Int32("Version"), Int32("Target"), Ref("#array", "Collider", MaidPropWritten)>>)>>)>>)>>
\* A limb package of the game before it had the names.
NarrowLimbCollider ==
  <<Object("Package", <<Int32("Version"), List("Items", <<Object("Item", <<Int32("Version"), Int32("Target"), Ref("#array", "Collider", SlotsWritten("Width", MaidPropWidths, ColliderMaidProp))>>)>>)>>)>>
decodeIKCollider ==
  <<Object("Package", <<Int32("Version"), List("Groups", <<Object("Group", <<Int32("Version"), Int32("Target"), List("Colliders", ColliderRefDecode)>>)>>)>>), End>>
encodeIKCollider ==
  <<Object("Package", <<Int32("Version"), List("Groups", <<Object("Group", <<Int32("Version"), Int32("Target"), List("Colliders", ColliderRefEncode)>>)>>)>>)>>

(***************************************************************************)
(* Binary files.                                                           *)
(***************************************************************************)
HitCheckEntry ==
  <<Get("i32", "Type"), Get("f32", "Radius"), Get("f32", "RadiusSqr"), Get("str", "Name"), Get("str", "Parent"), Get("f32x3", "Position"),
    Get("i32", "SKRT"), Get("i32", "RL")>>
DecodeHitCheck == <<Must("str", "Signature", "HitCheck"), ArrMin("#i32", "Entries", 34, HitCheckEntry), End>>
EncodeHitCheck == <<Must("str", "Signature", "HitCheck"), Arr("#i32", "Entries", HitCheckEntry)>>

MaidCapsuleCollider ==
  <<Get("str", "BonePath"), Get("f32x3", "Center"), Get("i32", "Direction"), Get("f32", "Height"), Get("f32", "Radius")>>
DecodeMaidCollider == <<ArrMin("#i32", "Colliders", 25, MaidCapsuleCollider), End>>
EncodeMaidCollider == <<Arr("#i32", "Colliders", MaidCapsuleCollider)>>

\* The bridge from COM3D2 has no legacy preset; after one must be room for the
\* length of the other.
BridgeVersion == Check("Version", Between(2000, 2001))
Byte == Get("byte", "Byte")
BridgeBytes(n) == Arr("#i32", n, <<Byte>>)
NoLegacyPreset == If("Version", Is(2000), <<Each("LegacyPreset", <<Stop, Byte>>)>>)
DecodeGP03Bridge ==
  <<Must("str", "Signature", "GP03_BRIDGE"), Num("#i32", "Version"), BridgeVersion, Get("str", "GUID"),
    BridgeBytes("LegacyPreset"), NoLegacyPreset, BridgeBytes("CurrentPreset"), End>>
EncodeGP03Bridge ==
  <<Must("str", "Signature", "GP03_BRIDGE"), BridgeVersion, NoLegacyPreset,
    Num("#i32", "Version"), Get("str", "GUID"), BridgeBytes("LegacyPreset"), BridgeBytes("CurrentPreset")>>

\* The reader takes any signature, the writer one.
KCTexture(signature) ==
  <<signature, Must("#i32", "Version", 1000), Get("str", "TextureName"), Arr("#i32", "Data", <<Get("byte", "Byte")>>)>>
DecodeKCTex == KCTexture(Tag("Signature")) \o <<End>>
EncodeKCTex == KCTexture(Must("str", "Signature", "CM3D2_TEX"))

(***************************************************************************)
(* The payloads.  The game's own form is a length and a MessagePack        *)
(* object; for some extensions the exporter of the other game writes JSON  *)
(* under the same name.  The envelope keeps which of them a file was.      *)
(***************************************************************************)
BezierParam == <<Single("StartValue"), Single("EndValue"), Bool("UseEndValue"), Single("CurveValue"), Bool("UseCurveValue")>>
Bezier(n)   == Object(n, BezierParam)
ClothParams ==
  <<Bezier("Radius"), Bezier("Mass"), Bool("UseGravity"), Bezier("Gravity"), Sparse, Sparse,
    Bool("UseDrag"), Bezier("Drag"), Bool("UseMaxVelocity"), Bezier("MaxVelocity"), Bezier("WorldMoveInfluence"), Bezier("WorldRotationInfluence"),
    Single("MassInfluence"), Single("WindInfluence"), Single("WindRandomScale"), Bool("UseDistanceDisable"), Single("DisableDistance"), Single("DisableFadeDistance"),
    Bool("UseResetTeleport"), Single("TeleportDistance"), Single("TeleportRotation"), Bool("UseClampDistanceRatio"), Single("ClampDistanceMinRatio"),
    Single("ClampDistanceMaxRatio"), Single("ClampDistanceVelocityInfluence"), Bool("UseClampPositionLength"), Bezier("ClampPositionLength"),
    Single("ClampPositionRatioX"), Single("ClampPositionRatioY"), Single("ClampPositionRatioZ"), Single("ClampPositionVelocityInfluence"),
    Bool("UseClampRotation"), Bezier("ClampRotationAngle"), Single("ClampRotationVelocityInfluence"), Single("RestoreDistanceVelocityInfluence"),
    Bezier("StructDistanceStiffness"), Bool("UseBendDistance"), Int32("BendDistanceMaxCount"), Bezier("BendDistanceStiffness"),
    Bool("UseNearDistance"), Int32("NearDistanceMaxCount"), Single("NearDistanceMaxDepth"), Bezier("NearDistanceLength"), Bezier("NearDistanceStiffness"),
    Bool("UseRestoreRotation"), Bezier("RestoreRotation"), Single("RestoreRotationVelocityInfluence"), Bool("UseSpring"), Single("SpringPower"), Single("SpringRadius"),
    Single("SpringScaleX"), Single("SpringScaleY"), Single("SpringScaleZ"), Single("SpringIntensity"), Bezier("SpringDirectionAtten"), Bezier("SpringDistanceAtten"),
    Sparse, Int32("AdjustMode"), Single("AdjustRotationPower"), Bool("UseTriangleBend"), Bezier("TriangleBend"), Bool("UseVolume"), Single("MaxVolumeLength"),
    Bezier("VolumeStretchStiffness"), Bezier("VolumeShearStiffness"), Bool("UseCollision"), Single("Friction"), Bool("KeepInitialShape"),
    Bool("UsePenetration"), Int32("PenetrationMode"), Int32("PenetrationAxis"), Single("PenetrationMaxDepth"), Bezier("PenetrationConnectDistance"),
    Bezier("PenetrationDistance"), Bezier("PenetrationRadius"), Bool("UseLineAvarageRotation"), Bool("UseFixedNonRotation"), Vector("GravityDirection"),
    Single("MaxMoveSpeed"), Single("MaxRotationSpeed"), Int32("TeleportMode"), Single("ResetStabilizationTime"), Single("ClampRotationVelocityLimit")>>

DynamicBoneAnimationFrame == Object("Frame", <<Single("Time"), Single("Value"), Single("InTangent"), Single("OutTangent")>>)
KeyFrames(n) == List(n, <<DynamicBoneAnimationFrame>>)
DynamicBoneStatus ==
  <<Int32("Version"), Single("Damping"), KeyFrames("DampingKeyFrames"), Single("Elasticity"), KeyFrames("ElasticityKeyFrames"), Single("Stiffness"),
    KeyFrames("StiffnessKeyFrames"), Single("Inert"), KeyFrames("InertKeyFrames"), Single("RadiusValue"), KeyFrames("RadiusKeyFrames"), Single("EndLength"),
    Vector("EndOffset"), Vector("Gravity"), Vector("Force"), Int32("FreezeAxis")>>

\* What an extension holds: the kind of its own form and how the root is read
\* and written, then the kind and the form of the exporter's, if it has one.
Native(kind, read, write) == [kind |-> kind, read |-> read, write |-> write, exportKind |-> "", exportForm |-> ""]
Also(kind, read, write, exportKind, exportForm) ==
  [kind |-> kind, read |-> read, write |-> write, exportKind |-> exportKind, exportForm |-> exportForm]
Whole(L) == SubSeq(L, 1, Len(L) - 1)  \* without the End
DBConf == LET root == Object("DynamicBone", DynamicBoneStatus) IN Also("bone", <<root>>, <<root>>, "bone json", "text")
DBCol  == Also("collider", Whole(decodeColliderPackage), encodeColliderPackage, "collider json", "text")
DSLCol == Also("collider", Whole(decodeColliderPackage), encodeColliderPackage, "collider json", "str")
LimbCol    == Native("limb", Whole(decodeLimbCollider), encodeLimbCollider)
IKCol      == Native("ik", Whole(decodeIKCollider), encodeIKCollider)
IKColBytes == IKCol
DSBConf == LET root == Object("ClothParams", ClothParams) IN Native("cloth", <<root>>, <<root>>)
DSLConf == DSBConf
DB2Conf == Native("json string", <<Maybe("JSON")>>, <<Maybe("JSON")>>)
DSB2Conf == DB2Conf
DSL2Conf == DB2Conf

Roots(d) == Names(d.read) \ {"JSON"}
Envelope(format, storage, kind) == <<Implied("Format", format), Implied("StorageVariant", storage), Implied("Kind", kind)>>
NativeForm == "length and MessagePack"
decodeNative(d) ==
  Envelope("messagepack", NativeForm, d.kind) \o (IF d.kind = "json string" THEN <<>> ELSE <<Implied("JSON", Nil)>>) \o <<Frame("#i32", d.read), End>>
decodeExportCMPayload(d) == Envelope("exportcm", d.exportForm, d.exportKind) \o <<Some(d.exportForm, "JSON"), End>>
decodeKCESPayloadVariants(d) ==
  IF d.exportForm = "" THEN decodeNative(d) ELSE <<Either(decodeNative(d), decodeExportCMPayload(d))>>

encodeKCESPayloadVariant(d) ==
  <<Of("StorageVariant",
       (NativeForm :> <<Frame("#i32", d.write)>>) @@ (IF d.exportForm = "" THEN <<>> ELSE d.exportForm :> <<Get(d.exportForm, "JSON")>>))>>
\* No root but that of the kind is set.
validateKCESPayloadEnvelopeRoots(d, env) ==
  IF env.StorageVariant = NativeForm
  THEN env.Kind = d.kind /\ env.Format = "messagepack" /\ (d.kind = "json string" \/ env.JSON \in {Nil, ""})
  ELSE /\ d.exportForm # "" /\ env.StorageVariant = d.exportForm /\ env.Kind = d.exportKind /\ env.Format = "exportcm"
       /\ \A root \in Roots(d) : root \notin DOMAIN env \/ env[root] = <<>>
       /\ env.JSON \notin {Nil, ""}

(***************************************************************************)
(* KCES 2.                                                                 *)
(***************************************************************************)
BlendShapeDeltas(n) == List(n, <<Vectors("Frame")>>)
KCMesh ==
  Object("Mesh",
    <<Int32("Version"), Int32("IndexFormat"), Int32("VertexBufferCount"), Str("VertexBufferTargetStr"), Str("IndexBufferTargetStr"), Int32("BlendShapeCount"),
      Strings("BlendShapeNames"), List("BlendShapeFrameCount", <<Int32("Count")>>), BlendShapeDeltas("DeltaVertices"), BlendShapeDeltas("DeltaNormals"),
      BlendShapeDeltas("DeltaTangents"), List("BlendShapeFrameWeight", <<Single("Weight")>>), Vectors("BindPoses"), Bool("IsReadable"), Int32("VertexCount"),
      Int32("SubMeshCount"), Vectors("Vertices"), Vectors("Normals"), Vectors("Tangents"), Vectors("UV"), Vectors("UV2"), Vectors("UV3"), Vectors("UV4"),
      Vectors("UV5"), Vectors("UV6"), Vectors("UV7"), Vectors("UV8"), Vectors("Colors"), Vectors("Colors32"), List("Triangles", <<Int32("Index")>>),
      List("TrianglesInSubmesh", <<List("Indices", <<Int32("Index")>>)>>), List("BoneWeightWeight", <<Single("Weight")>>),
      List("BoneWeightIndex", <<Int32("Index")>>), Bin("BonePerVertex")>>)
DecodeKCMesh == <<KCMesh, End>>
EncodeKCMesh == <<KCMesh>>

KCMetaData ==
  Object("MetaData",
    <<Int32("Version"), Str("ModelFileName"), Str("FormTextureFileName"), Strings("MaterialPerOriginalMenuFileName"), Int32("BuildVersion"), Int32("GameVersion"),
      Str("GUID"), Str("SuspendedSaveFileName"), List("MaterialPerOriginalMenuVersion", <<Int32("MenuVersion")>>)>>)
DecodeKCMetaData == <<KCMetaData, End>>
EncodeKCMetaData == <<KCMetaData>>

DecodeKCMat  == <<Ref("#array", "Asset", SlotsRead("IndexedArrayWidth", MaterialWidths, Material)), End>>
EncodeKCMat  == <<Ref("#array", "Asset", SlotsWritten("IndexedArrayWidth", MaterialWidths, Material))>>
DecodeKCMenu == <<Ref("#array", "Asset", SlotsRead("IndexedArrayWidth", MenuWidths, Menu(ReadPartsColor, ReadPreMulTexDatas))), End>>
EncodeKCMenu == <<Ref("#array", "Asset", SlotsWritten("IndexedArrayWidth", MenuWidths, Menu(WritePartsColor, WritePreMulTexDatas)))>>

(***************************************************************************)
(* The saves of the hair editor are maps from the names of the fields, in  *)
(* the order the writer sorts them into; the reader takes any order.       *)
(***************************************************************************)
Named(pairs) == FoldLeft(LAMBDA L, pair : L \o <<Lit("str", pair[1]), pair[2]>>, <<Lit("#map", Len(pairs))>>, pairs)
Keyed(n, pairs) == Ref("#map", n, Named(pairs))
Ints(n)    == List(n, <<Int32("Value")>>)
Singles(n) == List(n, <<Single("Value")>>)
BaseDeformBoxData(n) ==
  Keyed(n, <<<<"bm", Bool("IsMesh")>>, <<"bno", Int32("Bunch")>>, <<"dn", Int32("DivisionCount")>>, <<"ep", Vector("EndPoint")>>, <<"fv", Vector("ForwardVector")>>,
             <<"igg", Ints("IgnoreGroups")>>, <<"igt", Ints("IgnoreTriangles")>>, <<"no", Int32("No")>>, <<"sp", Vector("StartPoint")>>,
             <<"sv", Vector("SideVector")>>, <<"uv", Vector("UpDownVector")>>, <<"v", Int32("Version")>>>>)
BunchDeformParameter ==
  Keyed("Param", <<<<"cp", Single("CurlPosition")>>, <<"cr", Single("CurlRadius")>>, <<"cw", Single("CurlPower")>>, <<"df", Int32("DeformFlags")>>,
                   <<"nl", Singles("LengthPowers")>>, <<"nmp", Vectors("MovePowers")>>, <<"nwh", Vectors("WidthH")>>, <<"nwv", Vectors("WidthV")>>,
                   <<"rpl", Singles("RollParams")>>, <<"v", Int32("Version")>>>>)
BunchDeformData == Keyed("Deform", <<<<"bbox", BaseDeformBoxData("BaseBox")>>, <<"prm", BunchDeformParameter>>, <<"ubox", BaseDeformBoxData("UseBox")>>>>)
BunchDeformedData ==
  Keyed("Bunch", <<<<"base", Bool("IsBase")>>, <<"bno", Int32("BunchNo")>>, <<"dlst", List("DeformList", <<BunchDeformData>>)>>, <<"hid", Str("HairID")>>,
                   <<"op", Vector("Position")>>, <<"or", Vector("Rotation")>>, <<"os", Vector("Scale")>>>>)
MixHairBuildData ==
  Keyed("MixHair", <<<<"bunchs", List("Bunches", <<BunchDeformedData>>)>>, <<"cat", Int32("Category")>>, <<"creater", Str("UserName")>>, <<"date", Str("Date")>>,
                     <<"desc", Str("Description")>>, <<"guid", Str("GUID")>>, <<"name", Str("MixName")>>, <<"type", Int32("Type")>>, <<"v", Int32("Version")>>>>)
HairSilhouetteParameter ==
  Keyed("SilhouetteData", <<<<"values", Vectors("DeformValues")>>, <<"xdiv", Ints("XDivisionPoints")>>, <<"ydiv", Ints("YDivisionPoints")>>, <<"zdiv", Ints("ZDivisionPoints")>>>>)
HairSilhouettePresetParameter ==
  Keyed("SilhouettePreset", <<<<"blend", Single("Blend")>>, <<"deform", Single("DeformAmount")>>, <<"no", Int32("Number")>>, <<"ver", Int32("Version")>>>>)
HairMakeBuildData ==
  Keyed("Save", <<<<"build_ver", Int32("BuildVersion")>>, <<"game_ver", Int32("GameVersion")>>, <<"hair", MixHairBuildData>>,
                  <<"preset", HairSilhouettePresetParameter>>, <<"silhouette", HairSilhouetteParameter>>>>)
DecodeHairMakeSave == <<HairMakeBuildData, End>>
EncodeHairMakeSave == <<HairMakeBuildData>>

(***************************************************************************)
(* The edit data of a preset's properties.  A colour preset is held as the *)
(* bytes of a file of its own.                                             *)
(***************************************************************************)
KCESPresetEditBaseData(preset) ==
  Object("BaseData",
    <<Int32("Version"),
      Object("ColorPreset", <<Str("ID"), Ref("#array", "SerializeBinary", <<Frame("#array", preset)>>)>>),
      Dict("Flags", <<Get("str", "Key"), Str("Value")>>)>>)
DecodeKCESPresetEditBaseData == <<KCESPresetEditBaseData(Whole(decodeColorPreset)), End>>
EncodeKCESPresetEditBaseData == <<KCESPresetEditBaseData(EncodeColorPreset)>>
\* Bytes that hold nil are a nil preset, for which no bytes are written.
collapseKCESPresetEditColorPreset(color) ==
  [color EXCEPT !.SerializeBinary = SelectSeq(@, LAMBDA held : held.Preset # <<>>)]
KCESPresetEditUnitData == Object("UnitData", <<Int32("Version"), Single("PositionX"), Single("PositionY"), Str("WarpointName")>>)
DecodeKCESPresetEditUnitData == <<KCESPresetEditUnitData, End>>
EncodeKCESPresetEditUnitData == <<KCESPresetEditUnitData>>
OnColorPreset(data, Op(_)) == [data EXCEPT !.BaseData = InOpt(@, LAMBDA base : [base EXCEPT !.ColorPreset = InOpt(@, Op)])]
PresetsOf(data) ==
  UNION {UNION {Range(color.SerializeBinary) : color \in Range(base.ColorPreset)} : base \in Range(data.BaseData)}
=============================================================================
