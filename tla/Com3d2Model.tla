--------------------------- MODULE Com3d2Model --------------------------
(***************************************************************************)
(* The codec of .model: bones, vertices, submeshes, materials, morphs and  *)
(* the thickness of the skin.  The flags of the optional channels, locals  *)
(* of the reader and of the writer, are kept with the document.            *)
(***************************************************************************)
EXTENDS Com3d2Material

Shadowed == Between(2104, 2199)  \* versions with a mode for shadows
Vec2(n) == Ptr(n, <<Get("f32x2", n)>>)

ReadModelHead ==
  <<Get("str", "Signature"), Num("#i32", "Version"), Get("str", "Name"), Get("str", "RootBoneName"),
    Cnt("#i32", "Bones"),
    If("Version", Shadowed, <<Ptr("ShadowCastingMode", <<Get("str", "Mode")>>)>>)>>
ReadModelBones ==
  <<Each("Bones", <<Get("str", "Name"), Get("bool", "HasScale")>>),
    Each("Bones", <<Get("i32", "ParentIndex")>>),
    Each("Bones", <<Get("f32x3", "Position"), Get("f32x4", "Rotation"),
                    If("Version", AtLeast(2001), <<Opt("#bool", "Scale", <<Get("f32x3", "Scale3")>>)>>)>>)>>
ReadModelCounts == <<Size("#i32", "VertCount"), Size("#i32", "SubMeshCount"), Size("#i32", "BoneCount")>>
ReadModelSkeleton ==
  <<Times("BoneCount", "BoneNames", <<Get("str", "BoneName")>>),
    Times("BoneCount", "BindPoses", <<Get("f32x16", "BindPose")>>)>>
Channels == <<"UV2", "UV3", "UV4", "Unknown1", "Unknown2", "Unknown3", "Unknown4">>
Flag(channel) == "has" \o channel
ReadModelChannels ==
  <<If("Version", AtLeast(2101), [i \in DOMAIN Channels |-> Num("#bool", Flag(Channels[i]))])>>
ReadModelVertices ==
  <<Times("VertCount", "Vertices",
      <<Get("f32x3", "Position"), Get("f32x3", "Normal"), Get("f32x2", "UV")>>
        \o [i \in DOMAIN Channels |-> If(Flag(Channels[i]), Is(1), <<Vec2(Channels[i])>>)])>>
ReadModelTangents == <<Arr("#i32", "Tangents", <<Get("f32x4", "Tangent")>>)>>
ReadModelBoneWeights == <<Times("VertCount", "BoneWeights", <<Get("u16x4", "BoneIndex"), Get("f32x4", "Weight")>>)>>
ReadModelSubMeshes ==
  <<Times("SubMeshCount", "SubMeshes", <<Arr("#i32", "Triangles", <<Num("#u16", "Index")>>)>>)>>
ReadModelMaterials == <<Arr("#i32", "Materials", readMaterial)>>

\* The four slices of a morph, which go together, are one of corners.
ReadMorphData ==
  <<Get("str", "MorphName"), Cnt("#i32", "Corners"),
    If("Version", AtLeast(2102), <<Num("#bool", "HasTangents")>>),
    Each("Corners", <<Num("#u16", "Index"), Get("f32x3", "Vertex"), Get("f32x3", "Normal"),
                      If("HasTangents", Is(1), <<Get("f32x4", "Tangent")>>)>>)>>
\* Tags other than these two are passed over; no writer leaves one.
ReadModelTags == <<Until("str", "MorphData", {"end"}, <<Lit("str", "morph")>> \o ReadMorphData), Lit("str", "end")>>

readThickDefPerAngle == <<Get("i32", "AngleDegree"), Get("i32", "VertexIndex"), Get("f32", "DefaultDistance")>>
readThickPoint ==
  <<Get("str", "TargetBoneName"), Get("f32", "RatioSegmentStartToEnd"),
    Arr("#i32", "DistanceParAngle", readThickDefPerAngle)>>
readThickGroup ==
  <<Get("str", "GroupName"), Get("str", "StartBoneName"), Get("str", "EndBoneName"),
    Get("i32", "StepAngleDegree"), Arr("#i32", "Points", readThickPoint)>>
ReadSkinThickness ==
  <<Get("str", "SkinSignature"), Get("i32", "SkinVersion"), Get("bool", "Use"),
    Map("#i32", "Groups", <<Get("key", "Key")>> \o readThickGroup)>>
\* The flag itself may be missing.
ReadModelSkin ==
  <<If("Version", AtLeast(2100), <<Rest(<<Opt("#flag", "SkinThickness", ReadSkinThickness)>>)>>)>>

ReadModel ==
  ReadModelHead \o ReadModelBones \o ReadModelCounts \o ReadModelSkeleton \o ReadModelChannels
    \o ReadModelVertices \o ReadModelTangents \o ReadModelBoneWeights \o ReadModelSubMeshes
    \o ReadModelMaterials \o ReadModelTags \o ReadModelSkin

(* The head of a model alone: the rest is passed over, by its length. *)
ReadMetadataBones ==
  <<Get("str", "Signature"), Num("#i32", "Version"), Get("str", "Name"), Get("str", "RootBoneName"),
    Cnt("#i32", "Bones"), If("Version", Shadowed, <<Ptr("ShadowCastingMode", <<Get("str", "Mode")>>)>>),
    Each("Bones", <<Skip("str"), Skip("bool")>>), Each("Bones", <<Skip("i32")>>),
    Each("Bones", <<Skip("f32x3"), Skip("f32x4"), If("Version", AtLeast(2001), <<Opt("#bool", "Scale", <<Skip("f32x3")>>)>>)>>)>>
ReadMetadataVertices ==
  <<Size("#i32", "VertCount"), Size("#i32", "SubMeshCount"), Size("#i32", "BoneCount"),
    Times("BoneCount", "BoneNames", <<Skip("str")>>), Times("BoneCount", "BindPoses", <<Skip("f32x16")>>),
    If("Version", AtLeast(2101), [i \in DOMAIN Channels |-> Num("#bool", Flag(Channels[i]))]),
    Times("VertCount", "Vertices",
      <<Skip("f32x3"), Skip("f32x3"), Skip("f32x2")>>
        \o [i \in DOMAIN Channels |-> If(Flag(Channels[i]), Is(1), <<Skip("f32x2")>>)])>>
ReadModelMetadata ==
  ReadMetadataBones \o ReadMetadataVertices
    \o <<Arr("#i32", "Tangents", <<Skip("f32x4")>>), Times("VertCount", "BoneWeights", <<Skip("u16x4"), Skip("f32x4")>>),
         Times("SubMeshCount", "SubMeshes", <<Arr("#i32", "Triangles", <<Skip("#u16")>>)>>),
         Arr("#i32", "Materials", readMaterial)>>

----------------------------------------------------------------------------
DumpModelBones ==
  <<Get("str", "Signature"), Num("#i32", "Version"), Get("str", "Name"), Get("str", "RootBoneName"),
    Cnt("#i32", "Bones"),
    If("Version", Shadowed, <<Ptr("ShadowCastingMode", <<Get("str", "Mode")>>)>>),
    Each("Bones", <<Get("str", "Name"), Get("bool", "HasScale")>>),
    Each("Bones", <<Get("i32", "ParentIndex")>>),
    Each("Bones", <<Get("f32x3", "Position"), Get("f32x4", "Rotation"),
                    If("Version", AtLeast(2001), <<Opt("#bool", "Scale", <<Get("f32x3", "Scale3")>>)>>)>>)>>
\* A vertex writes the channels it has.
DumpModelVertices ==
  <<Size("#i32", "VertCount"), Size("#i32", "SubMeshCount"), Size("#i32", "BoneCount"),
    Each("BoneNames", <<Get("str", "BoneName")>>), Each("BindPoses", <<Get("f32x16", "BindPose")>>),
    If("Version", AtLeast(2101), [i \in DOMAIN Channels |-> Num("#bool", Flag(Channels[i]))]),
    Each("Vertices",
      <<Get("f32x3", "Position"), Get("f32x3", "Normal"), Get("f32x2", "UV"),
        If("Version", AtLeast(2101), [i \in DOMAIN Channels |-> Each(Channels[i], <<Get("f32x2", Channels[i])>>)])>>)>>
writeMorphData ==
  <<Get("str", "MorphName"), Cnt("#i32", "Corners"),
    If("Version", AtLeast(2102), <<Num("#bool", "HasTangents")>>),
    Each("Corners", <<Num("#u16", "Index"), Get("f32x3", "Vertex"), Get("f32x3", "Normal"),
                      If("HasTangents", Is(1), <<Get("f32x4", "Tangent")>>)>>)>>
writeThickDefPerAngle == <<Get("i32", "AngleDegree"), Get("i32", "VertexIndex"), Get("f32", "DefaultDistance")>>
writeThickPoint ==
  <<Get("str", "TargetBoneName"), Get("f32", "RatioSegmentStartToEnd"),
    Arr("#i32", "DistanceParAngle", writeThickDefPerAngle)>>
writeThickGroup ==
  <<Get("str", "GroupName"), Get("str", "StartBoneName"), Get("str", "EndBoneName"),
    Get("i32", "StepAngleDegree"), Arr("#i32", "Points", writeThickPoint)>>
writeSkinThickness ==
  <<Get("str", "SkinSignature"), Get("i32", "SkinVersion"), Get("bool", "Use"),
    Map("#i32", "Groups", <<Get("key", "Key")>> \o writeThickGroup)>>
DumpModelRest ==
  <<Arr("#i32", "Tangents", <<Get("f32x4", "Tangent")>>),
    Each("BoneWeights", <<Get("u16x4", "BoneIndex"), Get("f32x4", "Weight")>>),
    Each("SubMeshes", <<Arr("#i32", "Triangles", <<Num("#u16", "Index")>>)>>),
    Arr("#i32", "Materials", DumpMaterial),
    Until("str", "MorphData", {"end"}, <<Lit("str", "morph")>> \o writeMorphData), Lit("str", "end"),
    If("Version", AtLeast(2100), <<Opt("#flag", "SkinThickness", writeSkinThickness)>>)>>
DumpModel == DumpModelBones \o DumpModelVertices \o DumpModelRest

----------------------------------------------------------------------------
\* The counts follow the slices, the channels the first vertex.
CountedModel(model) ==
  [n \in DOMAIN model |->
     CASE n = "VertCount" -> Len(model.Vertices)
       [] n = "SubMeshCount" -> Len(model.SubMeshes)
       [] n = "BoneCount" -> Len(model.BoneNames)
       [] \E i \in DOMAIN Channels : n = Flag(Channels[i]) ->
            LET c == CHOOSE i \in DOMAIN Channels : n = Flag(Channels[i])
            IN IF model.Vertices = <<>> \/ model.Version < 2101 THEN 0 ELSE Len(model.Vertices[1][Channels[c]])
       [] OTHER -> model[n]]

modelChannelsForVertex(vertex) == [i \in DOMAIN Channels |-> vertex[Channels[i]] # <<>>]
validateModelVertexChannels(model) ==
  \A v \in Range(model.Vertices) :
    /\ modelChannelsForVertex(v) = modelChannelsForVertex(model.Vertices[1])
    /\ model.Version < 2101 => \A i \in DOMAIN Channels : v[Channels[i]] = <<>>
UInt16(index) == index \in 0 .. 65535
validateMorphDataForDump(morph, version) ==
  /\ \A c \in Range(morph.Corners) : UInt16(c.Index)
  /\ version < 2102 => morph.HasTangents = 0
validateModelForDump(model) ==
  /\ Len(model.BoneNames) = Len(model.BindPoses) /\ Len(model.BoneWeights) = Len(model.Vertices)
  /\ (model.ShadowCastingMode # <<>>) = Within(model.Version, Shadowed)
  /\ model.Version < 2001 => \A b \in Range(model.Bones) : b.Scale = <<>>
  /\ validateModelVertexChannels(model)
  /\ \A s \in Range(model.SubMeshes) : \A t \in Range(s.Triangles) : UInt16(t.Index)
  /\ \A m \in Range(model.Materials) : validateMaterialForDump(m)
  /\ \A m \in Range(model.MorphData) : validateMorphDataForDump(m, model.Version)
  /\ model.Version < 2100 => model.SkinThickness = <<>>
\* A morph without tangents has none for a corner either.
SettledMorph(morph) ==
  IF morph.HasTangents = 1 THEN morph ELSE [morph EXCEPT !.Corners = [i \in DOMAIN @ |-> [@[i] EXCEPT !.Tangent = ""]]]
SettledModel(model) ==
  [CountedModel(model) EXCEPT !.Materials = [i \in DOMAIN @ |-> SettledMaterial(@[i])],
                              !.MorphData = [i \in DOMAIN @ |-> SettledMorph(@[i])]]
SettledModelHead(model) ==
  Fields(SettledModel(model), {"Signature", "Version", "Name", "RootBoneName", "ShadowCastingMode", "Materials"})
=============================================================================
