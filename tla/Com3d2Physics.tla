------------------------- MODULE Com3d2Physics -------------------------
(***************************************************************************)
(* The codecs of the COM3D2 physics files: .psk (the panier of a skirt),   *)
(* .phy (a dynamic bone) and .col (the colliders).                         *)
(***************************************************************************)
EXTENDS Layouts

\* AnimationCurve: each keyframe is four floats.
ReadAnimationCurve(n)  == Arr("#i32", n, <<Get("f32x4", "Keyframe")>>)
WriteAnimationCurve(n) == Arr("#i32", n, <<Get("f32x4", "Keyframe")>>)

----------------------------------------------------------------------------
(* .psk: the groups of bones came with version 217. *)

ReadPskHead ==
  <<Get("str", "Signature"), Num("#i32", "Version"), Get("f32", "PanierRadius"),
    ReadAnimationCurve("PanierRadiusDistrib"),
    If("Version", AtLeast(217), <<
      Arr("#i32", "PanierRadiusDistribGroups",
          <<Get("str", "BoneName"), Get("f32", "Radius"), ReadAnimationCurve("Curve")>>)>>)>>

\* (Mutant: what is missing at the end stays at zero.)
ReadPskTailLenient ==
  <<Get("f32", "PanierForce"), ReadAnimationCurve("PanierForceDistrib"),
    Get("f32", "PanierStressForce"), Get("f32", "StressDegreeMin"), Get("f32", "StressDegreeMax"),
    Get("f32", "StressMinScale"), Get("f32", "ScaleEaseSpeed"),
    Get("f32", "PanierForceDistanceThreshold"), Get("i32", "CalcTime"),
    Get("f32", "VelocityForceRate"), ReadAnimationCurve("VelocityForceRateDistrib"),
    Rest(<<Get("f32x3", "Gravity"), ReadAnimationCurve("GravityDistrib"), Get("f32x4", "HardValues")>>)>>
ReadPskTail ==
  <<Get("f32", "PanierForce"), ReadAnimationCurve("PanierForceDistrib"),
    Get("f32", "PanierStressForce"), Get("f32", "StressDegreeMin"), Get("f32", "StressDegreeMax"),
    Get("f32", "StressMinScale"), Get("f32", "ScaleEaseSpeed"),
    Get("f32", "PanierForceDistanceThreshold"), Get("i32", "CalcTime"),
    Get("f32", "VelocityForceRate"), ReadAnimationCurve("VelocityForceRateDistrib"),
    Get("f32x3", "Gravity"), ReadAnimationCurve("GravityDistrib"), Get("f32x4", "HardValues")>>

ReadPsk == ReadPskHead \o ReadPskTail

DumpPskGroups ==
  Arr("#i32", "PanierRadiusDistribGroups",
      <<Get("str", "BoneName"), Get("f32", "Radius"), WriteAnimationCurve("Curve")>>)

DumpPsk ==
  <<Get("str", "Signature"), Num("#i32", "Version"), Get("f32", "PanierRadius"),
    WriteAnimationCurve("PanierRadiusDistrib"), If("Version", AtLeast(217), <<DumpPskGroups>>),
    Get("f32", "PanierForce"), WriteAnimationCurve("PanierForceDistrib"),
    Get("f32", "PanierStressForce"), Get("f32", "StressDegreeMin"), Get("f32", "StressDegreeMax"),
    Get("f32", "StressMinScale"), Get("f32", "ScaleEaseSpeed"),
    Get("f32", "PanierForceDistanceThreshold"), Get("i32", "CalcTime"),
    Get("f32", "VelocityForceRate"), WriteAnimationCurve("VelocityForceRateDistrib"),
    Get("f32x3", "Gravity"), WriteAnimationCurve("GravityDistrib"), Get("f32x4", "HardValues")>>

validatePskForDump(psk) == psk.Version < 217 => psk.PanierRadiusDistribGroups = <<>>

----------------------------------------------------------------------------
(* .phy: a partial mode of 1 is followed by one value for each bone named. *)

PartialModePartial == 1

readPartial(mode, values) ==
  <<Num("#i32", mode),
    If(mode, Is(PartialModePartial), <<Arr("#i32", values, <<Get("str", "BoneName"), Get("f32", "Value")>>)>>)>>
writePartial(mode, values) ==
  <<Num("#i32", mode),
    If(mode, Is(PartialModePartial), <<Arr("#i32", values, <<Get("str", "BoneName"), Get("f32", "Value")>>)>>)>>

ReadPhyForces ==
  readPartial("EnablePartialDamping", "PartialDamping")
    \o <<Get("f32", "Damping"), ReadAnimationCurve("DampingDistrib")>>
    \o readPartial("EnablePartialElasticity", "PartialElasticity")
    \o <<Get("f32", "Elasticity"), ReadAnimationCurve("ElasticityDistrib")>>
    \o readPartial("EnablePartialStiffness", "PartialStiffness")
    \o <<Get("f32", "Stiffness"), ReadAnimationCurve("StiffnessDistrib")>>
    \o readPartial("EnablePartialInert", "PartialInert")
    \o <<Get("f32", "Inert"), ReadAnimationCurve("InertDistrib")>>
    \o readPartial("EnablePartialRadius", "PartialRadius")
    \o <<Get("f32", "Radius"), ReadAnimationCurve("RadiusDistrib")>>

ReadPhyRest ==
  <<Get("f32", "EndLength"), Get("f32x3", "EndOffset"), Get("f32x3", "Gravity"), Get("f32x3", "Force"),
    Get("str", "ColliderFileName"), Size("#i32", "CollidersCount"), Size("#i32", "ExclusionsCount"), Get("i32", "FreezeAxis")>>

ReadPhy == <<Get("str", "Signature"), Get("i32", "Version"), Get("str", "RootName")>>
             \o ReadPhyForces \o ReadPhyRest

DumpPhy ==
  <<Get("str", "Signature"), Get("i32", "Version"), Get("str", "RootName")>>
    \o writePartial("EnablePartialDamping", "PartialDamping")
    \o <<Get("f32", "Damping"), WriteAnimationCurve("DampingDistrib")>>
    \o writePartial("EnablePartialElasticity", "PartialElasticity")
    \o <<Get("f32", "Elasticity"), WriteAnimationCurve("ElasticityDistrib")>>
    \o writePartial("EnablePartialStiffness", "PartialStiffness")
    \o <<Get("f32", "Stiffness"), WriteAnimationCurve("StiffnessDistrib")>>
    \o writePartial("EnablePartialInert", "PartialInert")
    \o <<Get("f32", "Inert"), WriteAnimationCurve("InertDistrib")>>
    \o writePartial("EnablePartialRadius", "PartialRadius")
    \o <<Get("f32", "Radius"), WriteAnimationCurve("RadiusDistrib"),
         Get("f32", "EndLength"), Get("f32x3", "EndOffset"), Get("f32x3", "Gravity"), Get("f32x3", "Force"),
         Get("str", "ColliderFileName"), Size("#i32", "CollidersCount"), Size("#i32", "ExclusionsCount"),
         Get("i32", "FreezeAxis")>>

PartialOf(phy) ==
  {<<phy.EnablePartialDamping, phy.PartialDamping>>, <<phy.EnablePartialElasticity, phy.PartialElasticity>>,
   <<phy.EnablePartialStiffness, phy.PartialStiffness>>, <<phy.EnablePartialInert, phy.PartialInert>>,
   <<phy.EnablePartialRadius, phy.PartialRadius>>}
validatePhyForDump(phy) ==
  /\ phy.CollidersCount >= 0 /\ phy.ExclusionsCount >= 0
  /\ \A p \in PartialOf(phy) : p[1] # PartialModePartial => p[2] = <<>>

----------------------------------------------------------------------------
(* .col: a type name before each collider says what follows. *)

ReadBase ==
  <<Get("str", "ParentName"), Get("str", "SelfName"), Get("f32x3", "LocalPosition"), Get("f32x4", "LocalRotation"),
    Get("f32x3", "LocalScale"), Get("i32", "Direction"), Get("f32x3", "Center"), Get("i32", "Bound")>>
WriteBase ==
  <<Get("str", "ParentName"), Get("str", "SelfName"), Get("f32x3", "LocalPosition"), Get("f32x4", "LocalRotation"),
    Get("f32x3", "LocalScale"), Get("i32", "Direction"), Get("f32x3", "Center"), Get("i32", "Bound")>>

ReadDbc == <<Rec("Base", ReadBase), Get("f32", "Radius"), Get("f32", "Height")>>
WriteDbc == <<Rec("Base", WriteBase), Get("f32", "Radius"), Get("f32", "Height")>>
ReadDpc == <<Rec("Base", ReadBase)>>
WriteDpc == <<Rec("Base", WriteBase)>>
ReadDbm == <<Rec("Base", ReadBase), Get("f32", "Radius"), Get("f32", "Height"),
             Get("f32", "ScaleRateMulMax"), Get("f32x3", "CenterRateMax")>>
WriteDbm == <<Rec("Base", WriteBase), Get("f32", "Radius"), Get("f32", "Height"),
              Get("f32", "ScaleRateMulMax"), Get("f32x3", "CenterRateMax")>>
ReadMissing == <<>>
WriteMissing == <<>>

ReadCol ==
  <<Get("str", "Signature"), Get("i32", "Version"),
    Arr("#i32", "Colliders",
        <<Tag("TypeName"), Kinds("TypeName", [dbc |-> ReadDbc, dpc |-> ReadDpc, dbm |-> ReadDbm, missing |-> ReadMissing])>>)>>
DumpCol ==
  <<Get("str", "Signature"), Get("i32", "Version"),
    Arr("#i32", "Colliders",
        <<Tag("TypeName"), Kinds("TypeName", [dbc |-> WriteDbc, dpc |-> WriteDpc, dbm |-> WriteDbm, missing |-> WriteMissing])>>)>>

\* A collider that needs a base has one; here it always has.
validateColliderForDump(col) == \A i \in DOMAIN col.Colliders : col.Colliders[i].TypeName \in {"dbc", "dpc", "dbm", "missing"}
=============================================================================
