------------------------ MODULE Com3d2Animation ------------------------
(***************************************************************************)
(* The codecs of .anm and of the dance files: the objects of a dance and   *)
(* its timeline.                                                           *)
(***************************************************************************)
EXTENDS Layouts

CONSTANT MaxEventParameterDepth  \* how deep the arrays of event parameters nest
ASSUME DepthPositive == MaxEventParameterDepth \in Nat \ {0}

(* .anm: a byte tells what comes: 1 a bone, 100 and more a curve of the    *)
(* last bone, 0 the end.  The two flags of the bust may be missing.        *)

ReadAnm ==
  <<Get("str", "Signature"), Num("#i32", "Version"),
    Until("#byte", "BoneCurves", {0},
      <<Lit("#byte", 1), Get("str", "BonePath"),
        Until("#byte", "PropertyCurves", {0, 1},
          <<SizePlus("#byte", "PropertyIndex", 100), Arr("#i32", "Keyframes", <<Get("f32x4", "Keyframe")>>)>>)>>),
    Lit("#byte", 0),
    Rest(<<Num("#bool", "BustKeyLeft"), Rest(<<Num("#bool", "BustKeyRight")>>)>>)>>
DumpAnm ==
  <<Get("str", "Signature"), Num("#i32", "Version"),
    Until("#byte", "BoneCurves", {0},
      <<Lit("#byte", 1), Get("str", "BonePath"),
        Until("#byte", "PropertyCurves", {0, 1},
          <<SizePlus("#byte", "PropertyIndex", 100), Arr("#i32", "Keyframes", <<Get("f32x4", "Keyframe")>>)>>)>>),
    Lit("#byte", 0),
    If("Version", AtLeast(1001), <<Num("#bool", "BustKeyLeft"), Num("#bool", "BustKeyRight")>>)>>

\* (Mutant: the last index is refused.)
validateAnmForDumpNarrow(anm) ==
  /\ anm.Version < 1001 => anm.BustKeyLeft = 0 /\ anm.BustKeyRight = 0
  /\ \A b \in DOMAIN anm.BoneCurves : \A p \in DOMAIN anm.BoneCurves[b].PropertyCurves :
       anm.BoneCurves[b].PropertyCurves[p].PropertyIndex \in 0 .. 154
validateAnmForDump(anm) ==
  /\ anm.Version < 1001 => anm.BustKeyLeft = 0 /\ anm.BustKeyRight = 0
  /\ \A b \in DOMAIN anm.BoneCurves : \A p \in DOMAIN anm.BoneCurves[b].PropertyCurves :
       anm.BoneCurves[b].PropertyCurves[p].PropertyIndex \in 0 .. 155

----------------------------------------------------------------------------
(* The objects of a dance. *)

ReadDanceObjectData ==
  <<Arr("#i32", "Entries",
      <<Get("i32", "TargetMaidNo"), Get("str", "ObjectName"), Get("str", "TopObjectName"),
        Get("str", "ResourcesPath"), Get("str", "TreePath"),
        Arr("#i32", "ObjectReferenceTrackIDList", <<Get("i32", "TrackID")>>)>>)>>
DumpDanceObjectData ==
  <<Arr("#i32", "Entries",
      <<Get("i32", "TargetMaidNo"), Get("str", "ObjectName"), Get("str", "TopObjectName"),
        Get("str", "ResourcesPath"), Get("str", "TreePath"),
        Arr("#i32", "ObjectReferenceTrackIDList", <<Get("i32", "TrackID")>>)>>)>>

----------------------------------------------------------------------------
(* The timeline: tracks of four types until the name "Finish". *)

ReadTranslationTrack ==
  <<Get("i32", "TrackID"), Size("#i32", "TotalFrame"), Get("str", "ObjectTreePath"),
    Times("TotalFrame", "PosArray", <<Get("f32x3", "Position")>>)>>
WriteTranslationTrack ==
  <<Get("i32", "TrackID"), Size("#i32", "TotalFrame"), Get("str", "ObjectTreePath"),
    Each("PosArray", <<Get("f32x3", "Position")>>)>>
ReadRotationTrack ==
  <<Get("i32", "TrackID"), Size("#i32", "TotalFrame"), Get("str", "ObjectTreePath"),
    Times("TotalFrame", "QuaternionArray", <<Get("f32x4", "Rotation")>>)>>
WriteRotationTrack ==
  <<Get("i32", "TrackID"), Size("#i32", "TotalFrame"), Get("str", "ObjectTreePath"),
    Each("QuaternionArray", <<Get("f32x4", "Rotation")>>)>>

\* Values of one of four types, none for a type that is not known.
ReadPropertyTrack ==
  <<Get("i32", "TrackID"), Num("#i32", "TotalFrame"), Get("str", "ObjectTreePath"),
    Num("#i32", "ValueType"), Get("str", "ComponentName"), Get("str", "PropertyName"),
    On("ValueType",
         0 :> <<Arr("#i32", "IntValArray", <<Get("i32", "Int")>>)>>
      @@ 2 :> <<Arr("#i32", "FloatValArray", <<Get("f32", "Float")>>)>>
      @@ 5 :> <<Arr("#i32", "Vec3ValArray", <<Get("f32x3", "Vec3")>>)>>
      @@ 6 :> <<Arr("#i32", "ColorValArray", <<Get("f32x4", "Color")>>)>>),
    Arr("#i32", "IndexArray", <<Get("i32", "Key"), Get("i32", "Value")>>)>>
WritePropertyTrack ==
  <<Get("i32", "TrackID"), Num("#i32", "TotalFrame"), Get("str", "ObjectTreePath"),
    Num("#i32", "ValueType"), Get("str", "ComponentName"), Get("str", "PropertyName"),
    On("ValueType",
         0 :> <<Arr("#i32", "IntValArray", <<Get("i32", "Int")>>)>>
      @@ 2 :> <<Arr("#i32", "FloatValArray", <<Get("f32", "Float")>>)>>
      @@ 5 :> <<Arr("#i32", "Vec3ValArray", <<Get("f32x3", "Vec3")>>)>>
      @@ 6 :> <<Arr("#i32", "ColorValArray", <<Get("f32x4", "Color")>>)>>),
    Arr("#i32", "IndexArray", <<Get("i32", "Key"), Get("i32", "Value")>>)>>
validatePropertyTrackForDump(track) ==
  LET arrays == 0 :> track.IntValArray @@ 2 :> track.FloatValArray @@ 5 :> track.Vec3ValArray @@ 6 :> track.ColorValArray
  IN track.TotalFrame >= 0 /\ \A t \in DOMAIN arrays : t # track.ValueType => arrays[t] = <<>>

\* The parameter of an event: one value, or an array of parameters.
EventValues ==
     0 :> <<Get("i32", "ValInt")>> @@ 1 :> <<Get("i32", "ValInt")>>
  @@ 2 :> <<Get("f32", "ValFloat")>> @@ 3 :> <<Get("f32", "ValFloat")>>
  @@ 4 :> <<Ptr("ValVect2", <<Get("f32x2", "Vect2")>>)>> @@ 5 :> <<Ptr("ValVect3", <<Get("f32x3", "Vect3")>>)>>
  @@ 6 :> <<Ptr("ValVect4", <<Get("f32x4", "Vect4")>>)>> @@ 7 :> <<Ptr("ValColor", <<Get("f32x4", "ARGB")>>)>>
  @@ 8 :> <<Ptr("ValRect", <<Get("f32x4", "Rect")>>)>>
  @@ 9 :> <<Get("str", "ValString")>> @@ 10 :> <<Get("str", "ValString")>> @@ 11 :> <<Get("str", "ValString")>>
  @@ 13 :> <<Get("bool", "ValBool")>>

RECURSIVE readEventParameterDepth(_), writeEventParameterDepth(_), validateEventParameterForDump(_, _), SettledParameter(_)
readEventParameterDepth(depth) ==
  IF depth >= MaxEventParameterDepth THEN <<Stop>>
  ELSE <<Num("#i32", "ValueType"),
         On("ValueType", EventValues @@ 12 :> <<Arr("#i32", "Array", readEventParameterDepth(depth + 1))>>)>>
writeEventParameterDepth(depth) ==
  IF depth >= MaxEventParameterDepth THEN <<Stop>>
  ELSE <<Num("#i32", "ValueType"),
         On("ValueType", EventValues @@ 12 :> <<Arr("#i32", "Array", writeEventParameterDepth(depth + 1))>>)>>

Pointers == 4 :> "ValVect2" @@ 5 :> "ValVect3" @@ 6 :> "ValVect4" @@ 7 :> "ValColor" @@ 8 :> "ValRect"
validateEventParameterForDump(p, depth) ==
  /\ depth < MaxEventParameterDepth
  /\ IF p.ValueType = 12
     THEN \A i \in DOMAIN p.Array : validateEventParameterForDump(p.Array[i], depth + 1)
     ELSE p.Array = <<>> /\ (p.ValueType \in DOMAIN Pointers => p[Pointers[p.ValueType]] # <<>>)

\* What is left of a parameter in a file: the value of its type alone.
SettledParameter(p) ==
  LET blank == Blank(readEventParameterDepth(0))
      kept == {"ValueType"} \cup (IF p.ValueType \in DOMAIN EventValues THEN Names(EventValues[p.ValueType]) ELSE {})
  IN IF p.ValueType = 12 THEN [blank EXCEPT !.ValueType = 12, !.Array = [i \in DOMAIN p.Array |-> SettledParameter(p.Array[i])]]
     ELSE [n \in DOMAIN p |-> IF n \in kept THEN p[n] ELSE blank[n]]

ReadEventTrack ==
  <<Get("i32", "TrackID"), Num("#i32", "TotalFrame"), Get("str", "ObjectTreePath"),
    Arr("#i32", "MethodDataArray",
      <<Get("i32", "StartFrame"), Get("str", "ComponentName"), Get("str", "MethodName"),
        Flagged("#bool", "#i32", "Params", readEventParameterDepth(0))>>)>>
WriteEventTrack ==
  <<Get("i32", "TrackID"), Num("#i32", "TotalFrame"), Get("str", "ObjectTreePath"),
    Arr("#i32", "MethodDataArray",
      <<Get("i32", "StartFrame"), Get("str", "ComponentName"), Get("str", "MethodName"),
        Flagged("#bool", "#i32", "Params", writeEventParameterDepth(0))>>)>>

ReadTimelineData ==
  <<Lit("str", "BaseData"), Num("#i32", "TotalFrame"), Get("i32", "FrameRate"),
    Until("str", "Tracks", {"Finish"},
      <<Tag("Type"), Kinds("Type", [Translation |-> ReadTranslationTrack, Rotation |-> ReadRotationTrack,
                                    Property |-> ReadPropertyTrack, Event |-> ReadEventTrack])>>),
    Lit("str", "Finish")>>
DumpTimelineData ==
  <<Lit("str", "BaseData"), Num("#i32", "TotalFrame"), Get("i32", "FrameRate"),
    Until("str", "Tracks", {"Finish"},
      <<Tag("Type"), Kinds("Type", [Translation |-> WriteTranslationTrack, Rotation |-> WriteRotationTrack,
                                    Property |-> WritePropertyTrack, Event |-> WriteEventTrack])>>),
    Lit("str", "Finish")>>

EventParameters(track) ==
  UNION {Range(track.MethodDataArray[m].Params) : m \in DOMAIN track.MethodDataArray}
\* The frame counts are checked by the writer only.
FramesLegal(timeline) ==
  timeline.TotalFrame >= 0 /\ \A t \in Range(timeline.Tracks) : t.TotalFrame >= 0
validateTrackFrameArray(frames, array) == frames = Len(array)
validateTimelineDataForDump(timeline) ==
  /\ FramesLegal(timeline)
  /\ \A t \in Range(timeline.Tracks) :
       CASE t.Type = "Translation" -> validateTrackFrameArray(t.TotalFrame, t.PosArray)
         [] t.Type = "Rotation"    -> validateTrackFrameArray(t.TotalFrame, t.QuaternionArray)
         [] t.Type = "Property"    -> validatePropertyTrackForDump(t)
         [] t.Type = "Event"       -> \A p \in EventParameters(t) : validateEventParameterForDump(p, 0)

SettledTimeline(timeline) ==
  LET Settle(t) ==
        IF t.Type # "Event" THEN t
        ELSE [t EXCEPT !.MethodDataArray = [m \in DOMAIN @ |-> [@[m] EXCEPT !.Params = [i \in DOMAIN @ |-> SettledParameter(@[i])]]]]
  IN [timeline EXCEPT !.Tracks = [i \in DOMAIN @ |-> Settle(@[i])]]
=============================================================================
