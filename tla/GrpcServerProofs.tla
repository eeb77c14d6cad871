-------------------------- MODULE GrpcServerProofs --------------------------
(***************************************************************************)
(* However many calls and streams there are, whatever they produce and in  *)
(* whatever order the store refuses, fails and closes: a response keeps    *)
(* its inline budget, and no blob is left that nobody can name.            *)
(***************************************************************************)
EXTENDS GrpcServer, Induction

-----------------------------------------------------------------------------
(* The invariant                                                            *)

\* The blobs of a call that its cleanup would still delete, and those that it
\* has given up: the removal failed.
Pending(c)   == {created[c][k] : k \in DOMAIN created[c]}
OrphansOf(c) == (BlobsOf(c) \ Pending(c)) \cap stored
Orphans      == UNION {OrphansOf(c) : c \in Calls}

\* A call captures what it has produced, and nothing before.
CapturedBy(c) ==
    /\ pc[c] \in {"start", "resolved"} => parts[c] = <<>> /\ created[c] = <<>>
    /\ pc[c] = "failed" => created[c] = <<>>
    /\ Len(parts[c]) <= Len(artifact[c])
    /\ BlobsOf(c) \subseteq used

Captured == \A c \in Calls : CapturedBy(c)

\* Each orphan is a removal that failed.
OrphansCounted == ~closed => Cardinality(Orphans) <= faults

\* The budget is what is inline and what remains.
BudgetKept ==
    \A c \in Calls : InlineSizes(parts[c], artifact[c]) + remaining[c] = MaxInline

\* The store closes before the process ends, and then only failed removals and
\* no uploads are left.
Ending ==
    /\ closed <=> main \in {"waiting", "exited"}
    /\ main = "exited" =>
         Cardinality(stored) <= faults /\ \A u \in Uploads : stream[u] # "open"

IInv == TypeOK /\ Captured /\ OrphansCounted /\ BudgetKept /\ Ending

-----------------------------------------------------------------------------
(* Orphans                                                                  *)

LEMMA OrphansFinite ==
  ASSUME IsFiniteSet(stored)
  PROVE  Orphans \subseteq stored /\ IsFiniteSet(Orphans) /\ Cardinality(Orphans) \in Nat
<1>1. Orphans \subseteq stored
  BY DEF Orphans, OrphansOf
<1> QED
  BY <1>1, FS_Subset, FS_CardinalityType

\* A step that makes no orphan, and one that makes one as a removal fails.
LEMMA NoMoreOrphans ==
  ASSUME TypeOK, TypeOK', OrphansCounted, closed' = closed,
         Orphans' \subseteq Orphans, faults <= faults'
  PROVE  OrphansCounted'
<1>1. IsFiniteSet(Orphans) /\ Cardinality(Orphans) \in Nat
  BY OrphansFinite DEF TypeOK
<1>2. Cardinality(Orphans') <= Cardinality(Orphans) /\ Cardinality(Orphans') \in Nat
  BY <1>1, FS_Subset, FS_CardinalityType
<1> QED
  BY <1>1, <1>2 DEF OrphansCounted, TypeOK

LEMMA OneMoreOrphan ==
  ASSUME TypeOK, TypeOK', OrphansCounted, closed' = closed,
         NEW x, Orphans' \subseteq Orphans \cup {x}, faults' = faults + 1
  PROVE  OrphansCounted'
<1>1. IsFiniteSet(Orphans) /\ Cardinality(Orphans) \in Nat
  BY OrphansFinite DEF TypeOK
<1>2. IsFiniteSet(Orphans \cup {x}) /\ Cardinality(Orphans \cup {x}) <= Cardinality(Orphans) + 1
      /\ Cardinality(Orphans \cup {x}) \in Nat
  <2> HIDE DEF Orphans
  <2>1. /\ IsFiniteSet(Orphans \cup {x})
        /\ Cardinality(Orphans \cup {x}) = IF x \in Orphans THEN Cardinality(Orphans) ELSE Cardinality(Orphans) + 1
    BY <1>1, FS_AddElement
  <2> QED
    BY <1>1, <2>1, FS_CardinalityType
<1>3. Cardinality(Orphans') <= Cardinality(Orphans \cup {x}) /\ Cardinality(Orphans') \in Nat
  BY <1>2, FS_Subset, FS_CardinalityType
<1> QED
  BY <1>1, <1>2, <1>3 DEF OrphansCounted, TypeOK

-----------------------------------------------------------------------------
(* The budget                                                               *)

Captures(captured, sizes) ==
    captured \in Seq(Ids \cup {"inline"}) /\ sizes \in Seq(Nat) /\ Len(captured) <= Len(sizes)

\* What is inline is the sum of the parts that are.
LEMMA SizesAreSums ==
  ASSUME NEW captured, NEW sizes, Captures(captured, sizes)
  PROVE  \E f : /\ AreSums(f, [k \in 1..Len(captured) |-> InlineSize(captured, sizes, k)], Len(captured))
                /\ InlineSizes(captured, sizes) = f[Len(captured)]
                /\ InlineSizes(captured, sizes) \in Nat
<1> DEFINE n == Len(captured)
           w == [k \in 1..n |-> InlineSize(captured, sizes, k)]
           P(g) == g = [k \in 0..n |-> IF k = 0 THEN 0 ELSE g[k - 1] + InlineSize(captured, sizes, k)]
           s == CHOOSE g : P(g)
<1>1. n \in Nat /\ \A k \in 1..n : InlineSize(captured, sizes, k) \in Nat
  BY DEF Captures, InlineSize
<1>2. w \in [1..n -> Nat]
  BY <1>1
<1>3. PICK f : AreSums(f, w, n) /\ f \in [0..n -> Nat]
  <2> HIDE DEF n, w
  <2> QED
    BY <1>1, <1>2, SumsExist
<1>4. ASSUME NEW g PROVE P(g) <=> AreSums(g, w, n)
  <2>1. \A k \in 0..n : k # 0 => w[k] = InlineSize(captured, sizes, k)
    BY <1>1
  <2>2. [k \in 0..n |-> IF k = 0 THEN 0 ELSE g[k - 1] + InlineSize(captured, sizes, k)]
          = [k \in 0..n |-> IF k = 0 THEN 0 ELSE g[k - 1] + w[k]]
    <3> HIDE DEF w, n
    <3> QED
      BY <2>1
  <2> QED
    BY <2>2, Zenon DEF AreSums
<1>5. P(s)
  BY <1>3, <1>4
<1>6. InlineSizes(captured, sizes) = s[n]
  BY DEF InlineSizes
<1>7. s[n] = f[n] /\ f[n] \in Nat
  <2>1. AreSums(s, w, n)
    BY <1>4, <1>5
  <2> HIDE DEF n, w, s, P
  <2>2. n \in Nat /\ n \in 0..n
    BY <1>1
  <2>3. s[n] = f[n]
    BY <1>3, <2>1, <2>2, SumsUnique
  <2> QED
    BY <1>3, <2>2, <2>3
<1> QED
  <2>1. AreSums(f, w, n) /\ InlineSizes(captured, sizes) = f[n] /\ InlineSizes(captured, sizes) \in Nat
    BY <1>3, <1>6, <1>7
  <2> QED
    BY <2>1

LEMMA NothingInline ==
  ASSUME NEW sizes \in Seq(Nat)
  PROVE  InlineSizes(<<>>, sizes) = 0
<1>1. Captures(<<>>, sizes) /\ Len(<<>>) = 0
  BY DEF Captures
<1>2. PICK f : /\ AreSums(f, [k \in 1..0 |-> InlineSize(<<>>, sizes, k)], 0)
               /\ InlineSizes(<<>>, sizes) = f[0]
  BY <1>1, SizesAreSums
<1>3. f[0] = 0
  BY <1>2 DEF AreSums
<1> QED
  BY <1>2, <1>3

\* A part that is added adds its size.
LEMMA SizesGrow ==
  ASSUME NEW captured, NEW sizes, NEW part, Captures(captured, sizes),
         Captures(Append(captured, part), sizes)
  PROVE  InlineSizes(Append(captured, part), sizes)
           = InlineSizes(captured, sizes) + IF part = "inline" THEN sizes[Len(captured) + 1] ELSE 0
<1> DEFINE more == Append(captured, part)
           n == Len(captured)
           m == Len(more)
           w == [k \in 1..n |-> InlineSize(captured, sizes, k)]
           v == [k \in 1..m |-> InlineSize(more, sizes, k)]
<1>1. n \in Nat /\ m = n + 1 /\ m \in Nat
  BY DEF Captures
<1>2. PICK f : AreSums(f, w, n) /\ InlineSizes(captured, sizes) = f[n]
  BY SizesAreSums
<1>3. PICK g : AreSums(g, v, m) /\ InlineSizes(more, sizes) = g[m]
  BY SizesAreSums
<1>4. \A k \in 1..n : w[k] = v[k]
  BY <1>1 DEF InlineSize, Captures
<1>5. v[m] = IF part = "inline" THEN sizes[n + 1] ELSE 0
  BY <1>1 DEF InlineSize, Captures
<1>6. g[m] = f[n] + v[m]
  <2> HIDE DEF n, m, w, v
  <2> QED
    BY <1>1, <1>2, <1>3, <1>4, SumsExtend
<1> QED
  BY <1>2, <1>3, <1>5, <1>6

-----------------------------------------------------------------------------
(* The steps of a call                                                      *)

LEMMA NewIdIsNew ==
  ASSUME TypeOK, Room
  PROVE  NewId \in Ids /\ NewId \notin used
BY DEF TypeOK, Room, NewId

CallTyped(c) ==
    /\ TypeOK'
    /\ UNCHANGED <<stream, stopVars>>
    /\ \A d \in Calls \ {c} :
         /\ pc'[d] = pc[d] /\ artifact'[d] = artifact[d] /\ parts'[d] = parts[d]
         /\ created'[d] = created[d] /\ remaining'[d] = remaining[d]

LEMMA CallType ==
  ASSUME TypeOK, Captured, NEW c \in Calls, CallStep(c)
  PROVE  CallTyped(c)
<1>1. CASE Resolve(c)
  BY <1>1, ZenonT(60) DEF Resolve, TypeOK, CallTyped, Goto, storeVars, stopVars
<1>2. CASE Produce(c)
  BY <1>2, FilesAssumption DEF Produce, TypeOK, CallTyped, Goto, storeVars, stopVars
<1>3. CASE CaptureInline(c)
  <2>1. Size(c) \in Nat /\ remaining[c] - Size(c) \in Nat
    BY <1>3 DEF CaptureInline, Capturing, Inline, Size, TypeOK
  <2> QED
    BY <1>3, <2>1 DEF CaptureInline, TypeOK, CallTyped, storeVars, stopVars
<1>4. CASE CaptureBlob(c)
  <2>1. NewId \in Ids
    BY <1>4, NewIdIsNew DEF CaptureBlob
  <2>2. IsFiniteSet(stored \cup {NewId})
    BY FS_AddElement DEF TypeOK
  <2> QED
    BY <1>4, <2>1, <2>2 DEF CaptureBlob, TypeOK, CallTyped, stopVars
<1>5. CASE PutFails(c)
  BY <1>5 DEF PutFails, TypeOK, CallTyped, Goto, storeVars, stopVars
<1>6. CASE Cleanup(c)
  <2>1. IsFiniteSet(stored \ {Head(created[c])}) /\ IsFiniteSet(stored)
    BY FS_RemoveElement DEF TypeOK
  <2>2. IsFiniteSet(stored')
    BY <1>6, <2>1 DEF Cleanup
  <2> QED
    BY <1>6, <2>2 DEF Cleanup, TypeOK, CallTyped, stopVars
<1>7. CASE Return(c)
  BY <1>7 DEF Return, TypeOK, CallTyped, Goto, storeVars, stopVars
<1> QED
  BY <1>1, <1>2, <1>3, <1>4, <1>5, <1>6, <1>7 DEF CallStep

\* The calls that a step of another one leaves alone.
LEMMA OtherCalls ==
  ASSUME TypeOK, Captured, BudgetKept, NEW c \in Calls, CallTyped(c), used \subseteq used',
         CapturedBy(c)', (InlineSizes(parts[c], artifact[c]) + remaining[c] = MaxInline)'
  PROVE  Captured' /\ BudgetKept'
<1>1. ASSUME NEW d \in Calls, d # c PROVE CapturedBy(d)'
  <2>1. BlobsOf(d)' = BlobsOf(d)
    BY <1>1 DEF CallTyped, BlobsOf
  <2> QED
    BY <1>1, <2>1 DEF CallTyped, Captured, CapturedBy
<1>2. ASSUME NEW d \in Calls, d # c
      PROVE  InlineSizes(parts'[d], artifact'[d]) + remaining'[d] = MaxInline
  BY <1>2 DEF CallTyped, BudgetKept
<1> QED
  BY <1>1, <1>2 DEF Captured, BudgetKept

LEMMA CallCaptures ==
  ASSUME IInv, NEW c \in Calls, CallStep(c), CallTyped(c)
  PROVE  used \subseteq used' /\ CapturedBy(c)'
<1> USE DEF IInv, Captured, CapturedBy, TypeOK
<1>0. BlobsOf(c)' = {parts'[c][k] : k \in DOMAIN parts'[c]} \ {"inline"}
  BY DEF BlobsOf
<1>1. CASE Resolve(c)
  BY <1>1 DEF Resolve, Goto, storeVars, BlobsOf
<1>2. CASE Produce(c)
  <2>1. BlobsOf(c)' = {} /\ parts'[c] = <<>> /\ Len(<<>>) = 0
    BY <1>2 DEF Produce, BlobsOf
  <2>2. artifact'[c] \in Seq(Nat)
    BY DEF CallTyped
  <2> QED
    BY <1>2, <2>1, <2>2 DEF Produce, Goto, storeVars
<1>3. CASE CaptureInline(c)
  <2>1. parts'[c] = Append(parts[c], "inline") /\ Len(parts[c]) < Len(artifact[c])
    BY <1>3 DEF CaptureInline, Capturing
  <2>2. BlobsOf(c)' \subseteq BlobsOf(c)
    BY <2>1 DEF BlobsOf
  <2> QED
    BY <1>3, <2>1, <2>2 DEF CaptureInline, Capturing, storeVars
<1>4. CASE CaptureBlob(c)
  <2>1. parts'[c] = Append(parts[c], NewId) /\ Len(parts[c]) < Len(artifact[c])
    BY <1>4 DEF CaptureBlob, Capturing
  <2>2. BlobsOf(c)' \subseteq BlobsOf(c) \cup {NewId}
    BY <2>1 DEF BlobsOf
  <2> QED
    BY <1>4, <2>1, <2>2 DEF CaptureBlob, Capturing
<1>5. CASE PutFails(c)
  BY <1>5 DEF PutFails, Goto, storeVars, BlobsOf, Capturing
<1>6. CASE Cleanup(c)
  BY <1>6 DEF Cleanup, BlobsOf
<1>7. CASE Return(c)
  <2>1. BlobsOf(c)' = BlobsOf(c)
    BY <1>7 DEF Return, BlobsOf
  <2> QED
    BY <1>7, <2>1 DEF Return, Goto, storeVars
<1> QED
  BY <1>1, <1>2, <1>3, <1>4, <1>5, <1>6, <1>7 DEF CallStep

LEMMA CallBudget ==
  ASSUME IInv, NEW c \in Calls, CallStep(c), CallTyped(c), CapturedBy(c)'
  PROVE  InlineSizes(parts'[c], artifact'[c]) + remaining'[c] = MaxInline
<1> DEFINE part == parts'[c][Len(parts[c]) + 1]
<1>0. InlineSizes(parts[c], artifact[c]) + remaining[c] = MaxInline /\ MaxInline \in Nat
  BY CaptureAssumption DEF IInv, BudgetKept
<1>1. CASE parts'[c] = parts[c] /\ artifact'[c] = artifact[c] /\ remaining'[c] = remaining[c]
  BY <1>0, <1>1
<1>2. CASE Produce(c)
  <2>1. parts'[c] = <<>> /\ parts[c] = <<>> /\ remaining'[c] = remaining[c]
    BY <1>2 DEF Produce, IInv, Captured, CapturedBy
  <2>2. artifact'[c] \in Seq(Nat) /\ artifact[c] \in Seq(Nat)
    BY DEF CallTyped, IInv, TypeOK
  <2> QED
    BY <1>0, <2>1, <2>2, NothingInline
<1>3. CASE CaptureInline(c) \/ CaptureBlob(c)
  <2>1. /\ parts'[c] = Append(parts[c], part) /\ artifact'[c] = artifact[c]
        /\ \/ part = "inline" /\ remaining'[c] = remaining[c] - Size(c)
           \/ part # "inline" /\ remaining'[c] = remaining[c]
    <3>1. CASE CaptureInline(c)
      BY <3>1 DEF CaptureInline, IInv, TypeOK
    <3>2. CASE CaptureBlob(c)
      <4>1. NewId # "inline"
        BY <3>2, NewIdIsNew, FilesAssumption DEF CaptureBlob, IInv
      <4> QED
        BY <3>2, <4>1 DEF CaptureBlob, IInv, TypeOK
    <3> QED
      BY <1>3, <3>1, <3>2
  <2>2. Captures(parts[c], artifact[c]) /\ Captures(parts'[c], artifact'[c])
    BY DEF Captures, IInv, Captured, CapturedBy, TypeOK, CallTyped
  <2>3. InlineSizes(parts'[c], artifact'[c])
          = InlineSizes(parts[c], artifact[c]) + IF part = "inline" THEN Size(c) ELSE 0
    <3>1. Captures(Append(parts[c], part), artifact[c])
      BY <2>1, <2>2
    <3> HIDE DEF part
    <3>2. InlineSizes(Append(parts[c], part), artifact[c])
            = InlineSizes(parts[c], artifact[c])
                + IF part = "inline" THEN artifact[c][Len(parts[c]) + 1] ELSE 0
      BY <2>2, <3>1, SizesGrow
    <3> QED
      BY <2>1, <3>2 DEF Size
  <2>4. InlineSizes(parts[c], artifact[c]) \in Nat
    BY <2>2, SizesAreSums
  <2>5. Size(c) \in Nat /\ remaining[c] \in Nat
    BY <1>3 DEF CaptureInline, CaptureBlob, Capturing, Size, IInv, TypeOK
  <2> QED
    BY <1>0, <2>1, <2>3, <2>4, <2>5
<1> QED
  BY <1>1, <1>2, <1>3 DEF CallStep, Resolve, PutFails, Cleanup, Return, IInv, TypeOK

\* A removal takes one blob off the list of a call.
LEMMA HeadAndTail ==
  ASSUME NEW S, NEW s \in Seq(S), s # <<>>
  PROVE  {s[k] : k \in DOMAIN s} \subseteq {Tail(s)[k] : k \in DOMAIN Tail(s)} \cup {Head(s)}
<1>1. ASSUME NEW k \in DOMAIN s, k # 1
      PROVE  k - 1 \in DOMAIN Tail(s) /\ s[k] = Tail(s)[k - 1]
  BY <1>1
<1>2. s[1] = Head(s)
  OBVIOUS
<1> QED
  BY <1>1, <1>2

\* What is stored in a step is new, so it makes no orphan of another call.
StoresNew == (stored' \ stored) \cap used = {}

LEMMA OrphansOfOthers ==
  ASSUME Captured, NEW c \in Calls, CallTyped(c), StoresNew, NEW x,
         OrphansOf(c)' \subseteq OrphansOf(c) \cup x
  PROVE  Orphans' \subseteq Orphans \cup x
<1>1. ASSUME NEW d \in Calls, d # c PROVE OrphansOf(d)' \subseteq OrphansOf(d)
  <2>1. BlobsOf(d)' = BlobsOf(d) /\ Pending(d)' = Pending(d) /\ BlobsOf(d) \subseteq used
    BY <1>1 DEF CallTyped, BlobsOf, Pending, Captured, CapturedBy
  <2> QED
    BY <2>1 DEF OrphansOf, StoresNew
<1> QED
  BY <1>1 DEF Orphans

LEMMA CallOrphans ==
  ASSUME IInv, NEW c \in Calls, CallStep(c), CallTyped(c)
  PROVE  OrphansCounted'
<1> DEFINE x == Head(created[c])
<1>0. /\ TypeOK /\ TypeOK' /\ Captured /\ OrphansCounted /\ closed' = closed
      /\ parts[c] \in Seq(Ids \cup {"inline"}) /\ created[c] \in Seq(Ids)
      /\ faults \in Nat
  BY DEF IInv, TypeOK, CallTyped, stopVars
<1>same. faults' = faults => faults <= faults'
  BY <1>0
<1>1. ASSUME parts'[c] = parts[c], created'[c] = created[c], stored' = stored, faults' = faults
      PROVE  OrphansCounted'
  <2>1. OrphansOf(c)' \subseteq OrphansOf(c) /\ StoresNew
    BY <1>1 DEF OrphansOf, BlobsOf, Pending, StoresNew
  <2>2. Orphans' \subseteq Orphans
    BY <1>0, <2>1, OrphansOfOthers
  <2> QED
    BY <1>0, <1>1, <2>2, <1>same, NoMoreOrphans
<1>2. CASE CaptureInline(c)
  <2>1. /\ parts'[c] = Append(parts[c], "inline") /\ created'[c] = created[c]
        /\ stored' = stored /\ faults' = faults
    BY <1>2 DEF CaptureInline, TypeOK, IInv, storeVars
  <2>2. BlobsOf(c)' \subseteq BlobsOf(c) /\ Pending(c)' = Pending(c)
    BY <1>0, <2>1 DEF BlobsOf, Pending
  <2>3. OrphansOf(c)' \subseteq OrphansOf(c) /\ StoresNew
    BY <2>1, <2>2 DEF OrphansOf, StoresNew
  <2>4. Orphans' \subseteq Orphans
    BY <1>0, <2>3, OrphansOfOthers
  <2> QED
    BY <1>0, <2>1, <2>4, <1>same, NoMoreOrphans
<1>3. CASE CaptureBlob(c)
  <2>1. /\ parts'[c] = Append(parts[c], NewId) /\ created'[c] = Append(created[c], NewId)
        /\ stored' = stored \cup {NewId} /\ faults' = faults
        /\ NewId \in Ids /\ NewId \notin used
    BY <1>3, NewIdIsNew DEF CaptureBlob, TypeOK, IInv
  <2>2. BlobsOf(c)' \subseteq BlobsOf(c) \cup {NewId}
    BY <1>0, <2>1 DEF BlobsOf
  <2>3. Pending(c) \cup {NewId} \subseteq Pending(c)'
    <3>1. \A k \in DOMAIN created[c] :
            k \in DOMAIN created'[c] /\ created'[c][k] = created[c][k]
      BY <1>0, <2>1
    <3>2. Len(created[c]) + 1 \in DOMAIN created'[c] /\ created'[c][Len(created[c]) + 1] = NewId
      BY <1>0, <2>1
    <3> QED
      BY <3>1, <3>2 DEF Pending
  <2>4. OrphansOf(c)' \subseteq OrphansOf(c) /\ StoresNew
    BY <2>1, <2>2, <2>3 DEF OrphansOf, StoresNew
  <2>5. Orphans' \subseteq Orphans
    BY <1>0, <2>4, OrphansOfOthers
  <2> QED
    BY <1>0, <2>1, <2>5, <1>same, NoMoreOrphans
<1>4. CASE Cleanup(c)
  <2>1. /\ parts'[c] = parts[c] /\ created'[c] = Tail(created[c]) /\ created[c] # <<>>
        /\ stored' \subseteq stored
    BY <1>4 DEF Cleanup, TypeOK, IInv
  <2>2. BlobsOf(c)' = BlobsOf(c) /\ Pending(c) \subseteq Pending(c)' \cup {x}
    BY <1>0, <2>1, HeadAndTail DEF BlobsOf, Pending
  <2>3. OrphansOf(c)' \subseteq OrphansOf(c) \cup {x} /\ StoresNew
    BY <2>1, <2>2 DEF OrphansOf, StoresNew
  <2>4. CASE closed
    BY <1>0, <2>4 DEF OrphansCounted
  <2>5. CASE ~closed /\ stored' = stored \ {x} /\ faults' = faults
    <3>1. OrphansOf(c)' \subseteq OrphansOf(c)
      BY <2>5, <2>2 DEF OrphansOf
    <3>2. Orphans' \subseteq Orphans
      BY <1>0, <2>3, <3>1, OrphansOfOthers
    <3> QED
      BY <1>0, <2>5, <3>2, <1>same, NoMoreOrphans
  <2>6. CASE faults' = faults + 1
    <3>1. Orphans' \subseteq Orphans \cup {x}
      BY <1>0, <2>3, OrphansOfOthers
    <3> QED
      BY <1>0, <2>6, <3>1, OneMoreOrphan
  <2> QED
    BY <1>4, <2>4, <2>5, <2>6 DEF Cleanup
<1> QED
  BY <1>1, <1>2, <1>3, <1>4 DEF CallStep, Resolve, Produce, PutFails, Return, storeVars

LEMMA CallKeeps ==
  ASSUME IInv, NEW c \in Calls, CallStep(c)
  PROVE  IInv'
<1>1. CallTyped(c)
  BY CallType DEF IInv
<1>2. used \subseteq used' /\ CapturedBy(c)'
  BY <1>1, CallCaptures
<1>3. InlineSizes(parts'[c], artifact'[c]) + remaining'[c] = MaxInline
  BY <1>1, <1>2, CallBudget
<1>4. Captured' /\ BudgetKept'
  BY <1>1, <1>2, <1>3, OtherCalls DEF IInv
<1>5. OrphansCounted'
  BY <1>1, CallOrphans
<1>6. main # "exited"
  BY DEF CallStep, Resolve, Produce, CaptureInline, CaptureBlob, PutFails, Cleanup, Return,
         Accepting, Capturing, Running
<1>7. Ending'
  BY <1>1, <1>6 DEF IInv, Ending, CallTyped, stopVars
<1> QED
  BY <1>1, <1>4, <1>5, <1>7 DEF IInv, CallTyped

-----------------------------------------------------------------------------
(* The other steps                                                          *)

\* A step that is not of a call touches nothing that one has captured.
LEMMA NotACall ==
  ASSUME IInv, TypeOK', UNCHANGED callVars, used \subseteq used', StoresNew,
         (closed' = closed /\ faults' = faults) \/ closed', Ending'
  PROVE  IInv'
<1>1. Captured' /\ BudgetKept'
  <2>1. ASSUME NEW c \in Calls PROVE CapturedBy(c)'
    <3>1. BlobsOf(c)' = BlobsOf(c)
      BY DEF callVars, BlobsOf
    <3> QED
      BY <3>1 DEF IInv, Captured, CapturedBy, callVars
  <2> QED
    BY <2>1 DEF Captured, BudgetKept, IInv, callVars
<1>2. OrphansCounted'
  <2>1. CASE closed'
    BY <2>1 DEF OrphansCounted
  <2>2. CASE closed' = closed /\ faults' = faults
    <3>1. ASSUME NEW c \in Calls PROVE OrphansOf(c)' \subseteq OrphansOf(c)
      <4>1. BlobsOf(c)' = BlobsOf(c) /\ Pending(c)' = Pending(c) /\ BlobsOf(c) \subseteq used
        BY DEF callVars, BlobsOf, Pending, IInv, Captured, CapturedBy
      <4> QED
        BY <4>1 DEF OrphansOf, StoresNew
    <3>2. Orphans' \subseteq Orphans
      BY <3>1 DEF Orphans
    <3>3. faults <= faults'
      BY <2>2 DEF IInv, TypeOK
    <3> QED
      BY <2>2, <3>2, <3>3, NoMoreOrphans DEF IInv
  <2> QED
    BY <2>1, <2>2
<1> QED
  BY <1>1, <1>2 DEF IInv

LEMMA StreamKeeps ==
  ASSUME IInv, NEW u \in Streams,
         AcceptStream(u) \/ BeginStream(u) \/ Upload(u) \/ ClientEnds(u) \/ StreamCut(u)
  PROVE  IInv'
<1>1. main # "exited"
  BY DEF AcceptStream, BeginStream, Upload, ClientEnds, StreamCut, Accepting, Waiting, Running
<1>2. CASE Upload(u)
  <2>1. NewId \in Ids /\ NewId \notin used
    BY <1>2, NewIdIsNew DEF Upload, IInv
  <2>2. IsFiniteSet(stored \cup {NewId})
    BY FS_AddElement DEF IInv, TypeOK
  <2>3. TypeOK'
    BY <1>2, <2>1, <2>2 DEF Upload, EndStream, IInv, TypeOK, callVars, stopVars
  <2>4. UNCHANGED callVars /\ used \subseteq used' /\ StoresNew /\ closed' = closed /\ faults' = faults
    BY <1>2, <2>1 DEF Upload, StoresNew, stopVars
  <2>5. Ending'
    BY <1>1, <1>2 DEF Upload, IInv, Ending, stopVars
  <2> QED
    BY <2>3, <2>4, <2>5, NotACall
<1>3. ASSUME AcceptStream(u) \/ BeginStream(u) \/ ClientEnds(u) \/ StreamCut(u)
      PROVE  IInv'
  <2>1. UNCHANGED <<callVars, storeVars, stopVars>>
    BY <1>3 DEF AcceptStream, BeginStream, ClientEnds, StreamCut
  <2>2. stream' \in [Streams -> {"start", "accepted", "open", "ended"}]
    BY <1>3 DEF AcceptStream, BeginStream, ClientEnds, StreamCut, EndStream, IInv, TypeOK
  <2>3. TypeOK'
    BY <2>1, <2>2 DEF IInv, TypeOK, callVars, storeVars, stopVars
  <2>4. Ending'
    BY <1>1, <2>1 DEF IInv, Ending, stopVars
  <2>5. used \subseteq used' /\ StoresNew /\ closed' = closed /\ faults' = faults
    BY <2>1 DEF storeVars, stopVars, StoresNew
  <2> QED
    BY <2>1, <2>3, <2>4, <2>5, NotACall
<1> QED
  BY <1>2, <1>3

LEMMA VanishKeeps ==
  ASSUME IInv, Vanish
  PROVE  IInv'
<1>1. PICK i \in stored : stored' = stored \ {i}
  BY DEF Vanish
<1>2. IsFiniteSet(stored')
  BY <1>1, FS_RemoveElement DEF IInv, TypeOK
<1>3. TypeOK'
  BY <1>1, <1>2 DEF Vanish, IInv, TypeOK, callVars, stopVars
<1>4. Ending'
  BY DEF Vanish, IInv, Ending, Running, stopVars
<1>5. UNCHANGED callVars /\ used \subseteq used' /\ StoresNew /\ closed' = closed /\ faults' = faults
  BY <1>1 DEF Vanish, StoresNew, stopVars
<1> QED
  BY <1>3, <1>4, <1>5, NotACall

LEMMA StopKeeps ==
  ASSUME IInv, Signal \/ ServeFails \/ StopperStep \/ ServeReturns \/ CloseStore
  PROVE  IInv'
<1> USE DEF Signal, ServeFails, StopperStep, GracefulStop, Drained, Deadline, ServeReturns,
            CloseStore, StopperGoes
<1>1. UNCHANGED <<callVars, storeVars, stream>>
  OBVIOUS
<1>2. /\ main' \in {"serving", "closing", "waiting", "exited"}
      /\ stopper' \in {"idle", "signalled", "draining", "stopped", "drained"}
      /\ closed' \in BOOLEAN
      /\ closed' = closed \/ closed'
  BY DEF IInv, TypeOK
<1>3. TypeOK'
  BY <1>1, <1>2 DEF IInv, TypeOK, callVars, storeVars
<1>4. Ending'
  BY <1>1 DEF IInv, Ending, Running, TypeOK, storeVars
<1>5. used \subseteq used' /\ StoresNew /\ faults' = faults
  BY <1>1 DEF storeVars, StoresNew
<1> QED
  BY <1>1, <1>2, <1>3, <1>4, <1>5, NotACall

LEMMA ExitKeeps ==
  ASSUME IInv, Exit
  PROVE  IInv'
<1>1. PICK left \in SUBSET stored :
        faults' = faults + Cardinality(left) /\ stored' = left
  BY DEF Exit
<1>2. IsFiniteSet(left) /\ Cardinality(left) \in Nat
  BY <1>1, FS_Subset, FS_CardinalityType DEF IInv, TypeOK
<1>3. TypeOK'
  BY <1>1, <1>2 DEF Exit, IInv, TypeOK, callVars
<1>4. Ending'
  <2>1. closed' <=> main' \in {"waiting", "exited"}
    BY DEF Exit, IInv, Ending
  <2>2. Cardinality(stored') <= faults'
    BY <1>1, <1>2 DEF IInv, TypeOK
  <2> QED
    BY <2>1, <2>2 DEF Exit, Ending
<1>5. UNCHANGED callVars /\ used \subseteq used' /\ StoresNew /\ closed'
  BY <1>1 DEF Exit, StoresNew, IInv, Ending
<1> QED
  BY <1>3, <1>4, <1>5, NotACall

-----------------------------------------------------------------------------
(* The theorems                                                             *)

LEMMA Initially ==
  Init => IInv
<1> SUFFICES ASSUME Init PROVE IInv
  OBVIOUS
<1>1. TypeOK
  <2>1. \A S : <<>> \in Seq(S)
    OBVIOUS
  <2>2. IsFiniteSet({}) /\ MaxInline \in Nat
    BY FS_EmptySet, CaptureAssumption
  <2>3. /\ artifact \in [Calls -> Seq(Nat)]
        /\ parts \in [Calls -> Seq(Ids \cup {"inline"})]
        /\ created \in [Calls -> Seq(Ids)]
    BY <2>1 DEF Init
  <2> QED
    BY <2>2, <2>3 DEF Init, TypeOK
<1>2. Captured
  <2>1. ASSUME NEW c \in Calls PROVE CapturedBy(c)
    BY DEF Init, CapturedBy, BlobsOf
  <2> QED
    BY <2>1 DEF Captured
<1>3. OrphansCounted
  <2>1. Orphans = {}
    BY DEF Init, Orphans, OrphansOf
  <2>2. Cardinality(Orphans) = 0 /\ faults = 0
    BY <2>1, FS_EmptySet DEF Init
  <2> QED
    BY <2>2 DEF OrphansCounted
<1>4. BudgetKept
  <2>1. ASSUME NEW c \in Calls PROVE InlineSizes(parts[c], artifact[c]) = 0
    <3>1. parts[c] = <<>> /\ artifact[c] = <<>>
      BY DEF Init
    <3>2. InlineSizes(<<>>, artifact[c]) = 0
      BY <1>1, NothingInline DEF TypeOK
    <3> QED
      BY <3>1, <3>2
  <2> QED
    BY <2>1, CaptureAssumption DEF BudgetKept, Init
<1>5. Ending
  BY DEF Init, Ending
<1> QED
  BY <1>1, <1>2, <1>3, <1>4, <1>5 DEF IInv

LEMMA StepKeeps ==
  ASSUME IInv, [Next]_vars
  PROVE  IInv'
<1>1. CASE \E c \in Calls : CallStep(c)
  BY <1>1, CallKeeps
<1>2. CASE \E u \in Streams :
              AcceptStream(u) \/ BeginStream(u) \/ Upload(u) \/ ClientEnds(u) \/ StreamCut(u)
  BY <1>2, StreamKeeps
<1>3. CASE Vanish
  BY <1>3, VanishKeeps
<1>4. CASE Signal \/ ServeFails \/ StopperStep \/ ServeReturns \/ CloseStore
  BY <1>4, StopKeeps
<1>5. CASE Exit
  BY <1>5, ExitKeeps
<1>6. CASE UNCHANGED vars
  <2>1. UNCHANGED <<callVars, storeVars, stream, stopVars>>
    BY <1>6 DEF vars
  <2>2. TypeOK' /\ Ending'
    BY <2>1 DEF callVars, storeVars, stopVars, IInv, TypeOK, Ending
  <2>3. used \subseteq used' /\ StoresNew /\ closed' = closed /\ faults' = faults
    BY <2>1 DEF storeVars, stopVars, StoresNew
  <2> QED
    BY <2>1, <2>2, <2>3, NotACall
<1> QED
  BY <1>1, <1>2, <1>3, <1>4, <1>5, <1>6 DEF Next, MainStep

\* Calls, streams, the store and the shutdown keep the invariant.
THEOREM Invariant == Spec => []IInv
<1>1. Init => IInv
  BY Initially
<1>2. IInv /\ [Next]_vars => IInv'
  BY StepKeeps
<1> QED
  BY <1>1, <1>2, PTL DEF Spec

\* Every variable keeps its type, the list of created blobs among them.
THEOREM TypeCorrect == Spec => []TypeOK
<1>1. IInv => TypeOK
  BY DEF IInv
<1> QED
  BY <1>1, Invariant, PTL

\* A blob of a failed call is an orphan, as the call has no list any more.
\* (captureResult's cleanup)
THEOREM FailedCallsLeaveNothing == Spec => []NoOrphans
<1>1. ASSUME IInv PROVE NoOrphans
  <2> DEFINE Failed == UNION {BlobsOf(c) \cap stored : c \in {d \in Calls : pc[d] = "failed"}}
  <2>1. CASE ~closed
    <3>1. Failed \subseteq Orphans
      <4>1. ASSUME NEW c \in Calls, pc[c] = "failed"
            PROVE  BlobsOf(c) \cap stored = OrphansOf(c)
        BY <1>1, <4>1 DEF OrphansOf, Pending, IInv, Captured, CapturedBy
      <4> QED
        BY <4>1 DEF Orphans
    <3>2. IsFiniteSet(Orphans) /\ Cardinality(Orphans) \in Nat
      BY <1>1, OrphansFinite DEF IInv, TypeOK
    <3>3. Cardinality(Failed) <= Cardinality(Orphans) /\ Cardinality(Failed) \in Nat
      <4> HIDE DEF Failed
      <4> QED
        BY <3>1, <3>2, FS_Subset, FS_CardinalityType
    <3>4. Cardinality(Orphans) <= faults /\ faults \in Nat
      BY <1>1, <2>1 DEF IInv, OrphansCounted, TypeOK
    <3>5. Cardinality(Failed) <= faults
      <4> HIDE DEF Failed
      <4> QED
        BY <3>2, <3>3, <3>4
    <3> QED
      BY <1>1, <2>1, <3>5 DEF NoOrphans, IInv, Ending
  <2>2. CASE closed
    BY <1>1, <2>2 DEF NoOrphans, IInv, Ending
  <2> QED
    BY <2>1, <2>2, <1>1 DEF IInv, TypeOK
<1> QED
  BY <1>1, Invariant, PTL

\* The parts of a response that are inline fit the limit together.
\* (inlineRemaining)
THEOREM BudgetHolds == Spec => []InlineBudget
<1>1. ASSUME IInv PROVE InlineBudget
  <2>1. ASSUME NEW c \in Calls PROVE InlineSizes(parts[c], artifact[c]) <= MaxInline
    <3>1. Captures(parts[c], artifact[c]) /\ remaining[c] \in Nat
      BY <1>1 DEF IInv, TypeOK, Captured, CapturedBy, Captures
    <3>2. InlineSizes(parts[c], artifact[c]) \in Nat
      BY <3>1, SizesAreSums
    <3> QED
      BY <1>1, <3>1, <3>2 DEF IInv, BudgetKept
  <2> QED
    BY <2>1 DEF InlineBudget
<1> QED
  BY <1>1, Invariant, PTL

-----------------------------------------------------------------------------
(* The end of the server, without fairness: somebody can always go on, and  *)
(* nothing is done twice.                                                   *)

\* The removals that fail are bounded; Serve has not returned before something
\* stops the server; and behind a graceful stop there are no handlers.
Stopping ==
    /\ faults <= MaxFaults
    /\ main # "serving" => stopper # "idle"
    /\ stopper = "drained" => NoHandlers

LEMMA StoppingAtFirst == Init => Stopping
BY CaptureAssumption DEF Init, Stopping

LEMMA StoppingKept == IInv /\ Stopping /\ [Next]_vars => Stopping'
<1> SUFFICES ASSUME IInv, Stopping, [Next]_vars PROVE Stopping'
  OBVIOUS
<1> USE DEF Stopping
<1>1. ASSUME NEW c \in Calls, CallStep(c) PROVE Stopping'
  <2>1. UNCHANGED <<stream, stopVars>> /\ TypeOK'
    BY <1>1, CallType DEF IInv, CallTyped
  <2>2. faults' <= MaxFaults
    BY <1>1, CaptureAssumption DEF CallStep, Resolve, Produce, CaptureInline, CaptureBlob,
          PutFails, Cleanup, Return, storeVars, IInv, TypeOK
  <2>3. stopper = "drained" => FALSE
    BY <1>1 DEF CallStep, Resolve, Produce, CaptureInline, CaptureBlob, PutFails, Cleanup,
          Return, Accepting, Capturing, NoHandlers
  <2> QED
    BY <2>1, <2>2, <2>3 DEF stopVars
<1>2. ASSUME NEW u \in Streams,
             AcceptStream(u) \/ BeginStream(u) \/ Upload(u) \/ ClientEnds(u) \/ StreamCut(u)
      PROVE  Stopping'
  <2>1. UNCHANGED <<callVars, faults, stopVars>>
    BY <1>2 DEF AcceptStream, BeginStream, Upload, ClientEnds, StreamCut, storeVars
  <2>2. stopper = "drained" => FALSE
    BY <1>2 DEF AcceptStream, BeginStream, Upload, ClientEnds, StreamCut, Accepting, Waiting,
          NoHandlers
  <2> QED
    BY <2>1, <2>2 DEF stopVars
<1>3. CASE Vanish
  BY <1>3 DEF Vanish, callVars, stopVars, NoHandlers
<1>4. CASE Signal \/ ServeFails \/ StopperStep \/ ServeReturns \/ CloseStore
  BY <1>4 DEF Signal, ServeFails, StopperStep, GracefulStop, Drained, Deadline, ServeReturns,
        CloseStore, StopperGoes, NoHandlers, callVars, storeVars
<1>5. CASE Exit
  BY <1>5, FS_Subset, FS_CardinalityType DEF Exit, NoHandlers, callVars, IInv, TypeOK
<1>6. CASE UNCHANGED vars
  BY <1>6 DEF vars, callVars, storeVars, stopVars, NoHandlers
<1> QED
  BY <1>1, <1>2, <1>3, <1>4, <1>5, <1>6 DEF Next, MainStep

\* A server that was drained in time has cut nobody off: no handler runs any
\* more, and none begins (GracefulStop against the timer in cmd/grpc.go).
THEOREM NobodyCutOff == Spec => [](stopper = "drained" => NoHandlers)
<1>1. Spec => []Stopping
  BY Invariant, StoppingAtFirst, StoppingKept, PTL DEF Spec
<1>2. Stopping => (stopper = "drained" => NoHandlers)
  BY DEF Stopping
<1> QED
  BY <1>1, <1>2, PTL

\* The conditions under which the goroutine that stops the server, the one that
\* serves, and the handler of an open upload each have a step.
StopperCanGoOn == Running /\ stopper \in {"signalled", "draining"}

MainCanGoOn ==
    \/ main = "serving" /\ stopper \in {"stopped", "drained"}
    \/ main = "closing"
    \/ /\ main = "waiting"
       /\ \A u \in Uploads : stream[u] # "open"
       /\ \E left \in SUBSET stored : faults + Cardinality(left) <= MaxFaults

UploadCanBeCut(u) == Running /\ stream[u] = "open" /\ stopper = "stopped"

LEMMA SomebodyStops ==
  ASSUME IInv, Stopping, stopper # "idle", main # "exited"
  PROVE  StopperCanGoOn \/ MainCanGoOn \/ \E u \in Uploads : UploadCanBeCut(u)
<1> SUFFICES ASSUME ~StopperCanGoOn PROVE MainCanGoOn \/ \E u \in Uploads : UploadCanBeCut(u)
  OBVIOUS
<1>1. stopper \in {"stopped", "drained"} /\ Running
  BY DEF StopperCanGoOn, Running, IInv, TypeOK
<1>2. CASE main \in {"serving", "closing"}
  BY <1>1, <1>2 DEF MainCanGoOn
<1>3. CASE main = "waiting" /\ \A u \in Uploads : stream[u] # "open"
  <2>1. {} \in SUBSET stored /\ Cardinality({}) = 0 /\ faults + 0 <= MaxFaults
    BY FS_EmptySet DEF Stopping, IInv, TypeOK
  <2> QED
    BY <1>3, <2>1 DEF MainCanGoOn
<1>4. ASSUME NEW u \in Uploads, stream[u] = "open" PROVE UploadCanBeCut(u)
  <2>1. stopper # "drained"
    BY <1>4 DEF Stopping, NoHandlers, Streams
  <2> QED
    BY <1>1, <1>4, <2>1 DEF UploadCanBeCut
<1> QED
  BY <1>2, <1>3, <1>4 DEF IInv, TypeOK

\* How far the two goroutines have come.
MainLeft ==
    IF main = "serving" THEN 3 ELSE IF main = "closing" THEN 2 ELSE IF main = "waiting" THEN 1 ELSE 0
StopperLeft ==
    IF stopper = "idle" THEN 3 ELSE IF stopper = "signalled" THEN 2 ELSE IF stopper = "draining" THEN 1 ELSE 0
OpenUploads == {u \in Uploads : stream[u] = "open"}

\* A step of the shutdown: nobody goes back, each step of one of the two brings
\* him on, and once the store is closed uploads only end.
ShutdownGoesOn ==
    /\ MainLeft' <= MainLeft /\ StopperLeft' <= StopperLeft
    /\ MainStep => MainLeft' < MainLeft
    /\ StopperStep => StopperLeft' < StopperLeft
    /\ closed => closed' /\ OpenUploads' \subseteq OpenUploads
    /\ \A u \in OpenUploads : StreamCut(u) => u \notin OpenUploads'

LEMMA ShutdownSteps == ASSUME IInv, Next PROVE ShutdownGoesOn
<1> USE DEF MainLeft, StopperLeft, OpenUploads
<1>1. ASSUME NEW c \in Calls, CallStep(c) PROVE UNCHANGED <<stream, stopVars>>
  BY <1>1, CallType DEF IInv, CallTyped
<1>2. ASSUME NEW u \in Streams,
             AcceptStream(u) \/ BeginStream(u) \/ Upload(u) \/ ClientEnds(u) \/ StreamCut(u)
      PROVE  UNCHANGED stopVars
  BY <1>2 DEF AcceptStream, BeginStream, Upload, ClientEnds, StreamCut
<1>3. Vanish => UNCHANGED <<stream, stopVars>>
  BY DEF Vanish
<1>4. MainLeft' <= MainLeft /\ StopperLeft' <= StopperLeft
  BY <1>1, <1>2, <1>3 DEF Next, Signal, ServeFails, StopperStep, GracefulStop, Drained, Deadline,
        MainStep, ServeReturns, CloseStore, Exit, StopperGoes, stopVars
<1>5. MainStep => MainLeft' < MainLeft
  BY DEF MainStep, ServeReturns, CloseStore, Exit
<1>6. StopperStep => StopperLeft' < StopperLeft
  BY DEF StopperStep, GracefulStop, Drained, Deadline, StopperGoes
<1>7. ASSUME closed PROVE closed'
  BY <1>1, <1>2, <1>3, <1>7 DEF Next, Signal, ServeFails, StopperStep, GracefulStop, Drained,
        Deadline, MainStep, ServeReturns, CloseStore, Exit, stopVars
<1>8. ASSUME closed, NEW u \in Uploads, stream'[u] = "open" PROVE stream[u] = "open"
  <2>1. ASSUME NEW v \in Streams,
               AcceptStream(v) \/ BeginStream(v) \/ Upload(v) \/ ClientEnds(v) \/ StreamCut(v)
        PROVE  stream[u] = "open"
    BY <1>8, <2>1 DEF AcceptStream, BeginStream, Upload, ClientEnds, StreamCut, EndStream, Room,
          IInv, TypeOK, Streams
  <2>2. CASE UNCHANGED stream
    BY <1>8, <2>2
  <2> QED
    BY <1>1, <1>3, <2>1, <2>2 DEF Next, Signal, ServeFails, StopperStep, GracefulStop, Drained,
          Deadline, MainStep, ServeReturns, CloseStore, Exit
<1>9. ASSUME NEW u \in OpenUploads, StreamCut(u) PROVE u \notin OpenUploads'
  BY <1>9 DEF StreamCut, EndStream, IInv, TypeOK, Streams
<1> QED
  BY <1>4, <1>5, <1>6, <1>7, <1>8, <1>9 DEF ShutdownGoesOn

\* A server told to stop is never stuck: until the process is gone one of the
\* two goroutines has a step, or Stop is cutting the upload that Close waits for;
\* and there are at most six such steps and one for each upload, since none is
\* ever undone.  (What is left of ServerExits is the fairness of the scheduler.)
THEOREM ShutdownEnds ==
  /\ Spec => [](stopper # "idle" /\ main # "exited" =>
                  StopperCanGoOn \/ MainCanGoOn \/ \E u \in Uploads : UploadCanBeCut(u))
  /\ Spec => [][ShutdownGoesOn]_vars
<1>1. Spec => [](IInv /\ Stopping)
  BY Invariant, StoppingAtFirst, StoppingKept, PTL DEF Spec
<1>2. IInv /\ Stopping => (stopper # "idle" /\ main # "exited" =>
        StopperCanGoOn \/ MainCanGoOn \/ \E u \in Uploads : UploadCanBeCut(u))
  BY SomebodyStops
<1>3. IInv /\ Stopping /\ [Next]_vars => [ShutdownGoesOn]_vars
  BY ShutdownSteps
<1>4. Spec => [](stopper # "idle" /\ main # "exited" =>
        StopperCanGoOn \/ MainCanGoOn \/ \E u \in Uploads : UploadCanBeCut(u))
  BY <1>1, <1>2, PTL
<1>5. Spec => [][ShutdownGoesOn]_vars
  BY <1>1, <1>3, PTL DEF Spec
<1> QED
  BY <1>4, <1>5

\* What a call that has its artifact still has to do: two steps for each file it
\* has not captured, one for each blob it may have to delete, and its return.
CallLeft(c) ==
    IF pc[c] = "capturing" THEN 2 * (Len(artifact[c]) - Len(parts[c])) + Len(created[c]) + 2
    ELSE IF pc[c] = "cleanup" THEN Len(created[c]) + 1 ELSE 0

\* The conditions of its steps: the engine returns, with an artifact or not; a
\* file is captured or its Put fails; a blob is deleted or the Delete fails.
CallCanGoOn(c) ==
    /\ Running
    /\ \/ pc[c] = "resolved"
       \/ Capturing(c)
       \/ pc[c] = "capturing" /\ Len(parts[c]) = Len(artifact[c])
       \/ pc[c] = "cleanup" /\ created[c] # <<>>
       \/ pc[c] = "cleanup" /\ created[c] = <<>>

\* What a step does for a call: nobody else changes how much it has left, and
\* each step of its own lowers it, but for the one that produces the artifact.
CallGoesOn(c) ==
    /\ pc[c] \in {"capturing", "cleanup"} => CallLeft(c)' <= CallLeft(c)
    /\ pc[c] \in {"capturing", "cleanup"} /\ CallStep(c) => CallLeft(c)' < CallLeft(c)
    /\ pc[c] = "resolved" => CallLeft(c)' <= 2 * Len(artifact'[c]) + 2
    /\ pc[c] \in {"returned", "failed"} => pc'[c] = pc[c]

LEMMA CallLengths ==
  ASSUME IInv, NEW c \in Calls
  PROVE  /\ Len(artifact[c]) \in Nat /\ Len(parts[c]) \in Nat /\ Len(created[c]) \in Nat
         /\ Len(parts[c]) <= Len(artifact[c])
         /\ pc[c] \in {"start", "resolved"} => Len(parts[c]) = 0 /\ Len(created[c]) = 0
BY DEF IInv, TypeOK, Captured, CapturedBy

\* What is left, by where the call is.
LEMMA LeftIs ==
  ASSUME NEW c \in Calls
  PROVE  /\ pc[c] = "capturing" =>
              CallLeft(c) = 2 * (Len(artifact[c]) - Len(parts[c])) + Len(created[c]) + 2
         /\ pc[c] = "cleanup" => CallLeft(c) = Len(created[c]) + 1
         /\ pc[c] \notin {"capturing", "cleanup"} => CallLeft(c) = 0
BY DEF CallLeft

LEMMA LeftTyped == ASSUME IInv, NEW c \in Calls PROVE CallLeft(c) \in Nat
<1> DEFINE a == Len(artifact[c])
           p == Len(parts[c])
           n == Len(created[c])
<1>1. a \in Nat /\ p \in Nat /\ n \in Nat /\ p <= a
  BY CallLengths
<1>2. /\ pc[c] = "capturing" => CallLeft(c) = 2 * (a - p) + n + 2
      /\ pc[c] = "cleanup" => CallLeft(c) = n + 1
      /\ pc[c] \notin {"capturing", "cleanup"} => CallLeft(c) = 0
  BY LeftIs
<1> HIDE DEF a, p, n
<1> QED
  BY <1>1, <1>2

LEMMA OwnStep ==
  ASSUME IInv, NEW c \in Calls, CallStep(c)
  PROVE  /\ pc[c] \in {"capturing", "cleanup"} => CallLeft(c)' < CallLeft(c)
         /\ pc[c] \in {"capturing", "cleanup"} => CallLeft(c)' <= CallLeft(c)
         /\ pc[c] = "resolved" => CallLeft(c)' <= 2 * Len(artifact'[c]) + 2
         /\ pc[c] \notin {"returned", "failed"}
<1> DEFINE a == Len(artifact[c])
           p == Len(parts[c])
           n == Len(created[c])
<1>0. /\ a \in Nat /\ p \in Nat /\ n \in Nat /\ p <= a
      /\ pc[c] \in {"start", "resolved"} => p = 0 /\ n = 0
  BY CallLengths
<1>l. /\ pc[c] = "capturing" => CallLeft(c) = 2 * (a - p) + n + 2
      /\ pc[c] = "cleanup" => CallLeft(c) = n + 1
      /\ pc[c] \notin {"capturing", "cleanup"} => CallLeft(c) = 0
  BY LeftIs
<1>r. /\ pc'[c] = "capturing" => CallLeft(c)' = 2 * (a' - p') + n' + 2
      /\ pc'[c] = "cleanup" => CallLeft(c)' = n' + 1
      /\ pc'[c] \notin {"capturing", "cleanup"} => CallLeft(c)' = 0
  BY DEF CallLeft
<1>1. CASE Resolve(c)
  BY <1>1 DEF Resolve
<1>2. CASE Produce(c)
  <2>1. pc'[c] \in {"capturing", "failed"} /\ p' = p /\ n' = n /\ pc[c] = "resolved" /\ a' \in Nat
    BY <1>2, FilesAssumption DEF Produce, Goto, IInv, TypeOK
  <2> HIDE DEF p, n
  <2>2. CallLeft(c)' <= 2 * a' + 2
    <3> HIDE DEF a
    <3> QED
      BY <1>0, <1>r, <2>1
  <2> QED
    BY <2>1, <2>2
<1>3. CASE CaptureInline(c)
  <2>1. pc' = pc /\ a' = a /\ n' = n /\ pc[c] = "capturing" /\ p' = p + 1
    BY <1>3 DEF CaptureInline, Capturing, IInv, TypeOK
  <2> HIDE DEF a, p, n
  <2> QED
    BY <1>0, <1>l, <1>r, <2>1
<1>4. CASE CaptureBlob(c)
  <2>1. NewId \in Ids
    BY <1>4, NewIdIsNew DEF CaptureBlob, IInv
  <2>2. pc' = pc /\ a' = a /\ pc[c] = "capturing" /\ p' = p + 1 /\ n' = n + 1
    BY <1>4, <2>1 DEF CaptureBlob, Capturing, IInv, TypeOK
  <2> HIDE DEF a, p, n
  <2> QED
    BY <1>0, <1>l, <1>r, <2>2
<1>5. CASE PutFails(c)
  <2>1. pc[c] = "capturing" /\ pc'[c] = "cleanup" /\ n' = n /\ p < a
    BY <1>5 DEF PutFails, Capturing, Goto, IInv, TypeOK
  <2> HIDE DEF a, p, n
  <2> QED
    BY <1>0, <1>l, <1>r, <2>1
<1>6. CASE Cleanup(c)
  <2>1. pc' = pc /\ pc[c] = "cleanup" /\ n' = n - 1
    BY <1>6 DEF Cleanup, IInv, TypeOK
  <2> HIDE DEF a, p, n
  <2> QED
    BY <1>0, <1>l, <1>r, <2>1
<1>7. CASE Return(c)
  <2>1. pc[c] \in {"capturing", "cleanup"} /\ pc'[c] \in {"failed", "returned"}
    BY <1>7 DEF Return, Goto, IInv, TypeOK
  <2> HIDE DEF a, p, n
  <2> QED
    BY <1>0, <1>l, <1>r, <2>1
<1> QED
  BY <1>1, <1>2, <1>3, <1>4, <1>5, <1>6, <1>7 DEF CallStep

LEMMA OthersStep ==
  ASSUME IInv, Next, NEW c \in Calls, ~CallStep(c)
  PROVE  CallLeft(c)' = CallLeft(c) /\ pc'[c] = pc[c]
<1>1. ASSUME NEW d \in Calls, CallStep(d)
      PROVE  pc'[c] = pc[c] /\ artifact'[c] = artifact[c] /\ parts'[c] = parts[c] /\ created'[c] = created[c]
  <2>1. CallTyped(d) /\ c # d
    BY <1>1, CallType DEF IInv
  <2> QED
    BY <2>1 DEF CallTyped
<1>2. CASE UNCHANGED callVars
  BY <1>2 DEF callVars, CallLeft
<1>3. CASE \E d \in Calls : CallStep(d)
  BY <1>1, <1>3 DEF CallLeft
<1> QED
  BY <1>2, <1>3 DEF Next, AcceptStream, BeginStream, Upload, ClientEnds, StreamCut, Vanish, Signal,
        ServeFails, StopperStep, GracefulStop, Drained, Deadline, MainStep, ServeReturns,
        CloseStore, Exit

\* A call is never stuck, whatever the store refuses: until it has returned or the
\* process is gone it has a step; and once it has its artifact it takes at most
\* two for each file, and two more.  (What is left of CallsEnd is the fairness of
\* the scheduler.)
THEOREM CallsNeverStuck ==
  /\ Spec => [](\A c \in Calls : pc[c] \notin {"start", "returned", "failed"} /\ main # "exited" =>
                    CallCanGoOn(c))
  /\ Spec => [][\A c \in Calls : CallGoesOn(c)]_vars
<1>1. ASSUME IInv, NEW c \in Calls, pc[c] \notin {"start", "returned", "failed"}, main # "exited"
      PROVE  CallCanGoOn(c)
  BY <1>1, CallLengths DEF CallCanGoOn, Capturing, Running, IInv, TypeOK
<1>2. ASSUME IInv, Next, NEW c \in Calls PROVE CallGoesOn(c)
  <2>1. CASE CallStep(c)
    BY <1>2, <2>1, OwnStep DEF CallGoesOn
  <2>2. CASE ~CallStep(c)
    <3>1. CallLeft(c)' = CallLeft(c) /\ pc'[c] = pc[c]
      BY <1>2, <2>2, OthersStep
    <3>2. CallLeft(c) \in Nat /\ (pc[c] = "resolved" => CallLeft(c) = 0)
      BY <1>2, LeftTyped, LeftIs
    <3>3. IInv'
      BY <1>2, StepKeeps
    <3>4. Len(artifact'[c]) \in Nat
      BY <3>3 DEF IInv, TypeOK
    <3> QED
      BY <2>2, <3>1, <3>2, <3>4 DEF CallGoesOn
  <2> QED
    BY <2>1, <2>2
<1>3. IInv => \A c \in Calls : pc[c] \notin {"start", "returned", "failed"} /\ main # "exited" => CallCanGoOn(c)
  BY <1>1
<1>4. IInv /\ [Next]_vars => [\A c \in Calls : CallGoesOn(c)]_vars
  BY <1>2
<1>5. Spec => [](\A c \in Calls : pc[c] \notin {"start", "returned", "failed"} /\ main # "exited" => CallCanGoOn(c))
  BY <1>3, Invariant, PTL
<1>6. Spec => [][\A c \in Calls : CallGoesOn(c)]_vars
  BY <1>4, Invariant, PTL DEF Spec
<1> QED
  BY <1>5, <1>6
=============================================================================
