-------------------------- MODULE BlobStoreProofs --------------------------
(****************************************************************************)
(* Proofs about BlobStore, for every configuration and every number of Puts, *)
(* blobs and handles: first its counters and limits, then what the handles, *)
(* the files and Close have to do with the items.  They give the limit on   *)
(* the disk, what Close leaves behind, what a reader and a deleted blob can *)
(* rely on, and that the store implements AbstractBlobStore; last, that a    *)
(* Put and Close end, but for the fairness of the scheduler.                *)
(****************************************************************************)
EXTENDS BlobStore, FiniteSetTheorems, TLAPS

-----------------------------------------------------------------------------
(* Sums of lengths.  Bytes(f, S) is the cardinality of a set, so the laws of *)
(* a sum follow from those of cardinalities, with no induction.             *)

IsSizes(f, S) == \A x \in S : f[x] \in 0..MaxBlobBytes

BytesOf(f, S) == {b \in S \X (1..MaxBlobBytes) : b[2] <= f[b[1]]}

\* The bytes of finitely many files are finitely many.
LEMMA BytesFinite ==
  ASSUME NEW f, NEW S, IsFiniteSet(S)
  PROVE  /\ IsFiniteSet(BytesOf(f, S))
         /\ Bytes(f, S) = Cardinality(BytesOf(f, S))
         /\ Bytes(f, S) \in Nat
<1>1. IsFiniteSet(1..MaxBlobBytes)
  BY FS_Interval, ConfigAssumption
<1>2. IsFiniteSet(S \X (1..MaxBlobBytes))
  BY <1>1, FS_Product
<1>3. BytesOf(f, S) \in SUBSET (S \X (1..MaxBlobBytes))
  BY DEF BytesOf
<1>4. IsFiniteSet(BytesOf(f, S))
  BY <1>2, <1>3, FS_Subset
<1>5. Bytes(f, S) = Cardinality(BytesOf(f, S))
  BY DEF Bytes, BytesOf
<1> QED
  BY <1>4, <1>5, FS_CardinalityType

\* Two disjoint sets of files have the bytes of each.
LEMMA BytesUnion ==
  ASSUME NEW f, NEW S, NEW T, IsFiniteSet(S), IsFiniteSet(T), S \intersect T = {}
  PROVE  Bytes(f, S \union T) = Bytes(f, S) + Bytes(f, T)
<1>1. IsFiniteSet(S \union T)
  BY FS_Union
<1>2. BytesOf(f, S \union T) = BytesOf(f, S) \union BytesOf(f, T)
  BY DEF BytesOf
<1>3. BytesOf(f, S) \intersect BytesOf(f, T) = {}
  BY DEF BytesOf
<1>4. Cardinality(BytesOf(f, S) \intersect BytesOf(f, T)) = 0
  BY <1>3, FS_EmptySet
<1> QED
  <2>1. IsFiniteSet(BytesOf(f, S)) /\ IsFiniteSet(BytesOf(f, T))
    BY BytesFinite
  <2>2. Cardinality(BytesOf(f, S \union T)) = Cardinality(BytesOf(f, S)) + Cardinality(BytesOf(f, T)) - 0
    BY <2>1, <1>2, <1>4, FS_Union
  <2> QED
    BY <2>2, <1>1, BytesFinite

\* The bytes depend on the lengths of the files of S alone.
LEMMA BytesCongruence ==
  ASSUME NEW f, NEW g, NEW S, \A x \in S : f[x] = g[x]
  PROVE  Bytes(f, S) = Bytes(g, S)
<1>1. BytesOf(f, S) = BytesOf(g, S)
  BY DEF BytesOf
<1> QED
  BY <1>1 DEF Bytes, BytesOf

\* One file has as many bytes as its length says.
LEMMA BytesOne ==
  ASSUME NEW f, NEW x, f[x] \in 0..MaxBlobBytes
  PROVE  Bytes(f, {x}) = f[x]
<1>1. BytesOf(f, {x}) = {x} \X (1..f[x])
  <2>1. f[x] <= MaxBlobBytes /\ f[x] \in Nat /\ MaxBlobBytes \in Nat
    BY ConfigAssumption
  <2> QED
    BY <2>1 DEF BytesOf
<1>2. IsFiniteSet({x}) /\ Cardinality({x}) = 1
  BY FS_Singleton
<1>3. IsFiniteSet(1..f[x]) /\ Cardinality(1..f[x]) = f[x]
  BY FS_Interval
<1>4. Cardinality({x} \X (1..f[x])) = Cardinality({x}) * Cardinality(1..f[x])
  BY <1>2, <1>3, FS_Product
<1>5. 1 * f[x] = f[x]
  BY ConfigAssumption
<1>6. Cardinality(BytesOf(f, {x})) = f[x]
  BY <1>1, <1>2, <1>3, <1>4, <1>5
<1> QED
  BY <1>6 DEF Bytes, BytesOf

\* Files of no length have no bytes; neither has an empty directory.
LEMMA BytesNone ==
  ASSUME NEW f, NEW S, \A x \in S : f[x] = 0
  PROVE  Bytes(f, S) = 0
<1>1. BytesOf(f, S) = {}
  BY DEF BytesOf
<1> QED
  BY <1>1, FS_EmptySet DEF Bytes, BytesOf

\* Taking the files of T away takes their bytes away.
LEMMA BytesWithout ==
  ASSUME NEW f, NEW S, NEW T, IsFiniteSet(S), T \subseteq S
  PROVE  /\ Bytes(f, S \ T) = Bytes(f, S) - Bytes(f, T)
         /\ Bytes(f, S \ T) \in Nat /\ Bytes(f, T) \in Nat
<1>1. IsFiniteSet(T) /\ IsFiniteSet(S \ T)
  BY FS_Subset
<1>2. (S \ T) \intersect T = {} /\ (S \ T) \union T = S
  OBVIOUS
<1>3. Bytes(f, S) = Bytes(f, S \ T) + Bytes(f, T)
  BY <1>1, <1>2, BytesUnion
<1> QED
  BY <1>1, <1>3, BytesFinite

\* When the length of one file changes the bytes change by as much.
LEMMA BytesUpdate ==
  ASSUME NEW f, NEW g, NEW S, NEW x \in S, IsFiniteSet(S),
         f[x] \in 0..MaxBlobBytes, g[x] \in 0..MaxBlobBytes,
         \A y \in S \ {x} : f[y] = g[y]
  PROVE  /\ Bytes(g, S) = Bytes(f, S) - f[x] + g[x]
         /\ f[x] <= Bytes(f, S)
<1>1. Bytes(f, {x}) = f[x] /\ Bytes(g, {x}) = g[x]
  BY BytesOne
<1>2. Bytes(f, S \ {x}) = Bytes(f, S) - f[x] /\ Bytes(f, S \ {x}) \in Nat
  BY <1>1, BytesWithout, {x} \subseteq S
<1>3. Bytes(g, S \ {x}) = Bytes(g, S) - g[x]
  BY <1>1, BytesWithout, {x} \subseteq S
<1>4. Bytes(f, S \ {x}) = Bytes(g, S \ {x})
  BY BytesCongruence
<1>5. Bytes(f, S) \in Nat /\ Bytes(g, S) \in Nat
  BY BytesFinite
<1> QED
  BY <1>2, <1>3, <1>4, <1>5

-----------------------------------------------------------------------------
(* The critical sections that remove items.                                 *)

\* What each of them leaves true of the items, the files and the total.
StoredStep ==
  /\ IsPartialFunction(items', BlobIds, Item)
  /\ IsPartialFunction(blobFiles', BlobIds, 0..MaxBlobBytes)
  /\ faults' \in 0..MaxFaults
  /\ totalBytes' \in Nat /\ totalBytes' = Bytes(SizeOf', DOMAIN items')
  /\ totalBytes' <= totalBytes
  /\ IsFiniteSet(DOMAIN items') /\ Cardinality(DOMAIN items') \in Nat
  /\ Cardinality(DOMAIN items') <= Cardinality(DOMAIN items)

\* Removing the items of `gone` subtracts exactly their bytes: the clamp of
\* removeItemLocked does nothing.
LEMMA TotalWithoutExact ==
  ASSUME TypeOK, AccountingExact, NEW gone, gone \subseteq DOMAIN items
  PROVE  /\ TotalWithout(gone) \in Nat
         /\ TotalWithout(gone) = Bytes(SizeOf, DOMAIN items \ gone)
         /\ TotalWithout(gone) <= totalBytes
<1>1. IsFiniteSet(DOMAIN items)
  BY BoundAssumption, FS_Subset DEF TypeOK, IsPartialFunction
<1>2. /\ Bytes(SizeOf, DOMAIN items \ gone) = totalBytes - Bytes(SizeOf, gone)
      /\ Bytes(SizeOf, DOMAIN items \ gone) \in Nat /\ Bytes(SizeOf, gone) \in Nat
  BY <1>1, BytesWithout DEF AccountingExact
<1>3. totalBytes \in Nat
  BY DEF TypeOK
<1> QED
  BY <1>2, <1>3 DEF TotalWithout, Clamp

KeepsSizes(left) == \A i \in DOMAIN left : left[i].size = items[i].size

LEMMA RemoveItemsStep ==
  ASSUME TypeOK, AccountingExact,
         NEW wanted, wanted \subseteq BlobIds, NEW gone, gone \subseteq DOMAIN items,
         NEW left, DOMAIN left = DOMAIN items \ gone, left \in [DOMAIN left -> Item],
         KeepsSizes(left),
         RemoveItems(wanted, gone, left)
  PROVE  StoredStep
<1>1. items' = left /\ totalBytes' = TotalWithout(gone)
  BY DEF RemoveItems
<1>2. DOMAIN items \subseteq BlobIds
  BY DEF TypeOK, IsPartialFunction
<1>3. IsPartialFunction(items', BlobIds, Item)
  BY <1>1, <1>2 DEF IsPartialFunction
<1>4. IsPartialFunction(blobFiles', BlobIds, 0..MaxBlobBytes)
  BY DEF RemoveItems, Without, TypeOK, IsPartialFunction
<1>5. faults' \in 0..MaxFaults
  <2>1. IsFiniteSet(wanted \ gone)
    BY BoundAssumption, FS_Subset, wanted \ gone \subseteq BlobIds
  <2>2. Cardinality(wanted \ gone) \in Nat
    BY <2>1, FS_CardinalityType
  <2> QED
    BY <2>2, BoundAssumption DEF RemoveItems, Removed, TypeOK
<1>6. totalBytes' = Bytes(SizeOf', DOMAIN items')
  <2>1. \A i \in DOMAIN items' : SizeOf'[i] = SizeOf[i]
    BY <1>1 DEF SizeOf, KeepsSizes
  <2>2. Bytes(SizeOf', DOMAIN items') = Bytes(SizeOf, DOMAIN items')
    BY <2>1, BytesCongruence
  <2> QED
    BY <2>2, <1>1, TotalWithoutExact
<1>7. IsFiniteSet(DOMAIN items)
  BY <1>2, BoundAssumption, FS_Subset
<1>8. /\ IsFiniteSet(DOMAIN items') /\ Cardinality(DOMAIN items') \in Nat
      /\ Cardinality(DOMAIN items') <= Cardinality(DOMAIN items)
  BY <1>1, <1>7, FS_Subset, FS_CardinalityType, DOMAIN items \ gone \subseteq DOMAIN items
<1>9. totalBytes' \in Nat /\ totalBytes' <= totalBytes
  BY <1>1, TotalWithoutExact
<1> QED
  BY <1>3, <1>4, <1>5, <1>6, <1>8, <1>9 DEF StoredStep

\* What cleanupExpiredLocked leaves has the sizes it had.
LEMMA SweptItems ==
  ASSUME TypeOK, NEW now, NEW gone
  PROVE  /\ DOMAIN Swept(now, gone) = DOMAIN items \ gone
         /\ Swept(now, gone) \in [DOMAIN items \ gone -> Item]
         /\ KeepsSizes(Swept(now, gone))
<1>1. \A i \in DOMAIN items : items[i] \in Item
  BY DEF TypeOK, IsPartialFunction
<1>2. \A i \in DOMAIN items :
        [items[i] EXCEPT !.deleteAfter = @ \/ i \in Due(now)] \in Item
  BY <1>1 DEF Item
<1> QED
  BY <1>1, <1>2 DEF Swept, Item, KeepsSizes

LEMMA SweepStep ==
  ASSUME TypeOK, AccountingExact, NEW now, Sweep(now)
  PROVE  StoredStep
<1>1. PICK gone \in SUBSET Reclaimable(now) :
        RemoveItems(Reclaimable(now), gone, Swept(now, gone))
  BY DEF Sweep
<1>2. gone \subseteq DOMAIN items /\ Reclaimable(now) \subseteq BlobIds
  BY <1>1 DEF Reclaimable, Due, TypeOK, IsPartialFunction
<1>3. DOMAIN Swept(now, gone) = DOMAIN items \ gone
  BY SweptItems
<1>4. Swept(now, gone) \in [DOMAIN Swept(now, gone) -> Item]
  BY SweptItems
<1>5. KeepsSizes(Swept(now, gone))
  BY SweptItems
<1> QED
  BY <1>1, <1>2, <1>3, <1>4, <1>5, RemoveItemsStep

-----------------------------------------------------------------------------
(* The inductive invariant.  The quota needs the accounting to be exact: else *)
(* a commit or an abort could take out of the counters what it never put in. *)
(* The accounting needs the calls to be consistent.                         *)

IInv == TypeOK /\ AccountingExact /\ CallsConsistent /\ QuotaHolds

\* What a call adds to a count of calls by being where it is.
InFlightAt(s) == IF s \in {"idle", "finish"} THEN 0 ELSE 1
RunningAt(s)  == IF s = "idle" THEN 0 ELSE 1

CountsMove(p, s) ==
  /\ Cardinality(InFlight') = Cardinality(InFlight) - InFlightAt(pc[p]) + InFlightAt(s)
  /\ Cardinality(Running') = Cardinality(Running) - RunningAt(pc[p]) + RunningAt(s)
  /\ Cardinality(InFlight) \in Nat /\ InFlightAt(pc[p]) <= Cardinality(InFlight)
  /\ Cardinality(Running) \in Nat /\ RunningAt(pc[p]) <= Cardinality(Running)

\* One call that moves changes the two counts of calls by its own part.
LEMMA CountStep ==
  ASSUME TypeOK, NEW p \in Puts, NEW s \in PutStates, pc' = [pc EXCEPT ![p] = s]
  PROVE  CountsMove(p, s)
<1>1. /\ IsFiniteSet(InFlight) /\ IsFiniteSet(Running)
      /\ Cardinality(InFlight) \in Nat /\ Cardinality(Running) \in Nat
  BY BoundAssumption, FS_Subset, FS_CardinalityType, InFlight \in SUBSET Puts,
     Running \in SUBSET Puts DEF InFlight, Running
<1>2. /\ InFlight' = IF InFlightAt(s) = 1 THEN InFlight \union {p} ELSE InFlight \ {p}
      /\ p \in InFlight <=> InFlightAt(pc[p]) = 1
      /\ InFlightAt(s) \in {0, 1} /\ InFlightAt(pc[p]) \in {0, 1}
  BY DEF InFlight, InFlightAt, TypeOK
<1>3. /\ Running' = IF RunningAt(s) = 1 THEN Running \union {p} ELSE Running \ {p}
      /\ p \in Running <=> RunningAt(pc[p]) = 1
      /\ RunningAt(s) \in {0, 1} /\ RunningAt(pc[p]) \in {0, 1}
  BY DEF Running, RunningAt, TypeOK
<1>4. ASSUME NEW S, IsFiniteSet(S)
      PROVE  /\ Cardinality(S \union {p}) = IF p \in S THEN Cardinality(S) ELSE Cardinality(S) + 1
             /\ Cardinality(S \ {p}) = IF p \in S THEN Cardinality(S) - 1 ELSE Cardinality(S)
             /\ Cardinality(S) \in Nat /\ Cardinality(S \ {p}) \in Nat
  BY <1>4, FS_AddElement, FS_RemoveElement, FS_CardinalityType
<1>5. /\ Cardinality(InFlight') = Cardinality(InFlight) - InFlightAt(pc[p]) + InFlightAt(s)
      /\ InFlightAt(pc[p]) <= Cardinality(InFlight)
  <2>1. /\ Cardinality(InFlight \union {p}) = IF p \in InFlight THEN Cardinality(InFlight)
                                                ELSE Cardinality(InFlight) + 1
        /\ Cardinality(InFlight \ {p}) = IF p \in InFlight THEN Cardinality(InFlight) - 1
                                            ELSE Cardinality(InFlight)
        /\ Cardinality(InFlight \ {p}) \in Nat
    BY <1>1, <1>4
  <2> QED
    BY <2>1, <1>1, <1>2
<1>6. /\ Cardinality(Running') = Cardinality(Running) - RunningAt(pc[p]) + RunningAt(s)
      /\ RunningAt(pc[p]) <= Cardinality(Running)
  BY <1>1, <1>3, <1>4
<1> QED
  BY <1>1, <1>5, <1>6 DEF CountsMove

HeldMoves(p, r, w) ==
  /\ Bytes(HeldBy', Puts) = Bytes(HeldBy, Puts) - (reserved[p] + pending[p]) + (r + w)
  /\ reserved[p] + pending[p] <= Bytes(HeldBy, Puts)
  /\ Bytes(HeldBy, Puts) \in Nat

\* One call that changes what it holds changes the bytes in flight by as much.
LEMMA HeldStep ==
  ASSUME TypeOK, CallsConsistent, NEW p \in Puts,
         NEW r \in Nat, NEW w \in Nat, r + w <= MaxBlobBytes,
         reserved' = [reserved EXCEPT ![p] = r], pending' = [pending EXCEPT ![p] = w]
  PROVE  HeldMoves(p, r, w)
<1>1. /\ HeldBy[p] = reserved[p] + pending[p] /\ HeldBy'[p] = r + w
      /\ HeldBy[p] \in 0..MaxBlobBytes /\ HeldBy'[p] \in 0..MaxBlobBytes
  BY ConfigAssumption DEF HeldBy, TypeOK, CallsConsistent, CallConsistent
<1>2. \A q \in Puts \ {p} : HeldBy[q] = HeldBy'[q]
  BY DEF HeldBy, TypeOK
<1>3. IsFiniteSet(Puts)
  BY BoundAssumption
<1>4. /\ Bytes(HeldBy', Puts) = Bytes(HeldBy, Puts) - HeldBy[p] + HeldBy'[p]
      /\ HeldBy[p] <= Bytes(HeldBy, Puts)
  BY <1>1, <1>2, <1>3, BytesUpdate
<1>5. Bytes(HeldBy, Puts) \in Nat
  BY <1>3, BytesFinite
<1> QED
  BY <1>1, <1>4, <1>5 DEF HeldMoves

\* A step that removes nothing leaves the stored blobs as they are.
LEMMA StoredSame ==
  ASSUME IInv, UNCHANGED storedVars
  PROVE  StoredStep
<1>1. SizeOf' = SizeOf
  BY DEF SizeOf, storedVars
<1>2. IsFiniteSet(DOMAIN items) /\ Cardinality(DOMAIN items) \in Nat
  BY BoundAssumption, FS_Subset, FS_CardinalityType DEF IInv, TypeOK, IsPartialFunction
<1> QED
  BY <1>1, <1>2 DEF StoredStep, storedVars, IInv, TypeOK, AccountingExact

\* What fitted fits when one part of it shrinks.
LEMMA StillFits ==
  \A a, b, c, m \in Nat : /\ a <= b /\ b + c <= m => a + c <= m
                          /\ a <= b /\ c + b <= m => c + a <= m
OBVIOUS

\* The number of items is a number.
LEMMA ItemCount ==
  ASSUME TypeOK
  PROVE  IsFiniteSet(DOMAIN items) /\ Cardinality(DOMAIN items) \in Nat
BY BoundAssumption, FS_Subset, FS_CardinalityType DEF TypeOK, IsPartialFunction

\* The limits hold on when nothing is added to what is stored and in flight.
LEMMA QuotaShrinks ==
  ASSUME IInv, StoredStep, UNCHANGED <<inFlightBytes, inFlightBlobs>>
  PROVE  QuotaHolds'
<1>1. /\ totalBytes' <= totalBytes /\ totalBytes' \in Nat /\ totalBytes \in Nat
      /\ inFlightBytes \in Nat /\ MaxTotalBytes \in Nat
      /\ totalBytes + inFlightBytes <= MaxTotalBytes
  BY ConfigAssumption DEF IInv, TypeOK, QuotaHolds, StoredStep
<1>2. /\ Cardinality(DOMAIN items') \in Nat /\ Cardinality(DOMAIN items) \in Nat
      /\ inFlightBlobs \in Nat /\ MaxBlobs \in Nat
      /\ Cardinality(DOMAIN items') <= Cardinality(DOMAIN items)
      /\ Cardinality(DOMAIN items) + inFlightBlobs <= MaxBlobs
  BY ItemCount, ConfigAssumption DEF IInv, TypeOK, QuotaHolds, StoredStep
<1>3. totalBytes' + inFlightBytes <= MaxTotalBytes
  BY <1>1, StillFits
<1>4. Cardinality(DOMAIN items') + inFlightBlobs <= MaxBlobs
  BY <1>2, StillFits
<1> QED
  BY <1>3, <1>4 DEF QuotaHolds

\* A step of anyone but a Put: the calls stay, and nothing is added to the items.
LEMMA OutsideStep ==
  ASSUME IInv, TypeOK', StoredStep,
         UNCHANGED <<inFlightBytes, inFlightBlobs, activePuts, putVars, tempFiles>>
  PROVE  IInv'
<1>1. HeldBy' = HeldBy /\ InFlight' = InFlight /\ Running' = Running
  BY DEF HeldBy, InFlight, Running, putVars
<1>2. AccountingExact'
  BY <1>1 DEF StoredStep, IInv, AccountingExact
<1>3. CallsConsistent'
  BY DEF CallsConsistent, CallConsistent, IInv, putVars, stampVars
<1>4. QuotaHolds'
  BY QuotaShrinks
<1> QED
  BY <1>2, <1>3, <1>4 DEF IInv

-----------------------------------------------------------------------------
(* The steps of a Put *)

\* A step of one call leaves the others as they are.
OnlyCall(p) ==
  \A q \in Puts \ {p} :
    /\ pc'[q] = pc[q] /\ reserved'[q] = reserved[q] /\ pending'[q] = pending[q]
    /\ stampId'[q] = stampId[q]
    /\ q \in DOMAIN tempFiles => q \in DOMAIN tempFiles' /\ tempFiles'[q] = tempFiles[q]

LEMMA OtherCalls ==
  ASSUME CallsConsistent, NEW p \in Puts, OnlyCall(p), CallConsistent(p)'
  PROVE  CallsConsistent'
<1> SUFFICES ASSUME NEW q \in Puts \ {p} PROVE CallConsistent(q)'
  BY DEF CallsConsistent
<1> QED
  BY DEF CallsConsistent, CallConsistent, OnlyCall

LEMMA BeginPutStep ==
  ASSUME IInv, NEW p \in Puts, BeginPut(p)
  PROVE  IInv'
<1>1. StoredStep
  BY SweepStep DEF BeginPut, IInv
<1>2. TypeOK'
  BY <1>1 DEF IInv, TypeOK, BeginPut, PutFrame, StoredStep, PutStates, stampVars, handleVars,
     janitorVars, closeVars
<1>3. /\ Cardinality(InFlight') = Cardinality(InFlight) + 1
      /\ Cardinality(Running') = Cardinality(Running) + 1
      /\ Cardinality(InFlight) \in Nat /\ Cardinality(Running) \in Nat
  <2>1. CountsMove(p, "create")
    BY CountStep DEF IInv, BeginPut, PutStates
  <2>2. /\ InFlightAt(pc[p]) = 0 /\ InFlightAt("create") = 1
        /\ RunningAt(pc[p]) = 0 /\ RunningAt("create") = 1
    BY DEF InFlightAt, RunningAt, BeginPut
  <2> QED
    BY <2>1, <2>2 DEF CountsMove
<1>4. HeldBy' = HeldBy
  BY DEF HeldBy, BeginPut
<1>5. AccountingExact'
  BY <1>1, <1>3, <1>4 DEF IInv, AccountingExact, BeginPut, StoredStep
<1>6. CallsConsistent'
  <2>1. OnlyCall(p)
    BY DEF OnlyCall, IInv, TypeOK, BeginPut, stampVars
  <2>2. CallConsistent(p)'
    BY DEF IInv, TypeOK, CallsConsistent, CallConsistent, BeginPut, stampVars
  <2> QED
    BY <2>1, <2>2, OtherCalls DEF IInv
<1>7. QuotaHolds'
  <2>1. /\ totalBytes' <= totalBytes /\ totalBytes' \in Nat /\ totalBytes \in Nat
        /\ inFlightBytes \in Nat /\ MaxTotalBytes \in Nat
        /\ totalBytes + inFlightBytes <= MaxTotalBytes
    BY <1>1, ConfigAssumption DEF IInv, TypeOK, QuotaHolds, StoredStep
  <2>2. totalBytes' + inFlightBytes <= MaxTotalBytes
    BY <2>1, StillFits
  <2>3. /\ Cardinality(DOMAIN items') \in Nat /\ inFlightBlobs \in Nat
        /\ Cardinality(DOMAIN items') + inFlightBlobs < MaxBlobs
        /\ inFlightBlobs' = inFlightBlobs + 1
    BY <1>1 DEF IInv, TypeOK, BeginPut, StoredStep
  <2>4. Cardinality(DOMAIN items') + inFlightBlobs' <= MaxBlobs
    BY <2>3, ConfigAssumption
  <2>5. inFlightBytes' = inFlightBytes
    BY DEF BeginPut
  <2> QED
    BY <2>2, <2>4, <2>5 DEF QuotaHolds
<1> QED
  BY <1>2, <1>5, <1>6, <1>7 DEF IInv

LEMMA RefusePutStep ==
  ASSUME IInv, NEW p \in Puts, RefusePut(p)
  PROVE  IInv'
<1>1. StoredStep
  BY SweepStep DEF RefusePut, IInv
<1>2. TypeOK'
  BY <1>1 DEF IInv, TypeOK, RefusePut, PutFrame, StoredStep, putVars, stampVars,
     handleVars, janitorVars, closeVars
<1> QED
  BY <1>1, <1>2, OutsideStep DEF RefusePut

LEMMA CreateTempStep ==
  ASSUME IInv, NEW p \in Puts, CreateTemp(p)
  PROVE  IInv'
<1>1. PICK s \in {"copy", "abort"} : pc' = [pc EXCEPT ![p] = s]
  BY DEF CreateTemp
<1>2. TypeOK'
  BY ConfigAssumption DEF IInv, TypeOK, CreateTemp, PutFrame, PutStates, handleVars, janitorVars,
     closeVars, counterVars, IsPartialFunction, stampVars
<1>3. Cardinality(InFlight') = Cardinality(InFlight) /\ Cardinality(Running') = Cardinality(Running)
  <2>1. CountsMove(p, s)
    BY <1>1, CountStep DEF IInv, PutStates
  <2>2. /\ InFlightAt(pc[p]) = 1 /\ InFlightAt(s) = 1
        /\ RunningAt(pc[p]) = 1 /\ RunningAt(s) = 1
    BY <1>1 DEF InFlightAt, RunningAt, CreateTemp
  <2> QED
    BY <2>1, <2>2 DEF CountsMove
<1>4. HeldBy' = HeldBy /\ SizeOf' = SizeOf
  BY DEF HeldBy, SizeOf, CreateTemp
<1>5. AccountingExact'
  BY <1>3, <1>4 DEF IInv, AccountingExact, CreateTemp, counterVars
<1>6. CallsConsistent'
  <2>1. OnlyCall(p)
    BY DEF OnlyCall, IInv, TypeOK, CreateTemp, stampVars
  <2>2. CallConsistent(p)'
    BY <1>1 DEF IInv, TypeOK, CallsConsistent, CallConsistent, CreateTemp, stampVars
  <2> QED
    BY <2>1, <2>2, OtherCalls DEF IInv
<1>7. QuotaHolds'
  BY DEF IInv, QuotaHolds, CreateTemp, counterVars
<1> QED
  BY <1>2, <1>5, <1>6, <1>7 DEF IInv

\* The counts and the items of a step in which a Put stays in flight and nothing
\* is stored or removed.
LEMMA InFlightStep ==
  ASSUME IInv, NEW p \in Puts, NEW s \in PutStates \ {"idle", "finish"},
         pc[p] \notin {"idle", "finish"}, pc' = [pc EXCEPT ![p] = s]
  PROVE  Cardinality(InFlight') = Cardinality(InFlight) /\ Cardinality(Running') = Cardinality(Running)
<1>1. CountsMove(p, s)
  BY CountStep DEF IInv
<1>2. InFlightAt(pc[p]) = 1 /\ InFlightAt(s) = 1 /\ RunningAt(pc[p]) = 1 /\ RunningAt(s) = 1
  BY DEF InFlightAt, RunningAt
<1> QED
  BY <1>1, <1>2 DEF CountsMove

LEMMA ReserveChunkStep ==
  ASSUME IInv, NEW p \in Puts, NEW n \in 1..MaxBlobBytes, ReserveChunk(p, n)
  PROVE  IInv'
<1>1. /\ reserved[p] \in Nat /\ pending[p] = 0 /\ n \in Nat /\ reserved[p] + n <= MaxBlobBytes
      /\ totalBytes \in Nat /\ inFlightBytes \in Nat /\ MaxTotalBytes \in Nat
      /\ n <= MaxTotalBytes - totalBytes - inFlightBytes
  BY ConfigAssumption DEF IInv, TypeOK, CallsConsistent, CallConsistent, ReserveChunk, Fits
<1>2. TypeOK'
  BY <1>1 DEF IInv, TypeOK, ReserveChunk, PutFrame, PutStates, stampVars, handleVars,
     janitorVars, closeVars
<1>3. Cardinality(InFlight') = Cardinality(InFlight) /\ Cardinality(Running') = Cardinality(Running)
  BY InFlightStep DEF ReserveChunk, PutStates
<1>4. HeldMoves(p, reserved[p], n)
  BY <1>1, HeldStep DEF IInv, TypeOK, ReserveChunk
<1>5. SizeOf' = SizeOf
  BY DEF SizeOf, ReserveChunk
<1>6. AccountingExact'
  BY <1>1, <1>3, <1>4, <1>5 DEF IInv, AccountingExact, ReserveChunk, HeldMoves
<1>7. CallsConsistent'
  <2>1. OnlyCall(p)
    BY DEF OnlyCall, IInv, TypeOK, ReserveChunk, stampVars
  <2>2. CallConsistent(p)'
    BY <1>1 DEF IInv, TypeOK, CallsConsistent, CallConsistent, ReserveChunk, stampVars
  <2> QED
    BY <2>1, <2>2, OtherCalls DEF IInv
<1>8. QuotaHolds'
  BY <1>1 DEF IInv, QuotaHolds, ReserveChunk
<1> QED
  BY <1>2, <1>6, <1>7, <1>8 DEF IInv

LEMMA WriteChunkStep ==
  ASSUME IInv, NEW p \in Puts, NEW k \in 0..MaxBlobBytes, WriteChunk(p, k)
  PROVE  IInv'
<1>1. /\ reserved[p] \in Nat /\ pending[p] \in Nat /\ k \in Nat /\ k <= pending[p]
      /\ reserved[p] + pending[p] <= MaxBlobBytes /\ MaxBlobBytes \in Nat
      /\ p \in DOMAIN tempFiles /\ tempFiles[p] = reserved[p]
  BY ConfigAssumption DEF IInv, TypeOK, CallsConsistent, CallConsistent, WriteChunk
<1>2. PICK s \in {"copy", "remove"} : pc' = [pc EXCEPT ![p] = s]
  BY DEF WriteChunk
<1>3. reserved' = [reserved EXCEPT ![p] = reserved[p] + k] /\ pending' = [pending EXCEPT ![p] = 0]
  BY DEF WriteChunk
<1>4. HeldMoves(p, reserved[p] + k, 0)
  <2>1. reserved[p] + k \in Nat /\ reserved[p] + k + 0 <= MaxBlobBytes
    BY <1>1
  <2> QED
    BY <1>3, <2>1, HeldStep DEF IInv
<1>5. /\ inFlightBytes' = inFlightBytes - (pending[p] - k) /\ inFlightBytes' \in Nat
      /\ inFlightBytes' = Bytes(HeldBy', Puts)
      /\ inFlightBytes' <= inFlightBytes
  BY <1>1, <1>4 DEF IInv, AccountingExact, WriteChunk, Clamp, HeldMoves
<1>6. TypeOK'
  <2>1. reserved' \in [Puts -> 0..MaxBlobBytes] /\ pending' \in [Puts -> 0..MaxBlobBytes]
    BY <1>1, <1>3 DEF IInv, TypeOK
  <2>2. IsPartialFunction(tempFiles', Puts, 0..MaxBlobBytes)
    BY <1>1 DEF IInv, TypeOK, WriteChunk, IsPartialFunction
  <2> QED
    BY <1>2, <1>5, <2>1, <2>2 DEF IInv, TypeOK, WriteChunk, PutFrame, PutStates, stampVars,
       handleVars, janitorVars, closeVars
<1>7. Cardinality(InFlight') = Cardinality(InFlight) /\ Cardinality(Running') = Cardinality(Running)
  BY <1>2, InFlightStep DEF WriteChunk, PutStates
<1>8. SizeOf' = SizeOf
  BY DEF SizeOf, WriteChunk
<1>9. AccountingExact'
  BY <1>5, <1>7, <1>8 DEF IInv, AccountingExact, WriteChunk
<1>10. CallsConsistent'
  <2>1. OnlyCall(p)
    BY <1>1 DEF OnlyCall, IInv, TypeOK, WriteChunk, stampVars, IsPartialFunction
  <2>2. CallConsistent(p)'
    BY <1>1, <1>2, <1>3 DEF IInv, TypeOK, CallsConsistent, CallConsistent, WriteChunk, stampVars,
       IsPartialFunction
  <2> QED
    BY <2>1, <2>2, OtherCalls DEF IInv
<1>11. QuotaHolds'
  <2>1. /\ totalBytes \in Nat /\ inFlightBytes \in Nat /\ MaxTotalBytes \in Nat
        /\ totalBytes + inFlightBytes <= MaxTotalBytes
    BY ConfigAssumption DEF IInv, TypeOK, QuotaHolds
  <2>2. totalBytes + inFlightBytes' <= MaxTotalBytes
    BY <1>5, <2>1, StillFits
  <2> QED
    BY <2>2 DEF IInv, QuotaHolds, WriteChunk
<1> QED
  BY <1>6, <1>9, <1>10, <1>11 DEF IInv

\* A step of a Put in flight that neither stores, removes nor reserves anything.
LEMMA QuietStep ==
  ASSUME IInv, TypeOK', NEW p \in Puts, NEW s \in PutStates \ {"idle", "finish"},
         pc[p] \notin {"idle", "finish"}, pc' = [pc EXCEPT ![p] = s],
         UNCHANGED <<counterVars, items, activePuts, reserved, pending>>,
         OnlyCall(p), CallConsistent(p)'
  PROVE  IInv'
<1>1. Cardinality(InFlight') = Cardinality(InFlight) /\ Cardinality(Running') = Cardinality(Running)
  BY InFlightStep
<1>2. HeldBy' = HeldBy /\ SizeOf' = SizeOf
  BY DEF HeldBy, SizeOf
<1>3. AccountingExact'
  BY <1>1, <1>2 DEF IInv, AccountingExact, counterVars
<1>4. CallsConsistent'
  BY OtherCalls DEF IInv
<1>5. QuotaHolds'
  BY DEF IInv, QuotaHolds, counterVars
<1> QED
  BY <1>3, <1>4, <1>5 DEF IInv

LEMMA FailCopyStep ==
  ASSUME IInv, NEW p \in Puts, FailCopy(p)
  PROVE  IInv'
<1>1. TypeOK'
  BY DEF IInv, TypeOK, FailCopy, PutFrame, PutStates, stampVars, handleVars, janitorVars,
     closeVars, counterVars
<1>2. OnlyCall(p)
  BY DEF OnlyCall, IInv, TypeOK, FailCopy, stampVars
<1>3. CallConsistent(p)'
  BY DEF IInv, TypeOK, CallsConsistent, CallConsistent, FailCopy, stampVars
<1> QED
  BY <1>1, <1>2, <1>3, QuietStep DEF FailCopy, PutStates

LEMMA StampStep ==
  ASSUME IInv, NEW p \in Puts, NEW id \in BlobIds, Stamp(p, id)
  PROVE  IInv'
<1>1. TypeOK'
  BY DEF IInv, TypeOK, Stamp, PutFrame, PutStates, handleVars, janitorVars, closeVars,
     counterVars
<1>2. OnlyCall(p)
  BY DEF OnlyCall, IInv, TypeOK, Stamp
<1>3. CallConsistent(p)'
  BY DEF IInv, TypeOK, CallsConsistent, CallConsistent, Stamp
<1> QED
  BY <1>1, <1>2, <1>3, QuietStep DEF Stamp, PutStates

LEMMA RemoveTempStep ==
  ASSUME IInv, NEW p \in Puts, RemoveTemp(p)
  PROVE  IInv'
<1>1. PICK done \in SUBSET {p} :
        /\ Removed({p}, done)
        /\ tempFiles' = Without(tempFiles, done)
  BY DEF RemoveTemp
<1>2. faults' \in 0..MaxFaults
  <2>1. Cardinality({p} \ done) \in Nat
    BY FS_Singleton, FS_Subset, FS_CardinalityType, {p} \ done \in SUBSET {p}
  <2> QED
    BY <1>1, <2>1, BoundAssumption DEF Removed, IInv, TypeOK
<1>3. IsPartialFunction(tempFiles', Puts, 0..MaxBlobBytes)
  BY <1>1 DEF IInv, TypeOK, IsPartialFunction, Without
<1>4. TypeOK'
  BY <1>2, <1>3 DEF IInv, TypeOK, RemoveTemp, PutFrame, PutStates, stampVars, handleVars,
     janitorVars, closeVars, counterVars
<1>5. OnlyCall(p)
  BY <1>1 DEF OnlyCall, IInv, TypeOK, RemoveTemp, stampVars, Without
<1>6. CallConsistent(p)'
  BY DEF IInv, TypeOK, CallsConsistent, CallConsistent, RemoveTemp, stampVars
<1> QED
  BY <1>4, <1>5, <1>6, QuietStep DEF RemoveTemp, PutStates

LEMMA RefuseCommitStep ==
  ASSUME IInv, NEW p \in Puts, RefuseCommit(p)
  PROVE  IInv'
<1>1. StoredStep
  BY SweepStep, StoredSame DEF RefuseCommit, IInv
<1>2. TypeOK'
  BY <1>1, BoundAssumption DEF IInv, TypeOK, RefuseCommit, PutFrame, PutStates, StoredStep,
     handleVars, janitorVars, closeVars
<1>3. Cardinality(InFlight') = Cardinality(InFlight) /\ Cardinality(Running') = Cardinality(Running)
  BY InFlightStep DEF RefuseCommit, PutStates
<1>4. HeldBy' = HeldBy
  BY DEF HeldBy, RefuseCommit
<1>5. AccountingExact'
  BY <1>1, <1>3, <1>4 DEF IInv, AccountingExact, RefuseCommit, StoredStep
<1>6. CallsConsistent'
  <2>1. OnlyCall(p)
    BY DEF OnlyCall, IInv, TypeOK, RefuseCommit
  <2>2. CallConsistent(p)'
    BY DEF IInv, TypeOK, CallsConsistent, CallConsistent, RefuseCommit
  <2> QED
    BY <2>1, <2>2, OtherCalls DEF IInv
<1>7. UNCHANGED <<inFlightBytes, inFlightBlobs>>
  BY DEF RefuseCommit
<1> QED
  BY <1>1, <1>2, <1>5, <1>6, <1>7, QuotaShrinks DEF IInv

\* A Put that leaves takes with it what it held, and its place.
Leaves(p) ==
  /\ Cardinality(InFlight') = Cardinality(InFlight) - 1
  /\ Cardinality(Running') = Cardinality(Running)
  /\ Cardinality(InFlight) \in Nat /\ 1 <= Cardinality(InFlight)
  /\ Bytes(HeldBy', Puts) = Bytes(HeldBy, Puts) - reserved[p]
  /\ reserved[p] <= Bytes(HeldBy, Puts)
  /\ reserved[p] \in Nat /\ Bytes(HeldBy, Puts) \in Nat

LEMMA LeavesStep ==
  ASSUME IInv, NEW p \in Puts, pc[p] \in {"commit", "abort"},
         pc' = [pc EXCEPT ![p] = "finish"], reserved' = [reserved EXCEPT ![p] = 0],
         UNCHANGED pending
  PROVE  Leaves(p)
<1>1. CountsMove(p, "finish")
  BY CountStep DEF IInv, PutStates
<1>2. InFlightAt(pc[p]) = 1 /\ InFlightAt("finish") = 0 /\ RunningAt(pc[p]) = 1 /\ RunningAt("finish") = 1
  BY DEF InFlightAt, RunningAt
<1>3. pending[p] = 0 /\ pending' = [pending EXCEPT ![p] = 0] /\ reserved[p] \in Nat
  BY ConfigAssumption DEF IInv, TypeOK, CallsConsistent, CallConsistent
<1>4. HeldMoves(p, 0, 0)
  <2>1. 0 \in Nat /\ 0 + 0 <= MaxBlobBytes
    BY ConfigAssumption
  <2> QED
    BY <1>3, <2>1, HeldStep DEF IInv
<1>5. /\ Bytes(HeldBy', Puts) = Bytes(HeldBy, Puts) - reserved[p]
      /\ reserved[p] <= Bytes(HeldBy, Puts)
      /\ Bytes(HeldBy, Puts) \in Nat
  BY <1>3, <1>4 DEF HeldMoves
<1>6. /\ Cardinality(InFlight') = Cardinality(InFlight) - 1
      /\ Cardinality(Running') = Cardinality(Running)
      /\ Cardinality(InFlight) \in Nat /\ 1 <= Cardinality(InFlight)
  BY <1>1, <1>2 DEF CountsMove
<1> QED
  BY <1>3, <1>5, <1>6 DEF Leaves

LEMMA AbortPutStep ==
  ASSUME IInv, NEW p \in Puts, AbortPut(p)
  PROVE  IInv'
<1>1. Leaves(p)
  BY LeavesStep DEF AbortPut
<1>2. /\ inFlightBytes' = inFlightBytes - reserved[p] /\ inFlightBytes' \in Nat
      /\ inFlightBytes' <= inFlightBytes
      /\ inFlightBlobs' = inFlightBlobs - 1 /\ inFlightBlobs' \in Nat
      /\ inFlightBlobs' <= inFlightBlobs
  BY <1>1 DEF IInv, AccountingExact, AbortPut, Clamp, Leaves
<1>3. TypeOK'
  BY <1>2, ConfigAssumption DEF IInv, TypeOK, AbortPut, PutFrame, PutStates, stampVars, handleVars, janitorVars,
     closeVars
<1>4. SizeOf' = SizeOf
  BY DEF SizeOf, AbortPut
<1>5. AccountingExact'
  BY <1>1, <1>2, <1>4 DEF IInv, AccountingExact, AbortPut, Leaves
<1>6. CallsConsistent'
  <2>1. OnlyCall(p)
    BY DEF OnlyCall, IInv, TypeOK, AbortPut, stampVars
  <2>2. CallConsistent(p)'
    BY ConfigAssumption DEF IInv, TypeOK, CallsConsistent, CallConsistent, AbortPut, stampVars
  <2> QED
    BY <2>1, <2>2, OtherCalls DEF IInv
<1>7. QuotaHolds'
  <2>1. /\ totalBytes \in Nat /\ inFlightBytes \in Nat /\ MaxTotalBytes \in Nat
        /\ totalBytes + inFlightBytes <= MaxTotalBytes
        /\ inFlightBlobs \in Nat /\ MaxBlobs \in Nat /\ Cardinality(DOMAIN items) \in Nat
        /\ Cardinality(DOMAIN items) + inFlightBlobs <= MaxBlobs
    BY ItemCount, ConfigAssumption DEF IInv, TypeOK, QuotaHolds
  <2>2. totalBytes + inFlightBytes' <= MaxTotalBytes
    BY <1>2, <2>1, StillFits
  <2>3. Cardinality(DOMAIN items) + inFlightBlobs' <= MaxBlobs
    BY <1>2, <2>1, StillFits
  <2>4. UNCHANGED <<totalBytes, items>>
    BY DEF AbortPut
  <2> QED
    BY <2>2, <2>3, <2>4 DEF QuotaHolds
<1> QED
  BY <1>3, <1>5, <1>6, <1>7 DEF IInv

LEMMA FinishPutStep ==
  ASSUME IInv, NEW p \in Puts, FinishPut(p)
  PROVE  IInv'
<1>1. CountsMove(p, "idle")
  BY CountStep DEF IInv, PutStates, FinishPut
<1>2. InFlightAt(pc[p]) = 0 /\ InFlightAt("idle") = 0 /\ RunningAt(pc[p]) = 1 /\ RunningAt("idle") = 0
  BY DEF InFlightAt, RunningAt, FinishPut
<1>3. /\ Cardinality(InFlight') = Cardinality(InFlight)
      /\ Cardinality(Running') = Cardinality(Running) - 1
      /\ Cardinality(Running) \in Nat /\ 1 <= Cardinality(Running)
  BY <1>1, <1>2 DEF CountsMove
<1>4. activePuts' \in Nat /\ activePuts' = Cardinality(Running')
  BY <1>3 DEF IInv, AccountingExact, FinishPut
<1>5. TypeOK'
  BY <1>4 DEF IInv, TypeOK, FinishPut, PutFrame, PutStates, stampVars, handleVars, janitorVars,
     closeVars, counterVars
<1>6. HeldBy' = HeldBy /\ SizeOf' = SizeOf
  BY DEF HeldBy, SizeOf, FinishPut
<1>7. AccountingExact'
  BY <1>3, <1>4, <1>6 DEF IInv, AccountingExact, FinishPut, counterVars
<1>8. CallsConsistent'
  <2>1. OnlyCall(p)
    BY DEF OnlyCall, IInv, TypeOK, FinishPut, stampVars
  <2>2. CallConsistent(p)'
    BY DEF IInv, TypeOK, CallsConsistent, CallConsistent, FinishPut, stampVars
  <2> QED
    BY <2>1, <2>2, OtherCalls DEF IInv
<1>9. QuotaHolds'
  BY DEF IInv, QuotaHolds, FinishPut, counterVars
<1> QED
  BY <1>5, <1>7, <1>8, <1>9 DEF IInv

\* What a commit does to the stored blobs: its own is added, and some may go.
Publishes(p) ==
  /\ totalBytes' = Bytes(SizeOf', DOMAIN items')
  /\ totalBytes' \in Nat
  /\ totalBytes' <= totalBytes + reserved[p]
  /\ Cardinality(DOMAIN items') \in Nat
  /\ Cardinality(DOMAIN items') <= Cardinality(DOMAIN items) + 1
  /\ IsPartialFunction(items', BlobIds, Item)
  /\ IsPartialFunction(blobFiles', BlobIds, 0..MaxBlobBytes)
  /\ faults' \in 0..MaxFaults

LEMMA PublishesStep ==
  ASSUME IInv, NEW p \in Puts, Commit(p)
  PROVE  Publishes(p)
<1>1. PICK gone \in SUBSET Reclaimable(stampNow[p]) :
        /\ Removed(Reclaimable(stampNow[p]), gone)
        /\ stampId[p] \notin DOMAIN items \ gone
        /\ items' = [i \in (DOMAIN items \ gone) \union {stampId[p]} |->
                       IF i = stampId[p]
                       THEN [size |-> reserved[p], expiresAt |-> stampNow[p] + TTL,
                             openCount |-> 0, deleteAfter |-> FALSE]
                       ELSE Swept(stampNow[p], gone)[i]]
        /\ totalBytes' = TotalWithout(gone) + reserved[p]
        /\ blobFiles' = [i \in (DOMAIN blobFiles \ gone) \union {stampId[p]} |->
                           IF i = stampId[p] THEN tempFiles[p] ELSE blobFiles[i]]
  BY DEF Commit
<1> DEFINE id == stampId[p]
           kept == DOMAIN items \ gone
<1>2. /\ id \in BlobIds /\ reserved[p] \in 0..MaxBlobBytes /\ tempFiles[p] = reserved[p]
      /\ stampNow[p] \in Nat /\ TTL \in Nat /\ MaxBlobBytes \in Nat
  BY ConfigAssumption, BoundAssumption DEF Commit, IInv, TypeOK, CallsConsistent, CallConsistent
<1>3. gone \subseteq DOMAIN items /\ DOMAIN items \subseteq BlobIds
  BY <1>1 DEF Reclaimable, Due, IInv, TypeOK, IsPartialFunction
<1>4. /\ IsFiniteSet(kept) /\ id \notin kept /\ Cardinality(kept) \in Nat
      /\ Cardinality(kept) <= Cardinality(DOMAIN items) /\ Cardinality(DOMAIN items) \in Nat
  BY <1>1, ItemCount, FS_Subset, FS_CardinalityType, kept \subseteq DOMAIN items DEF IInv
<1>5. DOMAIN items' = kept \union {id}
  BY <1>1
<1>6. /\ Cardinality(DOMAIN items') \in Nat
      /\ Cardinality(DOMAIN items') <= Cardinality(DOMAIN items) + 1
  <2>1. Cardinality(kept \union {id}) = Cardinality(kept) + 1
    BY <1>4, FS_AddElement
  <2> QED
    BY <2>1, <1>4, <1>5
<1>7. \A i \in kept : items'[i] \in Item /\ items'[i].size = items[i].size
  <2>1. Swept(stampNow[p], gone) \in [kept -> Item] /\ DOMAIN Swept(stampNow[p], gone) = kept
    BY SweptItems DEF IInv
  <2>2. KeepsSizes(Swept(stampNow[p], gone))
    BY SweptItems DEF IInv
  <2>3. \A i \in kept : Swept(stampNow[p], gone)[i].size = items[i].size
    BY <2>1, <2>2 DEF KeepsSizes
  <2> QED
    BY <2>1, <2>3, <1>1, <1>4
<1>8. items'[id] \in Item /\ items'[id].size = reserved[p]
  BY <1>1, <1>2 DEF Item
<1>9. IsPartialFunction(items', BlobIds, Item)
  <2>1. \A i \in DOMAIN items' : items'[i] \in Item
    BY <1>5, <1>7, <1>8
  <2> QED
    BY <2>1, <1>1, <1>2, <1>3 DEF IsPartialFunction
<1>10. totalBytes' = Bytes(SizeOf', DOMAIN items')
  <2>1. Bytes(SizeOf', kept) = TotalWithout(gone)
    <3>1. \A i \in kept : SizeOf'[i] = SizeOf[i]
      BY <1>5, <1>7 DEF SizeOf
    <3> QED
      BY <3>1, <1>3, BytesCongruence, TotalWithoutExact DEF IInv
  <2>2. Bytes(SizeOf', {id}) = reserved[p]
    <3>1. SizeOf'[id] = reserved[p]
      BY <1>5, <1>8 DEF SizeOf
    <3> QED
      BY <3>1, <1>2, BytesOne
  <2>3. IsFiniteSet({id}) /\ kept \intersect {id} = {}
    BY <1>4, FS_Singleton
  <2>4. Bytes(SizeOf', kept \union {id}) = Bytes(SizeOf', kept) + Bytes(SizeOf', {id})
    BY <1>4, <2>3, BytesUnion
  <2> QED
    BY <2>1, <2>2, <2>4, <1>1, <1>5
<1>11. totalBytes' \in Nat /\ totalBytes' <= totalBytes + reserved[p]
  <2>1. TotalWithout(gone) \in Nat /\ TotalWithout(gone) <= totalBytes /\ totalBytes \in Nat
    BY <1>3, TotalWithoutExact DEF IInv, TypeOK
  <2> QED
    BY <2>1, <1>1, <1>2
<1>12. IsPartialFunction(blobFiles', BlobIds, 0..MaxBlobBytes)
  BY <1>1, <1>2 DEF IInv, TypeOK, IsPartialFunction
<1>13. faults' \in 0..MaxFaults
  <2>1. Reclaimable(stampNow[p]) \ gone \in SUBSET DOMAIN items
    BY DEF Reclaimable, Due
  <2>2. Cardinality(Reclaimable(stampNow[p]) \ gone) \in Nat
    BY <2>1, ItemCount, FS_Subset, FS_CardinalityType DEF IInv
  <2> QED
    BY <2>2, <1>1, BoundAssumption DEF Removed, IInv, TypeOK
<1> QED
  BY <1>6, <1>9, <1>10, <1>11, <1>12, <1>13 DEF Publishes

\* What was in flight may become stored.
LEMMA StillFitsMoved ==
  \A a, a1, b, b1, r, m \in Nat :
    /\ a1 <= a + r /\ b1 = b - r /\ a + b <= m => a1 + b1 <= m
OBVIOUS

LEMMA CommitStep ==
  ASSUME IInv, NEW p \in Puts, Commit(p)
  PROVE  IInv'
<1>1. Publishes(p)
  BY PublishesStep
<1>2. Leaves(p)
  BY LeavesStep DEF Commit
<1>3. /\ inFlightBytes' = inFlightBytes - reserved[p] /\ inFlightBytes' \in Nat
      /\ inFlightBlobs' = inFlightBlobs - 1 /\ inFlightBlobs' \in Nat
  BY <1>2 DEF IInv, AccountingExact, Commit, Leaves
<1>4. TypeOK'
  <2>1. IsPartialFunction(tempFiles', Puts, 0..MaxBlobBytes)
    BY DEF IInv, TypeOK, IsPartialFunction, Without, Commit
  <2>2. reserved' \in [Puts -> 0..MaxBlobBytes] /\ stampNow' \in [Puts -> 0..MaxClock]
    BY ConfigAssumption, BoundAssumption DEF IInv, TypeOK, Commit
  <2> QED
    BY <1>1, <1>3, <2>1, <2>2 DEF IInv, TypeOK, Commit, PutFrame, PutStates, Publishes,
       handleVars, janitorVars, closeVars
<1>5. AccountingExact'
  BY <1>1, <1>2, <1>3 DEF IInv, AccountingExact, Commit, Leaves, Publishes
<1>6. CallsConsistent'
  <2>1. OnlyCall(p)
    BY DEF OnlyCall, IInv, TypeOK, Commit, Without
  <2>2. CallConsistent(p)'
    BY ConfigAssumption DEF IInv, TypeOK, CallsConsistent, CallConsistent, Commit
  <2> QED
    BY <2>1, <2>2, OtherCalls DEF IInv
<1>7. QuotaHolds'
  <2>1. /\ totalBytes \in Nat /\ inFlightBytes \in Nat /\ MaxTotalBytes \in Nat
        /\ totalBytes + inFlightBytes <= MaxTotalBytes /\ reserved[p] \in Nat
        /\ totalBytes' \in Nat /\ totalBytes' <= totalBytes + reserved[p]
    BY <1>1, <1>2, ConfigAssumption DEF IInv, TypeOK, QuotaHolds, Publishes, Leaves
  <2>2. totalBytes' + inFlightBytes' <= MaxTotalBytes
    BY <1>3, <2>1, StillFitsMoved
  <2>3. /\ inFlightBlobs \in Nat /\ MaxBlobs \in Nat /\ Cardinality(DOMAIN items) \in Nat
        /\ Cardinality(DOMAIN items) + inFlightBlobs <= MaxBlobs /\ 1 \in Nat
        /\ Cardinality(DOMAIN items') \in Nat
        /\ Cardinality(DOMAIN items') <= Cardinality(DOMAIN items) + 1
    BY <1>1, ItemCount, ConfigAssumption DEF IInv, TypeOK, QuotaHolds, Publishes
  <2>4. Cardinality(DOMAIN items') + inFlightBlobs' <= MaxBlobs
    BY <1>3, <2>3, StillFitsMoved
  <2> QED
    BY <2>2, <2>4 DEF QuotaHolds
<1> QED
  BY <1>4, <1>5, <1>6, <1>7 DEF IInv

-----------------------------------------------------------------------------
(* The handles, the janitor and Close *)

LEMMA OpenStep ==
  ASSUME IInv, NEW id \in BlobIds, NEW h \in Handles, Open(id, h)
  PROVE  IInv'
<1>1. PICK gone \in SUBSET Reclaimable(clock) :
        RemoveItems(Reclaimable(clock), gone,
                    [Swept(clock, gone) EXCEPT ![id].openCount = @ + 1])
  BY DEF Open
<1> DEFINE left == [Swept(clock, gone) EXCEPT ![id].openCount = @ + 1]
<1>2. gone \subseteq DOMAIN items /\ Reclaimable(clock) \subseteq BlobIds
  BY DEF Reclaimable, Due, IInv, TypeOK, IsPartialFunction
<1>3. /\ DOMAIN Swept(clock, gone) = DOMAIN items \ gone
      /\ Swept(clock, gone) \in [DOMAIN items \ gone -> Item]
  BY SweptItems DEF IInv
<1>4. KeepsSizes(Swept(clock, gone))
  BY SweptItems DEF IInv
<1>5. DOMAIN left = DOMAIN items \ gone /\ left \in [DOMAIN left -> Item]
  <2>1. DOMAIN left = DOMAIN items \ gone
    BY <1>3
  <2>2. ASSUME NEW it \in Item PROVE [it EXCEPT !.openCount = @ + 1] \in Item
    BY DEF Item
  <2>3. \A i \in DOMAIN left :
          left[i] = IF i = id THEN [Swept(clock, gone)[i] EXCEPT !.openCount = @ + 1]
                              ELSE Swept(clock, gone)[i]
    BY <1>3
  <2> QED
    BY <2>1, <2>2, <2>3, <1>3
<1>6. KeepsSizes(left)
  BY <1>3, <1>4 DEF KeepsSizes, Item
<1>7. StoredStep
  BY <1>1, <1>2, <1>5, <1>6, RemoveItemsStep DEF IInv
<1>8. TypeOK'
  BY <1>7 DEF IInv, TypeOK, Open, HandleFrame, StoredStep, HandleStates, putVars, stampVars,
     janitorVars, closeVars
<1> QED
  BY <1>7, <1>8, OutsideStep DEF Open, HandleFrame

LEMMA LookupStep ==
  ASSUME IInv, Lookup
  PROVE  IInv'
<1>1. StoredStep
  BY SweepStep DEF Lookup, IInv
<1>2. TypeOK'
  BY <1>1 DEF IInv, TypeOK, Lookup, HandleFrame, StoredStep, putVars, stampVars, handleVars,
     janitorVars, closeVars
<1> QED
  BY <1>1, <1>2, OutsideStep DEF Lookup, HandleFrame

LEMMA DeleteStep ==
  ASSUME IInv, NEW id \in BlobIds, Delete(id)
  PROVE  IInv'
<1>1. PICK gone \in SUBSET Reclaimable(clock) :
        \/ RemoveItems(Reclaimable(clock), gone,
                       [Swept(clock, gone) EXCEPT ![id].deleteAfter = TRUE])
        \/ \E done \in SUBSET {id} :
             RemoveItems(Reclaimable(clock) \union {id}, gone \union done,
                         Swept(clock, gone \union done))
  BY DEF Delete
<1>2. /\ gone \subseteq DOMAIN items /\ Reclaimable(clock) \subseteq BlobIds
      /\ id \in DOMAIN items
  BY DEF Reclaimable, Due, IInv, TypeOK, IsPartialFunction, Delete, Available
<1>3. StoredStep
  <2>1. CASE RemoveItems(Reclaimable(clock), gone,
                         [Swept(clock, gone) EXCEPT ![id].deleteAfter = TRUE])
    <3> DEFINE left == [Swept(clock, gone) EXCEPT ![id].deleteAfter = TRUE]
    <3>1. /\ DOMAIN Swept(clock, gone) = DOMAIN items \ gone
          /\ Swept(clock, gone) \in [DOMAIN items \ gone -> Item]
      BY SweptItems DEF IInv
    <3>2. KeepsSizes(Swept(clock, gone))
      BY SweptItems DEF IInv
    <3>3. DOMAIN left = DOMAIN items \ gone /\ left \in [DOMAIN left -> Item]
      BY <3>1 DEF Item
    <3>4. KeepsSizes(left)
      BY <3>1, <3>2 DEF KeepsSizes, Item
    <3> QED
      BY <2>1, <1>2, <3>3, <3>4, RemoveItemsStep DEF IInv
  <2>2. CASE \E done \in SUBSET {id} :
               RemoveItems(Reclaimable(clock) \union {id}, gone \union done,
                           Swept(clock, gone \union done))
    <3>1. PICK done \in SUBSET {id} :
            RemoveItems(Reclaimable(clock) \union {id}, gone \union done,
                        Swept(clock, gone \union done))
      BY <2>2
    <3> DEFINE left == Swept(clock, gone \union done)
    <3>2. DOMAIN left = DOMAIN items \ (gone \union done) /\ left \in [DOMAIN left -> Item]
      BY SweptItems DEF IInv
    <3>3. KeepsSizes(left)
      BY SweptItems DEF IInv
    <3>4. /\ gone \union done \subseteq DOMAIN items
          /\ Reclaimable(clock) \union {id} \subseteq BlobIds
      BY <1>2
    <3> QED
      BY <3>1, <3>2, <3>3, <3>4, RemoveItemsStep DEF IInv
  <2> QED
    BY <1>1, <2>1, <2>2
<1>4. TypeOK'
  BY <1>3 DEF IInv, TypeOK, Delete, HandleFrame, StoredStep, putVars, stampVars, handleVars,
     janitorVars, closeVars
<1> QED
  BY <1>3, <1>4, OutsideStep DEF Delete, HandleFrame

LEMMA ReleaseOpenStep ==
  ASSUME IInv, NEW h \in Handles, ReleaseOpen(h)
  PROVE  IInv'
<1> DEFINE id == handleId[h]
           counted == [i \in DOMAIN items |->
                         IF i = id THEN [items[i] EXCEPT !.openCount = Clamp(@ - 1)]
                                   ELSE items[i]]
<1>1. \/ LastOfDeleted(id) /\ RemoveItems({id}, {id}, Without(items, {id}))
      \/ /\ IF LastOfDeleted(id) THEN Removed({id}, {}) ELSE UNCHANGED faults
         /\ items' = counted
         /\ UNCHANGED <<totalBytes, blobFiles>>
  BY DEF ReleaseOpen
<1>2. \A i \in DOMAIN items : items[i] \in Item /\ i \in BlobIds
  BY DEF IInv, TypeOK, IsPartialFunction
<1>3. StoredStep
  <2>1. CASE LastOfDeleted(id) /\ RemoveItems({id}, {id}, Without(items, {id}))
    <3> DEFINE left == Without(items, {id})
    <3>1. {id} \subseteq DOMAIN items /\ {id} \subseteq BlobIds
      BY <2>1, <1>2 DEF LastOfDeleted
    <3>2. DOMAIN left = DOMAIN items \ {id} /\ left \in [DOMAIN left -> Item]
      BY <1>2 DEF Without
    <3>3. KeepsSizes(left)
      BY DEF Without, KeepsSizes
    <3> QED
      BY <2>1, <3>1, <3>2, <3>3, RemoveItemsStep DEF IInv
  <2>2. CASE /\ IF LastOfDeleted(id) THEN Removed({id}, {}) ELSE UNCHANGED faults
             /\ items' = counted
             /\ UNCHANGED <<totalBytes, blobFiles>>
    <3>1. faults' \in 0..MaxFaults
      <4>1. Cardinality({id} \ {}) = 1
        BY FS_Singleton, {id} \ {} = {id}
      <4> QED
        BY <2>2, <4>1, BoundAssumption DEF Removed, IInv, TypeOK
    <3>2. \A i \in DOMAIN items : counted[i] \in Item /\ counted[i].size = items[i].size
      BY <1>2 DEF Item, Clamp
    <3>3. IsPartialFunction(items', BlobIds, Item)
      BY <2>2, <1>2, <3>2 DEF IsPartialFunction
    <3>4. SizeOf' = SizeOf
      BY <2>2, <3>2 DEF SizeOf
    <3>5. DOMAIN items' = DOMAIN items
      BY <2>2
    <3>6. IsFiniteSet(DOMAIN items) /\ Cardinality(DOMAIN items) \in Nat
      BY ItemCount DEF IInv
    <3> QED
      BY <2>2, <3>1, <3>3, <3>4, <3>5, <3>6 DEF StoredStep, IInv, TypeOK, AccountingExact
  <2> QED
    BY <1>1, <2>1, <2>2
<1>4. TypeOK'
  BY <1>3 DEF IInv, TypeOK, ReleaseOpen, HandleFrame, StoredStep, HandleStates, putVars,
     stampVars, janitorVars, closeVars
<1> QED
  BY <1>3, <1>4, OutsideStep DEF ReleaseOpen, HandleFrame

LEMMA JanitorStep ==
  ASSUME IInv, JanitorTick \/ JanitorSweep \/ JanitorStop
  PROVE  IInv'
<1>1. StoredStep
  BY SweepStep, StoredSame DEF JanitorTick, JanitorSweep, JanitorStop, IInv
<1>2. TypeOK'
  BY <1>1, BoundAssumption DEF IInv, TypeOK, JanitorTick, JanitorSweep, JanitorStop,
     JanitorFrame, StoredStep, putVars, stampVars, handleVars, closeVars
<1> QED
  BY <1>1, <1>2, OutsideStep DEF JanitorTick, JanitorSweep, JanitorStop, JanitorFrame

\* The steps that do not touch the blobs: a handle that starts to close, the
\* time, and those of Close that only wait.
Elsewhere ==
  \/ \E h \in Handles : CloseHandle(h) \/ CloseNextFile(h)
  \/ CloseBegin \/ CloseJanitorDone \/ CloseFileDone \/ CloseFilesDone
  \/ Tick \/ Terminated

LEMMA ElsewhereStep ==
  ASSUME IInv, Elsewhere
  PROVE  IInv'
<1>1. UNCHANGED <<storedVars, inFlightBytes, inFlightBlobs, activePuts, putVars, tempFiles>>
  BY DEF Elsewhere, CloseHandle, CloseNextFile, CloseBegin, CloseJanitorDone, CloseFileDone,
     CloseFilesDone, CloseFrame, Tick, Terminated, storedVars, counterVars, vars
<1>2. StoredStep
  BY <1>1, StoredSame
<1>3. TypeOK'
  <2>1. CASE \E h \in Handles : CloseHandle(h) \/ CloseNextFile(h)
    BY <2>1 DEF IInv, TypeOK, CloseHandle, CloseNextFile, CloseFrame, HandleStates, counterVars,
       putVars, stampVars, janitorVars, closeVars
  <2>2. CASE CloseBegin \/ CloseJanitorDone \/ CloseFileDone \/ CloseFilesDone
    BY <2>2 DEF IInv, TypeOK, CloseBegin, CloseJanitorDone, CloseFileDone, CloseFilesDone,
       CloseFrame, CloseStates, counterVars, putVars, stampVars, janitorVars
  <2>3. CASE Tick
    BY <2>3, BoundAssumption DEF IInv, TypeOK, Tick, counterVars, putVars, stampVars, handleVars,
       janitorVars, closeVars
  <2>4. CASE Terminated
    BY <2>4 DEF IInv, TypeOK, Terminated, vars, counterVars, putVars, stampVars, handleVars,
       janitorVars, closeVars, IsPartialFunction
  <2> QED
    BY <2>1, <2>2, <2>3, <2>4 DEF Elsewhere
<1> QED
  BY <1>1, <1>2, <1>3, OutsideStep

\* With no call running nothing is in flight: the counters that Close sets to
\* zero were zero.
LEMMA CloseForgetStep ==
  ASSUME IInv, CloseForget
  PROVE  IInv'
<1>1. Running = {}
  <2>1. Cardinality(Running) = 0 /\ IsFiniteSet(Running)
    BY BoundAssumption, FS_Subset, Running \in SUBSET Puts
       DEF IInv, AccountingExact, CloseForget, Running
  <2> QED
    BY <2>1, FS_EmptySet
<1>2. InFlight = {} /\ \A p \in Puts : HeldBy[p] = 0
  <2>1. \A p \in Puts : pc[p] = "idle"
    BY <1>1 DEF Running
  <2>2. \A p \in Puts : reserved[p] = 0 /\ pending[p] = 0
    BY <2>1 DEF IInv, CallsConsistent, CallConsistent
  <2> QED
    BY <2>1, <2>2 DEF InFlight, HeldBy
<1>3. HeldBy' = HeldBy /\ InFlight' = InFlight /\ Running' = Running
  BY DEF HeldBy, InFlight, Running, CloseForget, CloseFrame, putVars
<1>4. DOMAIN items' = {} /\ IsPartialFunction(items', BlobIds, Item)
  BY DEF CloseForget, IsPartialFunction
<1>5. TypeOK'
  BY <1>4 DEF IInv, TypeOK, CloseForget, CloseFrame, CloseStates, putVars, stampVars, janitorVars,
     IsPartialFunction
<1>6. AccountingExact'
  <2>1. Bytes(HeldBy, Puts) = 0
    BY <1>2, BytesNone
  <2>2. Bytes(SizeOf', DOMAIN items') = 0
    BY <1>4, BytesNone
  <2>3. Cardinality({}) = 0
    BY FS_EmptySet
  <2> QED
    BY <1>1, <1>2, <1>3, <2>1, <2>2, <2>3 DEF IInv, AccountingExact, CloseForget, CloseFrame
<1>7. CallsConsistent'
  BY DEF IInv, CallsConsistent, CallConsistent, CloseForget, CloseFrame, putVars, stampVars
<1>8. QuotaHolds'
  BY <1>4, FS_EmptySet, ConfigAssumption DEF QuotaHolds, CloseForget
<1> QED
  BY <1>5, <1>6, <1>7, <1>8 DEF IInv

\* Once Close has waited for the Puts no other begins.
Shut ==
  /\ closePc # "notCalled" => closed
  /\ closePc \in {"remove", "done"} => \A p \in Puts : pc[p] = "idle"

\* Close removes files whose items it has forgotten; the temporary files of a
\* directory of its own go with it, when no call is running.
LEMMA CloseRemoveStep ==
  ASSUME IInv, Shut, CloseRemove
  PROVE  IInv'
<1>1. TypeOK'
  <2>1. PICK left \in SUBSET IF OwnedDir THEN DOMAIN blobFiles ELSE closeIds :
          /\ Removed(left, {})
          /\ closeErr' = (left # {})
          /\ blobFiles' = [i \in DOMAIN blobFiles \ ((IF OwnedDir THEN BlobIds ELSE closeIds)
                                                      \ left) |-> blobFiles[i]]
    BY DEF CloseRemove
  <2>2. left \subseteq BlobIds
    BY DEF IInv, TypeOK, IsPartialFunction
  <2>3. Cardinality(left \ {}) \in Nat
    BY <2>2, BoundAssumption, FS_Subset, FS_CardinalityType, left \ {} \in SUBSET BlobIds
  <2>4. faults' \in 0..MaxFaults
    BY <2>1, <2>3, BoundAssumption DEF Removed, IInv, TypeOK
  <2>5. /\ IsPartialFunction(blobFiles', BlobIds, 0..MaxBlobBytes)
        /\ IsPartialFunction(tempFiles', Puts, 0..MaxBlobBytes)
    BY <2>1 DEF CloseRemove, IInv, TypeOK, IsPartialFunction
  <2>6. closeErr' \in BOOLEAN
    BY <2>1
  <2> QED
    BY <2>4, <2>5, <2>6 DEF IInv, TypeOK, CloseRemove, CloseStates, counterVars, putVars,
       stampVars, handleVars, janitorVars
<1>2. HeldBy' = HeldBy /\ InFlight' = InFlight /\ Running' = Running /\ SizeOf' = SizeOf
  BY DEF HeldBy, InFlight, Running, SizeOf, CloseRemove, putVars
<1>3. AccountingExact'
  BY <1>2 DEF IInv, AccountingExact, CloseRemove, counterVars
<1>4. CallsConsistent'
  BY DEF IInv, Shut, CallsConsistent, CallConsistent, CloseRemove, putVars, stampVars
<1>5. QuotaHolds'
  BY DEF IInv, QuotaHolds, CloseRemove, counterVars
<1> QED
  BY <1>1, <1>3, <1>4, <1>5 DEF IInv

LEMMA ShutStep ==
  ASSUME IInv, Shut, [Next]_vars
  PROVE  Shut'
<1>1. CASE CloseForget
  <2>1. Cardinality(Running) = 0 /\ IsFiniteSet(Running)
    BY <1>1, BoundAssumption, FS_Subset, Running \in SUBSET Puts
       DEF IInv, AccountingExact, CloseForget, Running
  <2>2. Running = {}
    BY <2>1, FS_EmptySet
  <2> QED
    BY <1>1, <2>2 DEF Shut, CloseForget, CloseFrame, Running, putVars
<1>2. CASE CloseBegin \/ (CloseStep /\ ~CloseForget)
  BY <1>2 DEF Shut, CloseBegin, CloseStep, CloseJanitorDone, CloseNextFile, CloseFileDone,
     CloseFilesDone, CloseRemove, CloseFrame, putVars
<1>3. ASSUME NEW p \in Puts, BeginPut(p) \/ RefusePut(p) \/ PutStep(p)
      PROVE  Shut'
  <2>1. UNCHANGED <<closePc, closed>>
    BY <1>3 DEF PutFrame, closeVars, BeginPut, RefusePut, PutStep, CreateTemp, ReserveChunk,
       WriteChunk, FailCopy, Stamp, Commit, RefuseCommit, RemoveTemp, AbortPut, FinishPut
  <2>2. closePc \notin {"remove", "done"}
    <3>1. CASE BeginPut(p) \/ RefusePut(p)
      BY <3>1 DEF Shut, BeginPut, RefusePut
    <3>2. CASE PutStep(p)
      BY <3>2 DEF Shut, PutStep, CreateTemp, ReserveChunk, WriteChunk, FailCopy, Stamp, Commit,
         RefuseCommit, RemoveTemp, AbortPut, FinishPut
    <3> QED
      BY <1>3, <3>1, <3>2
  <2> QED
    BY <2>1, <2>2 DEF Shut
<1>4. ASSUME UNCHANGED <<closePc, closed, pc>>
      PROVE  Shut'
  BY <1>4 DEF Shut
<1>5. CASE \/ \E id \in BlobIds, h \in Handles : Open(id, h)
           \/ Lookup
           \/ \E id \in BlobIds : Delete(id)
           \/ \E h \in Handles : CloseHandle(h) \/ ReleaseOpen(h)
           \/ JanitorTick \/ JanitorSweep \/ JanitorStop
           \/ Tick \/ Terminated
           \/ UNCHANGED vars
  BY <1>4, <1>5 DEF Open, Lookup, Delete, CloseHandle, ReleaseOpen, HandleFrame, JanitorTick,
     JanitorSweep, JanitorStop, JanitorFrame, Tick, Terminated, vars, putVars, closeVars
<1> QED
  BY <1>1, <1>2, <1>3, <1>5 DEF Next, CloseStep

LEMMA InitInvariant ==
  ASSUME Init
  PROVE  IInv /\ Shut
<1>1. DOMAIN items = {} /\ InFlight = {} /\ Running = {} /\ Cardinality({}) = 0
  BY FS_EmptySet DEF Init, InFlight, Running
<1>2. TypeOK
  <2>1. /\ IsPartialFunction(items, BlobIds, Item)
        /\ IsPartialFunction(blobFiles, BlobIds, 0..MaxBlobBytes)
        /\ IsPartialFunction(tempFiles, Puts, 0..MaxBlobBytes)
    BY DEF Init, IsPartialFunction
  <2>2. /\ pc \in [Puts -> PutStates]
        /\ stampId \in [Puts -> BlobIds \union {NoBlob}]
        /\ handle \in [Handles -> HandleStates]
        /\ handleId \in [Handles -> BlobIds \union {NoBlob}]
    BY DEF Init, PutStates, HandleStates
  <2>3. 0 \in 0..MaxBlobBytes /\ 0 \in 0..MaxClock /\ 0 \in 0..MaxFaults
    BY ConfigAssumption, BoundAssumption
  <2>4. /\ reserved \in [Puts -> 0..MaxBlobBytes] /\ pending \in [Puts -> 0..MaxBlobBytes]
        /\ stampNow \in [Puts -> 0..MaxClock]
    BY <2>3 DEF Init
  <2> QED
    BY <2>1, <2>2, <2>3, <2>4 DEF Init, TypeOK, CloseStates
<1>3. AccountingExact
  <2>1. \A p \in Puts : HeldBy[p] = 0
    BY DEF Init, HeldBy
  <2>2. Bytes(HeldBy, Puts) = 0 /\ Bytes(SizeOf, DOMAIN items) = 0
    BY <2>1, <1>1, BytesNone
  <2> QED
    BY <1>1, <2>2 DEF Init, AccountingExact
<1>4. CallsConsistent
  BY ConfigAssumption DEF Init, CallsConsistent, CallConsistent
<1>5. QuotaHolds
  BY <1>1, ConfigAssumption DEF Init, QuotaHolds
<1> QED
  BY <1>2, <1>3, <1>4, <1>5 DEF IInv, Shut, Init

LEMMA NextInvariant ==
  ASSUME IInv, Shut, [Next]_vars
  PROVE  IInv'
<1>1. CASE UNCHANGED vars
  BY <1>1 DEF vars, counterVars, putVars, stampVars, handleVars, janitorVars, closeVars, IInv,
     TypeOK, IsPartialFunction, AccountingExact, SizeOf, HeldBy, InFlight, Running,
     CallsConsistent, CallConsistent, QuotaHolds
<1>2. ASSUME NEW p \in Puts, BeginPut(p) \/ RefusePut(p) \/ PutStep(p)
      PROVE  IInv'
  BY <1>2, BeginPutStep, RefusePutStep, CreateTempStep, ReserveChunkStep, WriteChunkStep,
     FailCopyStep, StampStep, CommitStep, RefuseCommitStep, RemoveTempStep, AbortPutStep,
     FinishPutStep DEF PutStep
<1>3. ASSUME NEW id \in BlobIds, NEW h \in Handles, Open(id, h)
      PROVE  IInv'
  BY <1>3, OpenStep
<1>4. CASE JanitorTick \/ JanitorSweep \/ JanitorStop
  BY <1>4, JanitorStep
<1>5. CASE Elsewhere
  BY <1>5, ElsewhereStep
<1>6. CASE CloseForget \/ CloseRemove
  BY <1>6, CloseForgetStep, CloseRemoveStep
<1>7. CASE Lookup
  BY <1>7, LookupStep
<1>8. ASSUME NEW id \in BlobIds, Delete(id)
      PROVE  IInv'
  BY <1>8, DeleteStep
<1>9. ASSUME NEW h \in Handles, ReleaseOpen(h)
      PROVE  IInv'
  BY <1>9, ReleaseOpenStep
<1> QED
  BY <1>1, <1>2, <1>3, <1>4, <1>5, <1>6, <1>7, <1>8, <1>9 DEF Next, CloseStep, Elsewhere

-----------------------------------------------------------------------------
(* The theorems *)

\* The inductive invariant holds in every state.
THEOREM Invariant == Spec => [](IInv /\ Shut)
<1>1. Init => IInv /\ Shut
  BY InitInvariant
<1>2. (IInv /\ Shut) /\ [Next]_vars => (IInv /\ Shut)'
  BY NextInvariant, ShutStep
<1> QED
  BY <1>1, <1>2, PTL DEF Spec

\* Every field, call, handle and file holds what its type allows
\* (store.go:50-78).
THEOREM TypeCorrect == Spec => []TypeOK
BY Invariant, PTL DEF IInv

\* The counters are the sums they stand for in every state: no clamp ever hides
\* an error of the accounting (store.go:219-228, 364-402, 430-440).
THEOREM Accounting == Spec => []AccountingExact
BY Invariant, PTL DEF IInv

\* A Put holds what its temporary file has (store.go:551-575).
THEOREM Calls == Spec => []CallsConsistent
BY Invariant, PTL DEF IInv

\* The limits on bytes and on blobs hold whatever Puts race (store.go:349-378).
THEOREM Quota == Spec => []QuotaHolds
BY Invariant, PTL DEF IInv

-----------------------------------------------------------------------------
(* The strengthening.  The limits are about counters: they hold of the disk *)
(* because a file is in the directory exactly while its item is counted     *)
(* (FilesKept).  A file stays under its readers because openCount is exactly *)
(* how many have it (HandlesKept).  Close meets nobody because the handles it *)
(* found are all there will be (Closing).  A time taken before the mutex is *)
(* never ahead of the clock (InThePast).                                    *)

Forgotten == closePc \in {"remove", "done"}
ReadersOf(i) == {h \in Handles : handleId[h] = i}
Writing == {"copy", "write", "commit", "remove"}

HandlesKept ==
  /\ \A h \in Handles : /\ handle[h] = "free" <=> handleId[h] = NoBlob
                        /\ handle[h] # "free" => handleId[h] \in DOMAIN items
  /\ openFiles = {h \in Handles : handle[h] # "free"}
  /\ \A i \in DOMAIN items : items[i].openCount = Cardinality(ReadersOf(i))

FilesKept ==
  /\ ~Forgotten => blobFiles = SizeOf
  /\ Forgotten => DOMAIN items = {} /\ Bytes(blobFiles, DOMAIN blobFiles) <= MaxTotalBytes
  /\ closePc = "remove" => closeIds = DOMAIN blobFiles
  /\ closePc = "done" /\ ~closeErr => DOMAIN blobFiles = {}
  /\ \A p \in DOMAIN tempFiles : pc[p] \in Writing \/ faults > 0

Closing ==
  /\ closed <=> closePc # "notCalled"
  /\ closePc \in {"files", "puts", "remove", "done"} => janitor = "stopped"
  /\ closePc \in {"janitor", "files"} =>
       \A h \in Handles : handle[h] # "free" => h \in closeFiles \union {closeFile}
  /\ closePc \in {"puts", "remove", "done"} => \A h \in Handles : handle[h] = "free"

InThePast ==
  /\ \A p \in Puts : stampNow[p] <= clock
  /\ janitorNow <= clock

Base == IInv /\ Shut
Life == HandlesKept /\ FilesKept /\ Closing /\ InThePast

-----------------------------------------------------------------------------
(* What a critical section does to the items but for those of S: they keep  *)
(* their size, their readers and their end; one that can be found can still *)
(* be found, and one that is marked stays marked; what is gone could not be *)
(* found and had no reader.                                                 *)

Same(i) ==
  /\ items'[i].size = items[i].size
  /\ items'[i].expiresAt = items[i].expiresAt
  /\ items'[i].openCount = items[i].openCount

Aged(i) ==
  /\ Same(i)
  /\ Available(i) => ~items'[i].deleteAfter
  /\ items[i].deleteAfter => items'[i].deleteAfter

Cleaned(S) ==
  \A i \in BlobIds \ S :
    /\ i \in DOMAIN items' => i \in DOMAIN items /\ Aged(i)
    /\ i \in DOMAIN items \ DOMAIN items' => items[i].openCount = 0 /\ ~Available(i)

\* The items as functions on some blobs.
LEMMA ItemsTyped ==
  ASSUME TypeOK
  PROVE  /\ DOMAIN items \subseteq BlobIds
         /\ \A i \in DOMAIN items :
              /\ items[i] \in Item /\ items[i].size \in 0..MaxBlobBytes
              /\ items[i].expiresAt \in Nat /\ items[i].openCount \in Nat
              /\ items[i].deleteAfter \in BOOLEAN
         /\ clock \in Nat
BY BoundAssumption DEF TypeOK, IsPartialFunction, Item

\* cleanupExpiredLocked marks only what nobody can find any more.
AgedIn(swept, i) ==
  /\ swept[i].size = items[i].size
  /\ swept[i].expiresAt = items[i].expiresAt
  /\ swept[i].openCount = items[i].openCount
  /\ Available(i) => ~swept[i].deleteAfter
  /\ items[i].deleteAfter => swept[i].deleteAfter

LEMMA SweptAged ==
  ASSUME TypeOK, NEW now \in Nat, now <= clock, NEW gone
  PROVE  \A i \in DOMAIN items : i \notin gone => AgedIn(Swept(now, gone), i)
<1> SUFFICES ASSUME NEW i \in DOMAIN items, i \notin gone
             PROVE  AgedIn(Swept(now, gone), i)
  OBVIOUS
<1>1. Swept(now, gone)[i] = [items[i] EXCEPT !.deleteAfter = @ \/ i \in Due(now)]
  BY DEF Swept
<1>2. Available(i) => i \notin Due(now) /\ ~items[i].deleteAfter
  BY ItemsTyped DEF Available, Due
<1>3. items[i] \in Item
  BY ItemsTyped
<1> QED
  BY <1>1, <1>2, <1>3 DEF Item, AgedIn

\* What it removes nobody can find, and nobody has open.
LEMMA ReclaimableUnseen ==
  ASSUME TypeOK, NEW now \in Nat, now <= clock, NEW i \in Reclaimable(now)
  PROVE  i \in DOMAIN items /\ items[i].openCount = 0 /\ ~Available(i)
BY ItemsTyped DEF Reclaimable, Due, Available

LEMMA SweepCleans ==
  ASSUME TypeOK, NEW now \in Nat, now <= clock, Sweep(now)
  PROVE  Cleaned({})
<1>1. PICK gone \in SUBSET Reclaimable(now) :
        RemoveItems(Reclaimable(now), gone, Swept(now, gone))
  BY DEF Sweep
<1>2. items' = Swept(now, gone) /\ DOMAIN items' = DOMAIN items \ gone
  BY <1>1 DEF RemoveItems, Swept
<1>3. ASSUME NEW i \in BlobIds, i \in DOMAIN items' PROVE i \in DOMAIN items /\ Aged(i)
  BY <1>2, <1>3, SweptAged DEF Aged, Same, AgedIn
<1>4. ASSUME NEW i \in BlobIds, i \in DOMAIN items \ DOMAIN items'
      PROVE  items[i].openCount = 0 /\ ~Available(i)
  BY <1>2, <1>4, ReclaimableUnseen
<1> QED
  BY <1>3, <1>4 DEF Cleaned

LEMMA SameCleans ==
  ASSUME TypeOK, UNCHANGED items
  PROVE  Cleaned({})
BY DEF Cleaned, Aged, Same, Available

\* A removal takes the files of the items it takes.
LEMMA RemovalKeepsFiles ==
  ASSUME blobFiles = SizeOf, NEW wanted, NEW gone, NEW left,
         RemoveItems(wanted, gone, left),
         DOMAIN left = DOMAIN items \ gone, KeepsSizes(left)
  PROVE  blobFiles' = SizeOf'
<1>1. SizeOf' = [i \in DOMAIN items \ gone |-> items[i].size]
  BY DEF RemoveItems, SizeOf, KeepsSizes
<1>2. blobFiles' = [i \in DOMAIN items \ gone |-> items[i].size]
  BY DEF RemoveItems, SizeOf, Without
<1> QED
  BY <1>1, <1>2

LEMMA SweepKeepsFiles ==
  ASSUME TypeOK, blobFiles = SizeOf, NEW now, Sweep(now)
  PROVE  blobFiles' = SizeOf'
<1>1. PICK gone \in SUBSET Reclaimable(now) :
        RemoveItems(Reclaimable(now), gone, Swept(now, gone))
  BY DEF Sweep
<1>2. DOMAIN Swept(now, gone) = DOMAIN items \ gone
  BY SweptItems
<1>3. KeepsSizes(Swept(now, gone))
  BY SweptItems
<1> QED
  BY <1>1, <1>2, <1>3, RemovalKeepsFiles

-----------------------------------------------------------------------------
(* The steps, by what they do to the items and the handles.                 *)

\* Most neither publish a blob nor open or leave one.
Undisturbed ==
  /\ Cleaned({})
  /\ blobFiles = SizeOf => blobFiles' = SizeOf'
  /\ UNCHANGED <<handleId, openFiles>>
  /\ \A h \in Handles : handle'[h] = "free" <=> handle[h] = "free"
  /\ closed => UNCHANGED items
  /\ UNCHANGED closed \/ CloseBegin

PutUndisturbed(p) ==
  \/ BeginPut(p) \/ RefusePut(p) \/ CreateTemp(p)
  \/ \E n \in 1..MaxBlobBytes : ReserveChunk(p, n)
  \/ \E k \in 0..MaxBlobBytes : WriteChunk(p, k)
  \/ FailCopy(p)
  \/ \E id \in BlobIds : Stamp(p, id)
  \/ RefuseCommit(p) \/ RemoveTemp(p) \/ AbortPut(p) \/ FinishPut(p)

Cleaning ==
  \/ \E p \in Puts : BeginPut(p) \/ RefusePut(p) \/ RefuseCommit(p)
  \/ Lookup \/ JanitorSweep

LEMMA CleaningUndisturbed ==
  ASSUME Base, InThePast, Cleaning
  PROVE  Undisturbed
<1>1. \/ UNCHANGED <<items, blobFiles>>
      \/ ~closed /\ \E now \in Nat : now <= clock /\ Sweep(now)
  <2>1. clock \in Nat /\ janitorNow \in Nat /\ \A p \in Puts : stampNow[p] \in Nat
    BY BoundAssumption DEF Base, IInv, TypeOK
  <2> QED
    BY <2>1 DEF Cleaning, BeginPut, RefusePut, RefuseCommit, Lookup, JanitorSweep, storedVars,
       InThePast
<1>2. Cleaned({}) /\ (blobFiles = SizeOf => blobFiles' = SizeOf')
  <2>1. CASE UNCHANGED <<items, blobFiles>>
    BY <2>1, SameCleans DEF SizeOf, Base, IInv
  <2>2. ASSUME NEW now \in Nat, now <= clock, Sweep(now)
        PROVE  Cleaned({}) /\ (blobFiles = SizeOf => blobFiles' = SizeOf')
    BY <2>2, SweepCleans, SweepKeepsFiles DEF Base, IInv
  <2> QED
    BY <1>1, <2>1, <2>2
<1>3. UNCHANGED <<handle, handleId, openFiles, closed>>
  BY DEF Cleaning, BeginPut, RefusePut, RefuseCommit, Lookup, JanitorSweep, PutFrame, HandleFrame,
     JanitorFrame, handleVars
<1> QED
  BY <1>1, <1>2, <1>3 DEF Undisturbed

LEMMA PutIsUndisturbed ==
  ASSUME Base, InThePast, NEW p \in Puts, PutUndisturbed(p)
  PROVE  Undisturbed
<1>1. CASE BeginPut(p) \/ RefusePut(p) \/ RefuseCommit(p)
  BY <1>1, CleaningUndisturbed DEF Cleaning
<1>2. CASE ~(BeginPut(p) \/ RefusePut(p) \/ RefuseCommit(p))
  <2>1. UNCHANGED <<items, blobFiles, handle, handleId, openFiles, closed>>
    BY <1>2 DEF PutUndisturbed, CreateTemp, ReserveChunk, WriteChunk, FailCopy, Stamp, RemoveTemp,
       AbortPut, FinishPut, PutFrame, handleVars
  <2> QED
    BY <2>1, SameCleans DEF Undisturbed, SizeOf, Base, IInv
<1> QED
  BY <1>1, <1>2

LEMMA ElsewhereUndisturbed ==
  ASSUME Base, Elsewhere \/ JanitorTick \/ JanitorStop \/ UNCHANGED vars
  PROVE  Undisturbed
<1>1. UNCHANGED <<items, blobFiles, handleId, openFiles>>
  BY DEF Elsewhere, JanitorTick, JanitorStop, JanitorFrame, storedVars, CloseHandle, CloseNextFile,
     CloseBegin, CloseJanitorDone, CloseFileDone, CloseFilesDone, CloseFrame, Tick, Terminated,
     vars, handleVars
<1>2. \A h \in Handles : handle'[h] = "free" <=> handle[h] = "free"
  BY DEF Elsewhere, JanitorTick, JanitorStop, JanitorFrame, CloseHandle, CloseNextFile,
     CloseBegin, CloseJanitorDone, CloseFileDone, CloseFilesDone, Tick, Terminated,
     vars, handleVars, Base, IInv, TypeOK
<1>3. UNCHANGED closed \/ CloseBegin
  BY DEF Elsewhere, JanitorTick, JanitorStop, JanitorFrame, CloseHandle, CloseNextFile,
     CloseJanitorDone, CloseFileDone, CloseFilesDone, CloseFrame, Tick, Terminated, vars
<1> QED
  BY <1>1, <1>2, <1>3, SameCleans DEF Undisturbed, SizeOf, Base, IInv

\* A commit adds its blob, under an identifier that nobody could find any more.
CommitAdds(p) ==
  /\ Cleaned({stampId[p]})
  /\ blobFiles = SizeOf => blobFiles' = SizeOf'
  /\ UNCHANGED <<handle, handleId, openFiles>>
  /\ stampId[p] \in BlobIds /\ stampId[p] \in DOMAIN items'
  /\ items'[stampId[p]].openCount = 0
  /\ items'[stampId[p]].size = reserved[p]
  /\ stampId[p] \in DOMAIN items => items[stampId[p]].openCount = 0 /\ ~Available(stampId[p])

LEMMA CommitItems ==
  ASSUME Base, InThePast, NEW p \in Puts, Commit(p)
  PROVE  CommitAdds(p)
<1> DEFINE id == stampId[p]
           now == stampNow[p]
<1>1. PICK gone \in SUBSET Reclaimable(now) :
        /\ id \notin DOMAIN items \ gone
        /\ items' = [i \in (DOMAIN items \ gone) \union {id} |->
                       IF i = id
                       THEN [size |-> reserved[p], expiresAt |-> now + TTL,
                             openCount |-> 0, deleteAfter |-> FALSE]
                       ELSE Swept(now, gone)[i]]
        /\ blobFiles' = [i \in (DOMAIN blobFiles \ gone) \union {id} |->
                           IF i = id THEN tempFiles[p] ELSE blobFiles[i]]
  BY DEF Commit
<1>2. id \in BlobIds /\ tempFiles[p] = reserved[p] /\ now \in Nat /\ now <= clock /\ TypeOK
  BY BoundAssumption DEF Base, IInv, TypeOK, CallsConsistent, CallConsistent, Commit, InThePast
<1>3. \A i \in gone : i \in DOMAIN items /\ items[i].openCount = 0 /\ ~Available(i)
  BY <1>2, ReclaimableUnseen
<1>4. ASSUME NEW i \in BlobIds \ {id}, i \in DOMAIN items' PROVE i \in DOMAIN items /\ Aged(i)
  <2>1. i \in DOMAIN items \ gone /\ items'[i] = Swept(now, gone)[i]
    BY <1>1, <1>4
  <2>2. AgedIn(Swept(now, gone), i)
    BY <1>2, <2>1, SweptAged
  <2> QED
    BY <2>1, <2>2 DEF Aged, Same, AgedIn
<1>5. ASSUME NEW i \in BlobIds \ {id}, i \in DOMAIN items \ DOMAIN items'
      PROVE  items[i].openCount = 0 /\ ~Available(i)
  BY <1>1, <1>3, <1>5
<1>6. Cleaned({id})
  BY <1>4, <1>5 DEF Cleaned
<1>7. ASSUME blobFiles = SizeOf PROVE blobFiles' = SizeOf'
  <2>1. \A i \in DOMAIN items \ gone : Swept(now, gone)[i].size = items[i].size
    BY <1>2, SweptAged DEF AgedIn
  <2>2. SizeOf' = [i \in (DOMAIN items \ gone) \union {id} |->
                     IF i = id THEN reserved[p] ELSE items[i].size]
    BY <1>1, <2>1 DEF SizeOf
  <2>3. blobFiles' = [i \in (DOMAIN items \ gone) \union {id} |->
                        IF i = id THEN reserved[p] ELSE items[i].size]
    BY <1>1, <1>2, <1>7 DEF SizeOf
  <2> QED
    BY <2>2, <2>3
<1>8. UNCHANGED <<handle, handleId, openFiles>>
  BY DEF Commit, PutFrame, handleVars
<1> QED
  BY <1>1, <1>2, <1>3, <1>6, <1>7, <1>8 DEF CommitAdds

\* Open counts one more reader of a blob that can be found.
OpenAdds(id, h) ==
  /\ Cleaned({id})
  /\ blobFiles = SizeOf => blobFiles' = SizeOf'
  /\ id \in DOMAIN items /\ id \in DOMAIN items' /\ Available(id)
  /\ items'[id].openCount = items[id].openCount + 1
  /\ items'[id].size = items[id].size /\ items'[id].expiresAt = items[id].expiresAt
  /\ ~items'[id].deleteAfter

LEMMA OpenItems ==
  ASSUME Base, NEW id \in BlobIds, NEW h \in Handles, Open(id, h)
  PROVE  OpenAdds(id, h)
<1> DEFINE Left(gone) == [Swept(clock, gone) EXCEPT ![id].openCount = @ + 1]
<1>1. PICK gone \in SUBSET Reclaimable(clock) :
        RemoveItems(Reclaimable(clock), gone, Left(gone))
  BY DEF Open
<1>2. TypeOK /\ clock \in Nat /\ clock <= clock /\ Available(id) /\ id \in DOMAIN items
  BY ItemsTyped DEF Base, IInv, Open, Available
<1>3. \A i \in gone : i \in DOMAIN items /\ items[i].openCount = 0 /\ ~Available(i)
  BY <1>2, ReclaimableUnseen
<1>4. /\ DOMAIN Swept(clock, gone) = DOMAIN items \ gone
      /\ Swept(clock, gone) \in [DOMAIN items \ gone -> Item]
  BY <1>2, SweptItems
<1>5. items' = Left(gone) /\ DOMAIN items' = DOMAIN items \ gone
  BY <1>1, <1>4 DEF RemoveItems
<1>6. /\ \A i \in DOMAIN items' \ {id} : items'[i] = Swept(clock, gone)[i]
      /\ id \in DOMAIN items'
      /\ items'[id] = [Swept(clock, gone)[id] EXCEPT !.openCount = @ + 1]
  BY <1>2, <1>3, <1>4, <1>5
<1>7. Cleaned({id})
  <2>1. ASSUME NEW i \in BlobIds \ {id}, i \in DOMAIN items' PROVE i \in DOMAIN items /\ Aged(i)
    BY <1>2, <1>5, <1>6, <2>1, SweptAged DEF Aged, Same, AgedIn
  <2>2. ASSUME NEW i \in BlobIds \ {id}, i \in DOMAIN items \ DOMAIN items'
        PROVE  items[i].openCount = 0 /\ ~Available(i)
    BY <1>3, <1>5, <2>2
  <2> QED
    BY <2>1, <2>2 DEF Cleaned
<1>8. /\ items'[id].openCount = items[id].openCount + 1
      /\ items'[id].size = items[id].size /\ items'[id].expiresAt = items[id].expiresAt
      /\ ~items'[id].deleteAfter
  <2>1. Swept(clock, gone)[id] \in Item
    BY <1>4, <1>5, <1>6
  <2> QED
    BY <1>2, <1>5, <1>6, <2>1, SweptAged DEF Item, AgedIn
<1>9. ASSUME blobFiles = SizeOf PROVE blobFiles' = SizeOf'
  <2>1. KeepsSizes(items') /\ DOMAIN items' = DOMAIN items \ gone
    <3>1. ASSUME NEW i \in DOMAIN items' \ {id} PROVE items'[i].size = items[i].size
      <4>1. i \in DOMAIN items \ gone /\ items'[i] = Swept(clock, gone)[i]
        BY <1>5, <1>6
      <4> QED
        BY <1>2, <4>1, SweptAged DEF AgedIn
    <3> QED
      BY <1>5, <1>8, <3>1 DEF KeepsSizes
  <2> QED
    BY <1>1, <1>5, <1>9, <2>1, RemovalKeepsFiles
<1> QED
  BY <1>2, <1>6, <1>7, <1>8, <1>9 DEF OpenAdds

\* Delete marks a blob that has readers, and else removes it or leaves it.
DeleteTakes(id) ==
  /\ Cleaned({id})
  /\ blobFiles = SizeOf => blobFiles' = SizeOf'
  /\ UNCHANGED <<handle, handleId, openFiles>>
  /\ id \in DOMAIN items /\ Available(id)
  /\ id \notin DOMAIN items' => items[id].openCount = 0
  /\ id \in DOMAIN items' => Same(id)

LEMMA DeleteItems ==
  ASSUME Base, NEW id \in BlobIds, Delete(id)
  PROVE  DeleteTakes(id)
<1>1. PICK gone \in SUBSET Reclaimable(clock) :
        \/ RemoveItems(Reclaimable(clock), gone,
                       [Swept(clock, gone) EXCEPT ![id].deleteAfter = TRUE])
        \/ /\ items[id].openCount = 0
           /\ \E done \in SUBSET {id} :
                RemoveItems(Reclaimable(clock) \union {id}, gone \union done,
                            Swept(clock, gone \union done))
  BY DEF Delete
<1>2. TypeOK /\ clock \in Nat /\ clock <= clock /\ Available(id) /\ id \in DOMAIN items
  BY ItemsTyped DEF Base, IInv, Delete, Available
<1>3. \A i \in gone : i \in DOMAIN items /\ items[i].openCount = 0 /\ ~Available(i)
  BY <1>2, ReclaimableUnseen
<1>4. UNCHANGED <<handle, handleId, openFiles>>
  BY DEF Delete, handleVars
<1>5. CASE RemoveItems(Reclaimable(clock), gone,
                       [Swept(clock, gone) EXCEPT ![id].deleteAfter = TRUE])
  <2> DEFINE left == [Swept(clock, gone) EXCEPT ![id].deleteAfter = TRUE]
  <2>1. /\ DOMAIN Swept(clock, gone) = DOMAIN items \ gone
        /\ Swept(clock, gone) \in [DOMAIN items \ gone -> Item]
    BY <1>2, SweptItems
  <2>2. items' = left /\ DOMAIN items' = DOMAIN items \ gone
    BY <1>5, <2>1 DEF RemoveItems
  <2>3. /\ \A i \in DOMAIN items' \ {id} : items'[i] = Swept(clock, gone)[i]
        /\ id \in DOMAIN items'
        /\ items'[id] = [Swept(clock, gone)[id] EXCEPT !.deleteAfter = TRUE]
    BY <1>2, <1>3, <2>1, <2>2
  <2>4. Cleaned({id})
    <3>1. ASSUME NEW i \in BlobIds \ {id}, i \in DOMAIN items' PROVE i \in DOMAIN items /\ Aged(i)
      BY <1>2, <2>2, <2>3, <3>1, SweptAged DEF Aged, Same, AgedIn
    <3>2. ASSUME NEW i \in BlobIds \ {id}, i \in DOMAIN items \ DOMAIN items'
          PROVE  items[i].openCount = 0 /\ ~Available(i)
      BY <1>3, <2>2, <3>2
    <3> QED
      BY <3>1, <3>2 DEF Cleaned
  <2>5. Same(id)
    <3>1. Swept(clock, gone)[id] \in Item
      BY <2>1, <2>2, <2>3
    <3> QED
      BY <1>2, <2>2, <2>3, <3>1, SweptAged DEF Same, Item, AgedIn
  <2>6. ASSUME blobFiles = SizeOf PROVE blobFiles' = SizeOf'
    <3>1. KeepsSizes(items') /\ DOMAIN items' = DOMAIN items \ gone
      <4>1. ASSUME NEW i \in DOMAIN items' \ {id} PROVE items'[i].size = items[i].size
        <5>1. i \in DOMAIN items \ gone /\ items'[i] = Swept(clock, gone)[i]
          BY <2>2, <2>3
        <5> QED
          BY <1>2, <5>1, SweptAged DEF AgedIn
      <4> QED
        BY <2>2, <2>5, <4>1 DEF KeepsSizes, Same
    <3> QED
      BY <1>5, <2>2, <2>6, <3>1, RemovalKeepsFiles
  <2> QED
    BY <1>2, <1>4, <2>3, <2>4, <2>5, <2>6 DEF DeleteTakes
<1>6. ASSUME items[id].openCount = 0, NEW done \in SUBSET {id},
             RemoveItems(Reclaimable(clock) \union {id}, gone \union done,
                         Swept(clock, gone \union done))
      PROVE  DeleteTakes(id)
  <2> DEFINE took == gone \union done
             left == Swept(clock, took)
  <2>1. items' = left /\ DOMAIN items' = DOMAIN items \ took
    BY <1>6 DEF RemoveItems, Swept
  <2>2. ASSUME NEW i \in BlobIds, i \in DOMAIN items' PROVE i \in DOMAIN items /\ Aged(i)
    <3>1. i \in DOMAIN items \ took /\ items'[i] = Swept(clock, took)[i]
      BY <2>1, <2>2
    <3>2. AgedIn(Swept(clock, took), i)
      BY <1>2, <3>1, SweptAged
    <3> QED
      BY <3>1, <3>2 DEF Aged, Same, AgedIn
  <2>3. ASSUME NEW i \in BlobIds \ {id}, i \in DOMAIN items \ DOMAIN items'
        PROVE  items[i].openCount = 0 /\ ~Available(i)
    BY <1>3, <2>1, <2>3
  <2>4. Cleaned({id})
    BY <2>2, <2>3 DEF Cleaned
  <2>5. ASSUME blobFiles = SizeOf PROVE blobFiles' = SizeOf'
    <3>1. DOMAIN left = DOMAIN items \ took
      BY DEF Swept
    <3>2. KeepsSizes(left)
      BY <1>2, SweptItems
    <3> QED
      BY <1>6, <2>5, <3>1, <3>2, RemovalKeepsFiles
  <2> QED
    BY <1>2, <1>4, <1>6, <2>2, <2>4, <2>5 DEF DeleteTakes, Aged
<1> QED
  BY <1>1, <1>5, <1>6

\* releaseOpen takes a blob that was deleted with its last reader, if its file
\* can be removed, and else counts one reader less.
ReleaseTakes(h) ==
  LET id == handleId[h] IN
    /\ Cleaned({id})
    /\ blobFiles = SizeOf => blobFiles' = SizeOf'
    /\ \/ DOMAIN items' = DOMAIN items
       \/ DOMAIN items' = DOMAIN items \ {id} /\ LastOfDeleted(id)
    /\ id \in DOMAIN items' =>
         /\ items'[id].openCount = Clamp(items[id].openCount - 1)
         /\ items'[id].size = items[id].size /\ items'[id].expiresAt = items[id].expiresAt
         /\ items'[id].deleteAfter = items[id].deleteAfter

LEMMA ReleaseItems ==
  ASSUME Base, NEW h \in Handles, ReleaseOpen(h), handleId[h] \in DOMAIN items
  PROVE  ReleaseTakes(h)
<1> DEFINE id == handleId[h]
           counted == [i \in DOMAIN items |->
                         IF i = id THEN [items[i] EXCEPT !.openCount = Clamp(@ - 1)]
                                   ELSE items[i]]
<1>1. \/ LastOfDeleted(id) /\ RemoveItems({id}, {id}, Without(items, {id}))
      \/ items' = counted /\ UNCHANGED blobFiles
  BY DEF ReleaseOpen
<1>2. /\ \A i \in DOMAIN items : items[i] \in Item
      /\ \A i \in DOMAIN items : Available(i) => ~items[i].deleteAfter
  BY ItemsTyped DEF Base, IInv, Available
<1>3. CASE LastOfDeleted(id) /\ RemoveItems({id}, {id}, Without(items, {id}))
  <2>1. items' = [i \in DOMAIN items \ {id} |-> items[i]]
    BY <1>3 DEF RemoveItems, Without
  <2>2. Cleaned({id})
    BY <1>2, <2>1 DEF Cleaned, Aged, Same
  <2>3. ASSUME blobFiles = SizeOf PROVE blobFiles' = SizeOf'
    <3>1. /\ DOMAIN Without(items, {id}) = DOMAIN items \ {id}
          /\ KeepsSizes(Without(items, {id}))
      BY DEF Without, KeepsSizes
    <3> QED
      BY <1>3, <2>3, <3>1, RemovalKeepsFiles
  <2> QED
    BY <1>3, <2>1, <2>2, <2>3 DEF ReleaseTakes
<1>4. CASE items' = counted /\ UNCHANGED blobFiles
  <2>1. Cleaned({id})
    BY <1>2, <1>4 DEF Cleaned, Aged, Same
  <2>2. \A i \in DOMAIN items : items'[i].size = items[i].size
    BY <1>2, <1>4 DEF Item
  <2>3. SizeOf' = SizeOf
    BY <1>4, <2>2 DEF SizeOf
  <2> QED
    BY <1>2, <1>4, <2>1, <2>3 DEF ReleaseTakes, Item
<1> QED
  BY <1>1, <1>3, <1>4

-----------------------------------------------------------------------------
(* The handles                                                              *)

LEMMA ReadersFinite ==
  \A i : /\ IsFiniteSet(ReadersOf(i)) /\ Cardinality(ReadersOf(i)) \in Nat
         /\ Cardinality(ReadersOf(i)) = 0 <=> ReadersOf(i) = {}
<1> TAKE i
<1>1. IsFiniteSet(ReadersOf(i))
  BY BoundAssumption, FS_Subset, ReadersOf(i) \in SUBSET Handles DEF ReadersOf
<1> QED
  BY <1>1, FS_CardinalityType, FS_EmptySet

\* A blob that a handle has open counts it.
LEMMA ReaderCounted ==
  ASSUME HandlesKept, NEW h \in Handles, handle[h] # "free"
  PROVE  handleId[h] \in DOMAIN items /\ items[handleId[h]].openCount > 0
<1>1. h \in ReadersOf(handleId[h])
  BY DEF ReadersOf
<1>2. Cardinality(ReadersOf(handleId[h])) > 0
  BY <1>1, ReadersFinite
<1> QED
  BY <1>2 DEF HandlesKept

\* Nothing changes for the handles when nobody comes or goes.
LEMMA HandlesStay ==
  ASSUME HandlesKept, DOMAIN items' \subseteq BlobIds, UNCHANGED <<handleId, openFiles>>,
         \A h \in Handles : handle'[h] = "free" <=> handle[h] = "free",
         \A i \in DOMAIN items : items[i].openCount > 0 => i \in DOMAIN items',
         \A i \in DOMAIN items' :
            items'[i].openCount = IF i \in DOMAIN items THEN items[i].openCount ELSE 0
  PROVE  HandlesKept'
<1>1. ASSUME NEW i \in DOMAIN items' PROVE items'[i].openCount = Cardinality(ReadersOf(i)')
  <2>1. ReadersOf(i)' = ReadersOf(i)
    BY DEF ReadersOf
  <2>2. CASE i \in DOMAIN items
    BY <2>1, <2>2 DEF HandlesKept
  <2>3. CASE i \notin DOMAIN items
    <3>1. i # NoBlob
      BY BoundAssumption
    <3>2. ReadersOf(i) = {}
      BY <2>3, <3>1 DEF ReadersOf, HandlesKept
    <3> QED
      BY <2>1, <2>3, <3>2, ReadersFinite
  <2> QED
    BY <2>2, <2>3
<1>2. ASSUME NEW h \in Handles
      PROVE  /\ handle'[h] = "free" <=> handleId'[h] = NoBlob
             /\ handle'[h] # "free" => handleId'[h] \in DOMAIN items'
  BY ReaderCounted DEF HandlesKept
<1>3. openFiles' = {h \in Handles : handle'[h] # "free"}
  BY DEF HandlesKept
<1> QED
  BY <1>1, <1>2, <1>3 DEF HandlesKept

\* What a critical section that is Cleaned({}) says of the counts.
LEMMA CleanedCounts ==
  ASSUME DOMAIN items \subseteq BlobIds, DOMAIN items' \subseteq BlobIds, NEW S, Cleaned(S)
  PROVE  /\ \A i \in DOMAIN items \ S : items[i].openCount > 0 => i \in DOMAIN items'
         /\ \A i \in DOMAIN items' \ S :
              i \in DOMAIN items /\ items'[i].openCount = items[i].openCount
<1>1. ASSUME NEW i \in DOMAIN items \ S, items[i].openCount > 0 PROVE i \in DOMAIN items'
  <2>1. CASE i \notin DOMAIN items'
    BY <1>1, <2>1 DEF Cleaned
  <2> QED
    BY <2>1
<1>2. ASSUME NEW i \in DOMAIN items' \ S
      PROVE  i \in DOMAIN items /\ items'[i].openCount = items[i].openCount
  BY <1>2 DEF Cleaned, Aged, Same
<1> QED
  BY <1>1, <1>2

LEMMA UndisturbedHandles ==
  ASSUME Base, Base', HandlesKept, Undisturbed
  PROVE  HandlesKept'
<1>1. DOMAIN items \subseteq BlobIds /\ DOMAIN items' \subseteq BlobIds
  BY DEF Base, IInv, TypeOK, IsPartialFunction
<1>2. /\ \A i \in DOMAIN items : items[i].openCount > 0 => i \in DOMAIN items'
      /\ \A i \in DOMAIN items' : i \in DOMAIN items /\ items'[i].openCount = items[i].openCount
  BY <1>1, CleanedCounts DEF Undisturbed
<1> QED
  BY <1>1, <1>2, HandlesStay DEF Undisturbed

LEMMA CommitHandles ==
  ASSUME Base, Base', HandlesKept, NEW p \in Puts, CommitAdds(p)
  PROVE  HandlesKept'
<1>1. DOMAIN items \subseteq BlobIds /\ DOMAIN items' \subseteq BlobIds
  BY DEF Base, IInv, TypeOK, IsPartialFunction
<1>2. /\ \A i \in DOMAIN items \ {stampId[p]} : items[i].openCount > 0 => i \in DOMAIN items'
      /\ \A i \in DOMAIN items' \ {stampId[p]} :
           i \in DOMAIN items /\ items'[i].openCount = items[i].openCount
  BY <1>1, CleanedCounts DEF CommitAdds
<1>3. /\ \A i \in DOMAIN items : items[i].openCount > 0 => i \in DOMAIN items'
      /\ \A i \in DOMAIN items' :
            items'[i].openCount = IF i \in DOMAIN items THEN items[i].openCount ELSE 0
  BY <1>2 DEF CommitAdds
<1> QED
  BY <1>1, <1>3, HandlesStay DEF CommitAdds

LEMMA DeleteHandles ==
  ASSUME Base, Base', HandlesKept, NEW id \in BlobIds, DeleteTakes(id)
  PROVE  HandlesKept'
<1>1. DOMAIN items \subseteq BlobIds /\ DOMAIN items' \subseteq BlobIds
  BY DEF Base, IInv, TypeOK, IsPartialFunction
<1>2. /\ \A i \in DOMAIN items \ {id} : items[i].openCount > 0 => i \in DOMAIN items'
      /\ \A i \in DOMAIN items' \ {id} :
           i \in DOMAIN items /\ items'[i].openCount = items[i].openCount
  BY <1>1, CleanedCounts DEF DeleteTakes
<1>3. items[id].openCount > 0 => id \in DOMAIN items'
  BY DEF DeleteTakes
<1>4. id \in DOMAIN items' => id \in DOMAIN items /\ items'[id].openCount = items[id].openCount
  BY DEF DeleteTakes, Same
<1>5. /\ \A i \in DOMAIN items : items[i].openCount > 0 => i \in DOMAIN items'
      /\ \A i \in DOMAIN items' :
            items'[i].openCount = IF i \in DOMAIN items THEN items[i].openCount ELSE 0
  BY <1>2, <1>3, <1>4
<1> QED
  BY <1>1, <1>5, HandlesStay DEF DeleteTakes

LEMMA OpenHandles ==
  ASSUME Base, Base', HandlesKept, NEW id \in BlobIds, NEW h \in Handles,
         Open(id, h), OpenAdds(id, h)
  PROVE  HandlesKept'
<1>1. DOMAIN items \subseteq BlobIds /\ DOMAIN items' \subseteq BlobIds /\ id # NoBlob
  BY BoundAssumption DEF Base, IInv, TypeOK, IsPartialFunction
<1>2. /\ \A i \in DOMAIN items \ {id} : items[i].openCount > 0 => i \in DOMAIN items'
      /\ \A i \in DOMAIN items' \ {id} :
           i \in DOMAIN items /\ items'[i].openCount = items[i].openCount
  BY <1>1, CleanedCounts DEF OpenAdds
<1>3. /\ handle[h] = "free" /\ handleId[h] = NoBlob
      /\ handle' = [handle EXCEPT ![h] = "open"]
      /\ handleId' = [handleId EXCEPT ![h] = id]
      /\ openFiles' = openFiles \union {h}
      /\ handle \in [Handles -> HandleStates]
      /\ handleId \in [Handles -> BlobIds \union {NoBlob}]
  BY DEF Open, HandlesKept, Base, IInv, TypeOK
<1>4. ASSUME NEW k \in Handles
      PROVE  /\ handle'[k] = "free" <=> handleId'[k] = NoBlob
             /\ handle'[k] # "free" => handleId'[k] \in DOMAIN items'
  <2>1. CASE k = h
    BY <1>1, <1>3, <2>1 DEF OpenAdds
  <2>2. CASE k # h
    <3>1. handle'[k] = handle[k] /\ handleId'[k] = handleId[k]
      BY <1>3, <2>2
    <3>2. handle[k] # "free" => handleId[k] \in DOMAIN items'
      BY <1>2, ReaderCounted DEF OpenAdds
    <3> QED
      BY <3>1, <3>2 DEF HandlesKept
  <2> QED
    BY <2>1, <2>2
<1>5. openFiles' = {k \in Handles : handle'[k] # "free"}
  BY <1>3 DEF HandlesKept
<1>6. ASSUME NEW i \in DOMAIN items' PROVE items'[i].openCount = Cardinality(ReadersOf(i)')
  <2>1. CASE i = id
    <3>1. ReadersOf(i)' = ReadersOf(i) \union {h} /\ h \notin ReadersOf(i)
      BY <1>1, <1>3, <2>1 DEF ReadersOf
    <3>2. Cardinality(ReadersOf(i) \union {h}) = Cardinality(ReadersOf(i)) + 1
      BY <3>1, ReadersFinite, FS_AddElement
    <3> QED
      BY <2>1, <3>1, <3>2 DEF OpenAdds, HandlesKept
  <2>2. CASE i # id
    <3>1. i \in BlobIds /\ i # NoBlob
      BY <1>1, BoundAssumption
    <3>2. ReadersOf(i)' = ReadersOf(i)
      BY <1>3, <2>2, <3>1 DEF ReadersOf
    <3> QED
      BY <1>2, <2>2, <3>2 DEF HandlesKept
  <2> QED
    BY <2>1, <2>2
<1> QED
  BY <1>4, <1>5, <1>6 DEF HandlesKept

LEMMA ReleaseHandles ==
  ASSUME Base, Base', HandlesKept, NEW h \in Handles, ReleaseOpen(h), ReleaseTakes(h)
  PROVE  HandlesKept'
<1>1. DOMAIN items \subseteq BlobIds /\ DOMAIN items' \subseteq BlobIds
  BY DEF Base, IInv, TypeOK, IsPartialFunction
<1>2. /\ handle[h] # "free"
      /\ handle' = [handle EXCEPT ![h] = "free"]
      /\ handleId' = [handleId EXCEPT ![h] = NoBlob]
      /\ openFiles' = openFiles \ {h}
      /\ handle \in [Handles -> HandleStates]
      /\ handleId \in [Handles -> BlobIds \union {NoBlob}]
  BY DEF ReleaseOpen, Base, IInv, TypeOK
<1>3. PICK id \in DOMAIN items : id = handleId[h]
  BY <1>2 DEF HandlesKept
<1>4. /\ \A i \in DOMAIN items \ {id} : items[i].openCount > 0 => i \in DOMAIN items'
      /\ \A i \in DOMAIN items' \ {id} :
           i \in DOMAIN items /\ items'[i].openCount = items[i].openCount
  BY <1>1, <1>3, CleanedCounts DEF ReleaseTakes
<1>5. /\ Cardinality(ReadersOf(id) \ {h}) = items[id].openCount - 1
      /\ Cardinality(ReadersOf(id) \ {h}) \in Nat
      /\ IsFiniteSet(ReadersOf(id) \ {h})
  <2>1. h \in ReadersOf(id)
    BY <1>3 DEF ReadersOf
  <2> QED
    BY <2>1, ReadersFinite, FS_RemoveElement, FS_CardinalityType DEF HandlesKept
<1>6. ASSUME NEW i \in DOMAIN items' PROVE items'[i].openCount = Cardinality(ReadersOf(i)')
  <2>1. i # NoBlob
    BY <1>1, BoundAssumption
  <2>2. CASE i = id
    <3>1. ReadersOf(id)' = ReadersOf(id) \ {h}
      BY <1>2, <2>1, <2>2 DEF ReadersOf
    <3>2. items'[id].openCount = Clamp(items[id].openCount - 1)
      BY <1>3, <2>2 DEF ReleaseTakes
    <3>3. items[id].openCount \in Nat
      BY ItemsTyped DEF Base, IInv
    <3> QED
      BY <1>5, <2>2, <3>1, <3>2, <3>3 DEF Clamp
  <2>3. CASE i # id
    <3>1. ReadersOf(i)' = ReadersOf(i)
      BY <1>2, <1>3, <2>1, <2>3 DEF ReadersOf
    <3> QED
      BY <1>4, <2>3, <3>1 DEF HandlesKept
  <2> QED
    BY <2>2, <2>3
<1>7. ASSUME NEW k \in Handles
      PROVE  /\ handle'[k] = "free" <=> handleId'[k] = NoBlob
             /\ handle'[k] # "free" => handleId'[k] \in DOMAIN items'
  <2>1. CASE k = h
    BY <1>2, <2>1
  <2>2. CASE k # h
    <3>1. handle'[k] = handle[k] /\ handleId'[k] = handleId[k]
      BY <1>2, <2>2
    <3>2. ASSUME handle[k] # "free", handleId[k] = id PROVE id \in DOMAIN items'
      <4>1. k \in ReadersOf(id) \ {h}
        BY <2>2, <3>2 DEF ReadersOf
      <4>2. Cardinality(ReadersOf(id) \ {h}) # 0
        BY <1>5, <4>1, FS_EmptySet
      <4>3. items[id].openCount \in Nat
        BY ItemsTyped DEF Base, IInv
      <4>4. ~LastOfDeleted(id)
        BY <1>5, <4>2, <4>3 DEF LastOfDeleted
      <4> QED
        BY <1>3, <4>4 DEF ReleaseTakes
    <3>3. handle[k] # "free" => handleId[k] \in DOMAIN items'
      BY <1>4, <3>2, ReaderCounted
    <3> QED
      BY <3>1, <3>3 DEF HandlesKept
  <2> QED
    BY <2>1, <2>2
<1>8. openFiles' = {k \in Handles : handle'[k] # "free"}
  BY <1>2 DEF HandlesKept
<1> QED
  BY <1>6, <1>7, <1>8 DEF HandlesKept

-----------------------------------------------------------------------------
(* Time, Close and the files                                                *)

LEMMA InThePastStep ==
  ASSUME Base, InThePast, [Next]_vars
  PROVE  InThePast'
<1>1. clock \in Nat /\ stampNow \in [Puts -> 0..MaxClock] /\ janitorNow \in Nat
  BY BoundAssumption DEF Base, IInv, TypeOK
<1>2. CASE \E p \in Puts : \/ \E id \in BlobIds : Stamp(p, id)
                           \/ Commit(p) \/ RefuseCommit(p)
  BY <1>1, <1>2 DEF InThePast, Stamp, Commit, RefuseCommit, PutFrame, janitorVars
<1>3. CASE JanitorTick \/ JanitorSweep
  BY <1>1, <1>3 DEF InThePast, JanitorTick, JanitorSweep, JanitorFrame, putVars, stampVars
<1>4. CASE Tick
  BY <1>1, <1>4 DEF InThePast, Tick, putVars, stampVars, janitorVars
<1>5. ASSUME UNCHANGED <<stampNow, janitorNow, clock>> PROVE InThePast'
  BY <1>5 DEF InThePast
<1>6. ASSUME NEW p \in Puts,
             \/ BeginPut(p) \/ RefusePut(p) \/ CreateTemp(p) \/ FailCopy(p)
             \/ \E n \in 1..MaxBlobBytes : ReserveChunk(p, n)
             \/ \E k \in 0..MaxBlobBytes : WriteChunk(p, k)
             \/ RemoveTemp(p) \/ AbortPut(p) \/ FinishPut(p)
      PROVE  InThePast'
  BY <1>5, <1>6 DEF BeginPut, RefusePut, CreateTemp, FailCopy, ReserveChunk, WriteChunk,
     RemoveTemp, AbortPut, FinishPut, PutFrame, putVars, stampVars, janitorVars
<1>7. CASE \/ \E id \in BlobIds, h \in Handles : Open(id, h)
           \/ Lookup
           \/ \E id \in BlobIds : Delete(id)
           \/ \E h \in Handles : ReleaseOpen(h)
           \/ JanitorStop
  BY <1>5, <1>7 DEF Open, Lookup, Delete, ReleaseOpen, HandleFrame, JanitorStop, JanitorFrame,
     putVars, stampVars, janitorVars
<1>8. CASE \/ \E h \in Handles : CloseHandle(h) \/ CloseNextFile(h)
           \/ CloseBegin \/ CloseJanitorDone \/ CloseFileDone \/ CloseFilesDone
           \/ CloseForget \/ CloseRemove \/ Terminated \/ UNCHANGED vars
  BY <1>5, <1>8 DEF CloseHandle, CloseNextFile, CloseBegin, CloseJanitorDone, CloseFileDone,
     CloseFilesDone, CloseForget, CloseRemove, CloseFrame, Terminated, vars, putVars, stampVars,
     janitorVars
<1> QED
  BY <1>2, <1>3, <1>4, <1>6, <1>7, <1>8 DEF Next, PutStep, CloseStep

\* No handle is opened once Close has begun: those it found are all it waits for.
LEMMA ClosingStep ==
  ASSUME Base, HandlesKept, Closing, [Next]_vars
  PROVE  Closing'
<1>1. ASSUME UNCHANGED <<closed, closePc, janitor, closeFiles, closeFile, handle>>
      PROVE  Closing'
  BY <1>1 DEF Closing
<1>2. ASSUME NEW p \in Puts, BeginPut(p) \/ RefusePut(p) \/ PutStep(p)
      PROVE  Closing'
  BY <1>1, <1>2 DEF PutStep, BeginPut, RefusePut, CreateTemp, FailCopy, ReserveChunk, WriteChunk,
     Stamp, Commit, RefuseCommit, RemoveTemp, AbortPut, FinishPut, PutFrame, handleVars,
     janitorVars, closeVars
<1>3. CASE Lookup \/ \E id \in BlobIds : Delete(id)
  BY <1>1, <1>3 DEF Lookup, Delete, HandleFrame, handleVars, janitorVars, closeVars
<1>4. ASSUME NEW id \in BlobIds, NEW h \in Handles, Open(id, h) PROVE Closing'
  BY <1>4 DEF Closing, Open, HandleFrame, janitorVars, closeVars
<1>5. ASSUME NEW h \in Handles, CloseHandle(h) \/ ReleaseOpen(h) PROVE Closing'
  BY <1>5 DEF Closing, CloseHandle, ReleaseOpen, HandleFrame, janitorVars, closeVars, Base, IInv,
     TypeOK
<1>6. CASE JanitorTick \/ JanitorSweep \/ JanitorStop
  BY <1>6 DEF Closing, JanitorTick, JanitorSweep, JanitorStop, JanitorFrame, handleVars, closeVars
<1>7. CASE CloseBegin
  BY <1>7 DEF Closing, HandlesKept, CloseBegin, CloseFrame, janitorVars
<1>8. CASE CloseJanitorDone \/ CloseFileDone \/ CloseFilesDone
  BY <1>8, BoundAssumption DEF Closing, CloseJanitorDone, CloseFileDone, CloseFilesDone,
     CloseFrame, janitorVars
<1>9. ASSUME NEW h \in Handles, CloseNextFile(h) PROVE Closing'
  BY <1>9, BoundAssumption DEF Closing, CloseNextFile, CloseFrame, janitorVars, Base, IInv, TypeOK
<1>10. CASE CloseForget \/ CloseRemove
  BY <1>10 DEF Closing, CloseForget, CloseRemove, CloseFrame, janitorVars, handleVars
<1>11. CASE Tick \/ Terminated \/ UNCHANGED vars
  BY <1>1, <1>11 DEF Tick, Terminated, vars, handleVars, janitorVars, closeVars
<1> QED
  BY <1>2, <1>3, <1>4, <1>5, <1>6, <1>7, <1>8, <1>9, <1>10, <1>11 DEF Next, CloseStep

\* The temporary file of a call that no longer writes is one that could not be
\* removed.
TempsKept == \A p \in DOMAIN tempFiles : pc[p] \in Writing \/ faults > 0

LEMMA TempsSame ==
  ASSUME TempsKept, UNCHANGED <<tempFiles, pc>>, faults \in Nat, faults' \in Nat, faults <= faults'
  PROVE  TempsKept'
BY DEF TempsKept

\* The removals that failed are only ever more.
LEMMA FaultsGrow ==
  ASSUME Base, Base', [Next]_vars
  PROVE  faults \in Nat /\ faults' \in Nat /\ faults <= faults'
<1>1. faults \in Nat /\ faults' \in Nat /\ MaxFaults \in Nat
  BY BoundAssumption DEF Base, IInv, TypeOK
<1>2. ASSUME NEW wanted \in SUBSET BlobIds, NEW gone, Removed(wanted, gone)
      PROVE  faults <= faults'
  <2>1. Cardinality(wanted \ gone) \in Nat
    BY BoundAssumption, FS_Subset, FS_CardinalityType, wanted \ gone \in SUBSET BlobIds
  <2> QED
    BY <1>1, <1>2, <2>1 DEF Removed
<1>3. \A now : Reclaimable(now) \in SUBSET BlobIds
  BY DEF Reclaimable, Due, Base, IInv, TypeOK, IsPartialFunction
<1>4. ASSUME NEW now, Sweep(now) PROVE faults <= faults'
  BY <1>2, <1>3, <1>4 DEF Sweep, RemoveItems
<1>5. ASSUME NEW p \in Puts, BeginPut(p) \/ RefusePut(p) \/ PutStep(p) PROVE faults <= faults'
  <2>1. CASE RemoveTemp(p)
    <3>1. PICK done \in SUBSET {p} : Removed({p}, done)
      BY <2>1 DEF RemoveTemp
    <3>2. Cardinality({p} \ done) \in Nat
      BY FS_Singleton, FS_Subset, FS_CardinalityType, {p} \ done \in SUBSET {p}
    <3> QED
      BY <1>1, <3>1, <3>2 DEF Removed
  <2>2. CASE Commit(p)
    BY <1>2, <1>3, <2>2 DEF Commit
  <2>3. CASE BeginPut(p) \/ RefusePut(p) \/ RefuseCommit(p)
    BY <1>1, <1>4, <2>3 DEF BeginPut, RefusePut, RefuseCommit, storedVars
  <2>4. CASE ~(RemoveTemp(p) \/ Commit(p) \/ BeginPut(p) \/ RefusePut(p) \/ RefuseCommit(p))
    BY <1>1, <1>5, <2>4 DEF PutStep, CreateTemp, FailCopy, ReserveChunk, WriteChunk, Stamp,
       AbortPut, FinishPut
  <2> QED
    BY <2>1, <2>2, <2>3, <2>4
<1>6. CASE \E id \in BlobIds, h \in Handles : Open(id, h)
  BY <1>1, <1>2, <1>3, <1>6 DEF Open, RemoveItems
<1>7. CASE Lookup
  BY <1>1, <1>4, <1>7 DEF Lookup
<1>8. ASSUME NEW id \in BlobIds, Delete(id) PROVE faults <= faults'
  <2>1. Reclaimable(clock) \union {id} \in SUBSET BlobIds
    BY <1>3
  <2> QED
    BY <1>2, <1>3, <1>8, <2>1 DEF Delete, RemoveItems
<1>9. ASSUME NEW h \in Handles, ReleaseOpen(h) PROVE faults <= faults'
  <2>1. LastOfDeleted(handleId[h]) => {handleId[h]} \in SUBSET BlobIds
    BY DEF LastOfDeleted, Base, IInv, TypeOK, IsPartialFunction
  <2> QED
    BY <1>1, <1>2, <1>9, <2>1 DEF ReleaseOpen, RemoveItems
<1>10. CASE JanitorTick \/ JanitorSweep \/ JanitorStop
  BY <1>1, <1>4, <1>10 DEF JanitorTick, JanitorSweep, JanitorStop, storedVars
<1>11. CASE CloseRemove
  <2>1. DOMAIN blobFiles \in SUBSET BlobIds /\ closeIds \in SUBSET BlobIds
    BY DEF Base, IInv, TypeOK, IsPartialFunction
  <2> QED
    BY <1>1, <1>2, <1>11, <2>1 DEF CloseRemove
<1>12. CASE Elsewhere \/ CloseForget \/ UNCHANGED vars
  BY <1>1, <1>12 DEF Elsewhere, CloseForget, CloseHandle, CloseNextFile, CloseBegin,
     CloseJanitorDone, CloseFileDone, CloseFilesDone, CloseFrame, Tick, Terminated, vars
<1> QED
  BY <1>1, <1>5, <1>6, <1>7, <1>8, <1>9, <1>10, <1>11, <1>12 DEF Next, CloseStep, Elsewhere

LEMMA TempsStep ==
  ASSUME Base, Base', TempsKept, [Next]_vars
  PROVE  TempsKept'
<1>1. faults \in Nat /\ faults' \in Nat /\ faults <= faults'
  BY FaultsGrow
<1>2. ASSUME NEW p \in Puts, PutStep(p) \/ BeginPut(p) PROVE TempsKept'
  <2>1. \A q \in Puts \ {p} : pc'[q] = pc[q]
    BY <1>2 DEF Base, IInv, TypeOK, PutStep, BeginPut, CreateTemp, FailCopy, ReserveChunk, WriteChunk, Stamp,
       Commit, RefuseCommit, RemoveTemp, AbortPut, FinishPut
  <2>2. DOMAIN tempFiles' \subseteq DOMAIN tempFiles \union {p} /\ DOMAIN tempFiles \subseteq Puts
    BY <1>2 DEF Base, IInv, TypeOK, IsPartialFunction, PutStep, BeginPut, CreateTemp, FailCopy,
       ReserveChunk, WriteChunk, Stamp, Commit, RefuseCommit, RemoveTemp, AbortPut, FinishPut,
       Without
  <2>3. p \in DOMAIN tempFiles' => pc'[p] \in Writing \/ faults' > 0
    <3>1. CASE RemoveTemp(p)
      <4>1. PICK done \in SUBSET {p} : Removed({p}, done) /\ tempFiles' = Without(tempFiles, done)
        BY <3>1 DEF RemoveTemp
      <4>2. CASE done = {p}
        BY <4>1, <4>2 DEF Without
      <4>3. CASE done = {}
        <5>1. Cardinality({p} \ done) = 1
          BY <4>3, FS_Singleton, {p} \ {} = {p}
        <5> QED
          BY <1>1, <4>1, <5>1 DEF Removed
      <4> QED
        BY <4>1, <4>2, <4>3
    <3>2. CASE Commit(p)
      BY <3>2 DEF Commit, Without
    <3>3. CASE AbortPut(p) \/ FinishPut(p) \/ BeginPut(p) \/ CreateTemp(p)
      BY <1>1, <3>3 DEF Base, IInv, TypeOK, AbortPut, FinishPut, BeginPut, CreateTemp, TempsKept,
         Writing
    <3>4. CASE \/ \E n \in 1..MaxBlobBytes : ReserveChunk(p, n)
               \/ \E k \in 0..MaxBlobBytes : WriteChunk(p, k)
               \/ FailCopy(p) \/ RefuseCommit(p)
               \/ \E id \in BlobIds : Stamp(p, id)
      BY <3>4 DEF Base, IInv, TypeOK, FailCopy, ReserveChunk, WriteChunk, Stamp, RefuseCommit,
         Writing
    <3> QED
      BY <1>2, <3>1, <3>2, <3>3, <3>4 DEF PutStep
  <2> QED
    BY <1>1, <2>1, <2>2, <2>3 DEF TempsKept
<1>3. ASSUME NEW p \in Puts, RefusePut(p) PROVE TempsKept'
  BY <1>1, <1>3, TempsSame DEF RefusePut, putVars
<1>4. CASE Elsewhere \/ CloseForget \/ UNCHANGED vars
  BY <1>1, <1>4, TempsSame DEF Elsewhere, CloseForget, CloseHandle, CloseNextFile, CloseBegin,
     CloseJanitorDone, CloseFileDone, CloseFilesDone, CloseFrame, Tick, Terminated, vars, putVars
<1>5. CASE JanitorTick \/ JanitorSweep \/ JanitorStop
  BY <1>1, <1>5, TempsSame DEF JanitorTick, JanitorSweep, JanitorStop, JanitorFrame, putVars
<1>6. CASE \/ \E id \in BlobIds, h \in Handles : Open(id, h)
           \/ Lookup
           \/ \E id \in BlobIds : Delete(id)
           \/ \E h \in Handles : ReleaseOpen(h)
  BY <1>1, <1>6, TempsSame DEF Open, Lookup, Delete, ReleaseOpen, HandleFrame, putVars
<1>7. CASE CloseRemove
  <2>1. UNCHANGED pc /\ DOMAIN tempFiles' \subseteq DOMAIN tempFiles
    BY <1>7 DEF CloseRemove, putVars
  <2> QED
    BY <1>1, <2>1 DEF TempsKept
<1> QED
  BY <1>2, <1>3, <1>4, <1>5, <1>6, <1>7 DEF Next, CloseStep, Elsewhere

\* After Close has forgotten the items only its own last step does anything.
LEMMA ForgottenStill ==
  ASSUME Base, Closing, Forgotten, [Next]_vars
  PROVE  \/ CloseRemove
         \/ UNCHANGED <<items, totalBytes, blobFiles, tempFiles, pc, closePc, closeErr, closeIds,
                        handle, handleId, closed, faults>>
<1>1. /\ closed /\ janitor = "stopped"
      /\ \A p \in Puts : pc[p] = "idle"
      /\ \A h \in Handles : handle[h] = "free"
  BY DEF Base, Shut, Closing, Forgotten
<1>2. ~ \E p \in Puts : BeginPut(p) \/ RefusePut(p) \/ PutStep(p)
  BY <1>1 DEF BeginPut, RefusePut, PutStep, CreateTemp, ReserveChunk, WriteChunk, FailCopy, Stamp,
     Commit, RefuseCommit, RemoveTemp, AbortPut, FinishPut
<1>3. /\ ~ \E id \in BlobIds, h \in Handles : Open(id, h)
      /\ ~ Lookup
      /\ ~ \E id \in BlobIds : Delete(id)
      /\ ~ \E h \in Handles : CloseHandle(h) \/ ReleaseOpen(h)
      /\ ~ (JanitorTick \/ JanitorSweep \/ JanitorStop)
  BY <1>1 DEF Open, Lookup, Delete, CloseHandle, ReleaseOpen, JanitorTick, JanitorSweep, JanitorStop
<1>4. /\ ~ CloseBegin /\ ~ CloseJanitorDone /\ ~ CloseFileDone /\ ~ CloseFilesDone /\ ~ CloseForget
      /\ ~ \E h \in Handles : CloseNextFile(h)
  BY DEF Forgotten, CloseBegin, CloseJanitorDone, CloseNextFile, CloseFileDone, CloseFilesDone,
     CloseForget
<1>5. CASE Tick \/ Terminated \/ UNCHANGED vars
  BY <1>5 DEF Tick, Terminated, vars, counterVars, putVars, closeVars, handleVars
<1> QED
  BY <1>2, <1>3, <1>4, <1>5 DEF Next, CloseStep

\* Every other step leaves Close where it has not forgotten yet.
LEMMA NotForgottenStill ==
  ASSUME ~Forgotten, [Next]_vars, ~CloseForget
  PROVE  ~Forgotten'
<1>1. CASE CloseStep \/ CloseBegin
  BY <1>1 DEF Forgotten, CloseStep, CloseBegin, CloseJanitorDone, CloseNextFile, CloseFileDone,
     CloseFilesDone, CloseRemove
<1>2. ASSUME NEW p \in Puts, BeginPut(p) \/ RefusePut(p) \/ PutStep(p) PROVE ~Forgotten'
  BY <1>2 DEF Forgotten, PutFrame, closeVars, BeginPut, RefusePut, PutStep, CreateTemp,
     ReserveChunk, WriteChunk, FailCopy, Stamp, Commit, RefuseCommit, RemoveTemp, AbortPut,
     FinishPut
<1>3. CASE \/ \E id \in BlobIds, h \in Handles : Open(id, h)
           \/ Lookup
           \/ \E id \in BlobIds : Delete(id)
           \/ \E h \in Handles : CloseHandle(h) \/ ReleaseOpen(h)
           \/ JanitorTick \/ JanitorSweep \/ JanitorStop
           \/ Tick \/ Terminated \/ UNCHANGED vars
  BY <1>3 DEF Forgotten, Open, Lookup, Delete, CloseHandle, ReleaseOpen, HandleFrame, JanitorTick,
     JanitorSweep, JanitorStop, JanitorFrame, Tick, Terminated, vars, closeVars
<1> QED
  BY <1>1, <1>2, <1>3 DEF Next

\* The bytes in the directory are those of the items.
LEMMA DirectoryBytes ==
  ASSUME Base, FilesKept
  PROVE  Bytes(blobFiles, DOMAIN blobFiles) <= MaxTotalBytes
<1>1. CASE Forgotten
  BY <1>1 DEF FilesKept
<1>2. CASE ~Forgotten
  <2>1. blobFiles = SizeOf /\ DOMAIN blobFiles = DOMAIN items
    BY <1>2 DEF FilesKept, SizeOf
  <2>2. Bytes(blobFiles, DOMAIN blobFiles) = totalBytes
    BY <2>1 DEF Base, IInv, AccountingExact
  <2>3. totalBytes + inFlightBytes <= MaxTotalBytes /\ totalBytes \in Nat /\ inFlightBytes \in Nat
    BY DEF Base, IInv, QuotaHolds, TypeOK
  <2> QED
    BY <2>2, <2>3, ConfigAssumption
<1> QED
  BY <1>1, <1>2

\* The files of some of the blobs have no more bytes than those of all.
LEMMA FewerBytes ==
  ASSUME NEW f, NEW g, IsFiniteSet(DOMAIN f), DOMAIN g \subseteq DOMAIN f,
         \A x \in DOMAIN g : g[x] = f[x]
  PROVE  Bytes(g, DOMAIN g) <= Bytes(f, DOMAIN f)
<1>1. Bytes(g, DOMAIN g) = Bytes(f, DOMAIN g)
  BY BytesCongruence
<1>2. /\ Bytes(f, DOMAIN f \ DOMAIN g) = Bytes(f, DOMAIN f) - Bytes(f, DOMAIN g)
      /\ Bytes(f, DOMAIN f \ DOMAIN g) \in Nat /\ Bytes(f, DOMAIN g) \in Nat
  BY BytesWithout
<1>3. Bytes(f, DOMAIN f) \in Nat
  BY BytesFinite
<1> QED
  BY <1>1, <1>2, <1>3

LEMMA FilesStep ==
  ASSUME Base, Base', Life, [Next]_vars,
         ~Forgotten /\ ~Forgotten' => blobFiles' = SizeOf'
  PROVE  FilesKept'
<1>1. TempsKept'
  BY TempsStep DEF Life, FilesKept, TempsKept
<1>2. CASE CloseForget
  <2>1. /\ DOMAIN items' = {} /\ closePc' = "remove" /\ closeIds' = DOMAIN items
        /\ UNCHANGED blobFiles /\ ~Forgotten
    BY <1>2 DEF CloseForget, CloseFrame, Forgotten
  <2>2. blobFiles = SizeOf /\ DOMAIN blobFiles = DOMAIN items
    BY <2>1 DEF Life, FilesKept, SizeOf
  <2>3. Bytes(blobFiles, DOMAIN blobFiles) <= MaxTotalBytes
    BY DirectoryBytes DEF Life
  <2> QED
    BY <1>1, <2>1, <2>2, <2>3 DEF FilesKept, Forgotten, TempsKept
<1>3. CASE CloseRemove
  <2>1. PICK left \in SUBSET IF OwnedDir THEN DOMAIN blobFiles ELSE closeIds :
          /\ closeErr' = (left # {})
          /\ blobFiles' = [i \in DOMAIN blobFiles \ ((IF OwnedDir THEN BlobIds ELSE closeIds)
                                                      \ left) |-> blobFiles[i]]
    BY <1>3 DEF CloseRemove
  <2>2. /\ closePc = "remove" /\ closePc' = "done" /\ UNCHANGED items /\ Forgotten /\ Forgotten'
        /\ DOMAIN blobFiles \subseteq BlobIds
    BY <1>3 DEF CloseRemove, Forgotten, Base, IInv, TypeOK, IsPartialFunction
  <2>3. closeIds = DOMAIN blobFiles /\ DOMAIN items = {}
    BY <2>2 DEF Life, FilesKept
  <2>4. DOMAIN blobFiles' = left
    BY <2>1, <2>2, <2>3
  <2>5. IsFiniteSet(DOMAIN blobFiles)
    BY <2>2, BoundAssumption, FS_Subset
  <2>6. Bytes(blobFiles', DOMAIN blobFiles') <= Bytes(blobFiles, DOMAIN blobFiles)
    BY <2>1, <2>5, FewerBytes
  <2>7. Bytes(blobFiles, DOMAIN blobFiles) <= MaxTotalBytes
    BY DirectoryBytes DEF Life
  <2>8. /\ Bytes(blobFiles, DOMAIN blobFiles) \in Nat /\ MaxTotalBytes \in Nat
        /\ Bytes(blobFiles', DOMAIN blobFiles') \in Nat
    <3>1. IsFiniteSet(DOMAIN blobFiles')
      BY <2>1, <2>5, FS_Subset, DOMAIN blobFiles' \subseteq DOMAIN blobFiles
    <3> QED
      BY <2>5, <3>1, BytesFinite, ConfigAssumption
  <2>9. Bytes(blobFiles', DOMAIN blobFiles') <= MaxTotalBytes
    BY <2>6, <2>7, <2>8
  <2> QED
    BY <1>1, <2>1, <2>2, <2>3, <2>4, <2>9 DEF FilesKept, TempsKept
<1>4. CASE Forgotten /\ ~CloseRemove
  <2>1. UNCHANGED <<items, blobFiles, closePc, closeErr, closeIds>>
    BY <1>4, ForgottenStill DEF Life
  <2> QED
    BY <1>1, <1>4, <2>1 DEF Life, FilesKept, Forgotten, TempsKept
<1>5. CASE ~Forgotten /\ ~CloseForget
  <2>1. ~Forgotten'
    BY <1>5, NotForgottenStill
  <2>2. blobFiles' = SizeOf'
    BY <1>5, <2>1
  <2> QED
    BY <1>1, <2>1, <2>2 DEF FilesKept, Forgotten, TempsKept
<1> QED
  BY <1>2, <1>3, <1>4, <1>5

-----------------------------------------------------------------------------
(* The strengthened invariant                                               *)

CommitKind(p) == Commit(p) /\ CommitAdds(p)
OpenKind(id, h) == Open(id, h) /\ OpenAdds(id, h)
DeleteKind(id) == Delete(id) /\ DeleteTakes(id)
ReleaseKind(h) == ReleaseOpen(h) /\ ReleaseTakes(h)

\* Every step is of one of these kinds.
LEMMA Kinds ==
  ASSUME Base, Life, [Next]_vars
  PROVE  \/ Undisturbed
         \/ \E p \in Puts : CommitKind(p)
         \/ \E id \in BlobIds, h \in Handles : OpenKind(id, h)
         \/ \E id \in BlobIds : DeleteKind(id)
         \/ \E h \in Handles : ReleaseKind(h)
         \/ CloseForget \/ CloseRemove
<1>1. ASSUME NEW p \in Puts, BeginPut(p) \/ RefusePut(p) \/ PutStep(p)
      PROVE  Undisturbed \/ CommitKind(p)
  <2>1. CASE Commit(p)
    BY <2>1, CommitItems DEF CommitKind, Life
  <2>2. CASE ~Commit(p)
    <3>1. PutUndisturbed(p)
      BY <1>1, <2>2 DEF PutStep, PutUndisturbed
    <3> QED
      BY <3>1, PutIsUndisturbed DEF Life
  <2> QED
    BY <2>1, <2>2
<1>2. ASSUME NEW id \in BlobIds, NEW h \in Handles, Open(id, h) PROVE OpenKind(id, h)
  BY <1>2, OpenItems DEF OpenKind
<1>3. ASSUME NEW id \in BlobIds, Delete(id) PROVE DeleteKind(id)
  BY <1>3, DeleteItems DEF DeleteKind
<1>4. ASSUME NEW h \in Handles, ReleaseOpen(h) PROVE ReleaseKind(h)
  <2>1. handleId[h] \in DOMAIN items
    BY <1>4 DEF ReleaseOpen, Life, HandlesKept
  <2> QED
    BY <1>4, <2>1, ReleaseItems DEF ReleaseKind
<1>5. CASE Lookup \/ JanitorSweep
  BY <1>5, CleaningUndisturbed DEF Cleaning, Life
<1>6. CASE Elsewhere \/ JanitorTick \/ JanitorStop \/ UNCHANGED vars
  BY <1>6, ElsewhereUndisturbed
<1> QED
  BY <1>1, <1>2, <1>3, <1>4, <1>5, <1>6 DEF Next, CloseStep, Elsewhere

LEMMA BaseStep ==
  ASSUME Base, [Next]_vars
  PROVE  Base'
BY NextInvariant, ShutStep DEF Base

LEMMA LifeStep ==
  ASSUME Base, Base', Life, [Next]_vars
  PROVE  Life'
<1>1. Closing' /\ InThePast'
  BY ClosingStep, InThePastStep DEF Life
<1>2. HandlesKept' /\ (~Forgotten /\ ~Forgotten' => blobFiles' = SizeOf')
  <2>1. ~Forgotten => blobFiles = SizeOf
    BY DEF Life, FilesKept
  <2>2. CASE Undisturbed
    BY <2>1, <2>2, UndisturbedHandles DEF Life, Undisturbed
  <2>3. ASSUME NEW p \in Puts, CommitKind(p)
        PROVE  HandlesKept' /\ (~Forgotten /\ ~Forgotten' => blobFiles' = SizeOf')
    BY <2>1, <2>3, CommitHandles DEF Life, CommitKind, CommitAdds
  <2>4. ASSUME NEW id \in BlobIds, NEW h \in Handles, OpenKind(id, h)
        PROVE  HandlesKept' /\ (~Forgotten /\ ~Forgotten' => blobFiles' = SizeOf')
    BY <2>1, <2>4, OpenHandles DEF Life, OpenKind, OpenAdds
  <2>5. ASSUME NEW id \in BlobIds, DeleteKind(id)
        PROVE  HandlesKept' /\ (~Forgotten /\ ~Forgotten' => blobFiles' = SizeOf')
    BY <2>1, <2>5, DeleteHandles DEF Life, DeleteKind, DeleteTakes
  <2>6. ASSUME NEW h \in Handles, ReleaseKind(h)
        PROVE  HandlesKept' /\ (~Forgotten /\ ~Forgotten' => blobFiles' = SizeOf')
    BY <2>1, <2>6, ReleaseHandles DEF Life, ReleaseKind, ReleaseTakes
  <2>7. CASE CloseForget
    <3>1. \A h \in Handles : handle[h] = "free"
      BY <2>7 DEF Life, Closing, CloseForget
    <3>2. /\ UNCHANGED <<handle, handleId>> /\ openFiles' = {} /\ DOMAIN items' = {} /\ Forgotten'
      BY <2>7 DEF CloseForget, CloseFrame, Forgotten
    <3> QED
      BY <3>1, <3>2 DEF Life, HandlesKept
  <2>8. CASE CloseRemove
    <3>1. UNCHANGED <<handle, handleId, openFiles, items>> /\ Forgotten'
      BY <2>8 DEF CloseRemove, handleVars, Forgotten
    <3> QED
      BY <3>1 DEF Life, HandlesKept, ReadersOf
  <2> QED
    BY <2>2, <2>3, <2>4, <2>5, <2>6, <2>7, <2>8, Kinds
<1>3. FilesKept'
  BY <1>2, FilesStep
<1> QED
  BY <1>1, <1>2, <1>3 DEF Life

LEMMA LifeInit ==
  ASSUME Init
  PROVE  Life
<1>1. blobFiles = SizeOf /\ DOMAIN items = {} /\ DOMAIN tempFiles = {}
  BY DEF Init, SizeOf
<1>2. FilesKept
  BY <1>1 DEF Init, FilesKept, Forgotten
<1>3. HandlesKept
  BY <1>1 DEF Init, HandlesKept
<1>4. Closing /\ InThePast
  BY DEF Init, Closing, InThePast
<1> QED
  BY <1>2, <1>3, <1>4 DEF Life

\* What the rest follows from holds in every state.
THEOREM LifeInvariant == Spec => [](Base /\ Life)
<1>1. Init => Base /\ Life
  BY InitInvariant, LifeInit DEF Base
<1>2. (Base /\ Life) /\ [Next]_vars => (Base /\ Life)'
  BY BaseStep, LifeStep
<1> QED
  BY <1>1, <1>2, PTL DEF Spec

-----------------------------------------------------------------------------
(* What follows about the states                                            *)

LEMMA LifeDisk ==
  ASSUME Base, Life
  PROVE  DiskWithinQuota
<1> DEFINE live == {p \in DOMAIN tempFiles : pc[p] \in {"copy", "write", "commit", "remove"}}
<1>1. live \subseteq Puts /\ IsFiniteSet(Puts) /\ IsFiniteSet(live) /\ IsFiniteSet(Puts \ live)
  BY BoundAssumption, FS_Subset, live \in SUBSET Puts, Puts \ live \in SUBSET Puts
     DEF Base, IInv, TypeOK, IsPartialFunction
<1>2. Bytes(tempFiles, live) <= inFlightBytes /\ Bytes(tempFiles, live) \in Nat
  <2>1. Bytes(tempFiles, live) = Bytes(reserved, live)
    <3>1. \A p \in live : tempFiles[p] = reserved[p]
      BY <1>1 DEF Base, IInv, CallsConsistent, CallConsistent
    <3> QED
      BY <3>1, BytesCongruence
  <2>2. Bytes(reserved, live) <= Bytes(HeldBy, live)
    <3>1. BytesOf(reserved, live) \subseteq BytesOf(HeldBy, live)
      <4>1. \A p \in live : reserved[p] <= HeldBy[p] /\ reserved[p] \in Nat /\ HeldBy[p] \in Nat
        BY <1>1, ConfigAssumption DEF HeldBy, Base, IInv, TypeOK
      <4> QED
        BY <4>1 DEF BytesOf
    <3>2. IsFiniteSet(BytesOf(HeldBy, live))
      BY <1>1, BytesFinite
    <3> QED
      BY <3>1, <3>2, <1>1, FS_Subset, BytesFinite
  <2>3. /\ Bytes(HeldBy, Puts \ live) = Bytes(HeldBy, Puts) - Bytes(HeldBy, live)
        /\ Bytes(HeldBy, Puts \ live) \in Nat /\ Bytes(HeldBy, live) \in Nat
    BY <1>1, BytesWithout
  <2>4. inFlightBytes = Bytes(HeldBy, Puts) /\ inFlightBytes \in Nat
    BY DEF Base, IInv, AccountingExact, TypeOK
  <2>5. Bytes(tempFiles, live) \in Nat
    BY <1>1, BytesFinite
  <2> QED
    BY <2>1, <2>2, <2>3, <2>4, <2>5
<1>3. CASE Forgotten
  <2>1. live = {}
    BY <1>1, <1>3 DEF Forgotten, Base, Shut
  <2>2. Bytes(tempFiles, live) = 0
    BY <2>1, BytesNone
  <2>3. Bytes(blobFiles, DOMAIN blobFiles) <= MaxTotalBytes
    BY DirectoryBytes DEF Life
  <2>4. Bytes(blobFiles, DOMAIN blobFiles) \in Nat
    <3>1. IsFiniteSet(DOMAIN blobFiles)
      BY BoundAssumption, FS_Subset DEF Base, IInv, TypeOK, IsPartialFunction
    <3> QED
      BY <3>1, BytesFinite
  <2> QED
    BY <2>2, <2>3, <2>4 DEF DiskWithinQuota
<1>4. CASE ~Forgotten
  <2>1. blobFiles = SizeOf /\ DOMAIN blobFiles = DOMAIN items
    BY <1>4 DEF Life, FilesKept, SizeOf
  <2>2. Bytes(blobFiles, DOMAIN blobFiles) = totalBytes
    BY <2>1 DEF Base, IInv, AccountingExact
  <2>3. /\ totalBytes + inFlightBytes <= MaxTotalBytes /\ totalBytes \in Nat
        /\ inFlightBytes \in Nat /\ MaxTotalBytes \in Nat
    BY ConfigAssumption DEF Base, IInv, QuotaHolds, TypeOK
  <2> QED
    BY <1>2, <2>2, <2>3 DEF DiskWithinQuota
<1> QED
  BY <1>3, <1>4

LEMMA LifeCleanClose ==
  ASSUME Base, Life
  PROVE  CleanClose
<1> SUFFICES ASSUME closePc = "done"
             PROVE  /\ ~closeErr => DOMAIN blobFiles = {}
                    /\ faults = 0 => DOMAIN tempFiles = {}
  BY DEF CleanClose
<1>1. \A p \in Puts : pc[p] = "idle"
  BY DEF Base, Shut
<1>2. DOMAIN tempFiles \subseteq Puts
  BY DEF Base, IInv, TypeOK, IsPartialFunction
<1> QED
  BY <1>1, <1>2 DEF Life, FilesKept, Writing

\* The limit on bytes holds of the directory: blobs and the temporary files of
\* the calls in progress, before Close, during it and after (store.go:349-378).
THEOREM Disk == Spec => []DiskWithinQuota
BY LifeInvariant, LifeDisk, PTL

\* Close forgets the items only when no handle, no Put and no janitor is left to
\* use them (store.go:311-325).
THEOREM ForgetsNothingLive == Spec => []CloseForgetsNothingLive
<1>1. Base /\ Life => CloseForgetsNothingLive
  BY DEF Base, Life, Shut, Closing, CloseForgetsNothingLive
<1> QED
  BY <1>1, LifeInvariant, PTL

\* A Close without an error leaves no blob, and nothing when no removal failed
\* (store.go:327-345).
THEOREM CloseIsClean == Spec => []CleanClose
BY LifeInvariant, LifeCleanClose, PTL

-----------------------------------------------------------------------------
(* What follows about the steps                                             *)

\* Time passes only forward.
LEMMA ClockGrows ==
  ASSUME Base, [Next]_vars
  PROVE  clock \in Nat /\ clock' \in Nat /\ clock <= clock'
<1>1. clock \in Nat
  BY BoundAssumption DEF Base, IInv, TypeOK
<1>2. CASE Tick
  BY <1>1, <1>2 DEF Tick
<1>3. ASSUME NEW p \in Puts, BeginPut(p) \/ RefusePut(p) \/ PutStep(p) PROVE UNCHANGED clock
  BY <1>3 DEF BeginPut, RefusePut, PutStep, CreateTemp, FailCopy, ReserveChunk, WriteChunk, Stamp,
     Commit, RefuseCommit, RemoveTemp, AbortPut, FinishPut, PutFrame
<1>4. ASSUME \/ \E id \in BlobIds, h \in Handles : Open(id, h)
             \/ Lookup
             \/ \E id \in BlobIds : Delete(id)
             \/ \E h \in Handles : CloseHandle(h) \/ ReleaseOpen(h)
             \/ JanitorTick \/ JanitorSweep \/ JanitorStop
      PROVE  UNCHANGED clock
  BY <1>4 DEF Open, Lookup, Delete, CloseHandle, ReleaseOpen, HandleFrame, JanitorTick,
     JanitorSweep, JanitorStop, JanitorFrame
<1>5. ASSUME CloseBegin \/ CloseStep \/ Terminated \/ UNCHANGED vars
      PROVE  UNCHANGED clock
  BY <1>5 DEF CloseBegin, CloseStep, CloseJanitorDone, CloseNextFile, CloseFileDone,
     CloseFilesDone, CloseForget, CloseRemove, CloseFrame, Terminated, vars
<1> QED
  BY <1>1, <1>2, <1>3, <1>4, <1>5 DEF Next

\* A blob that is open stays, with its size, under a handle that stays.
LEMMA ReadItemStays ==
  ASSUME Base, Base', Life, Life', [Next]_vars,
         NEW h \in Handles, handle[h] # "free", handle'[h] # "free"
  PROVE  /\ handleId'[h] = handleId[h]
         /\ handleId[h] \in DOMAIN items /\ handleId[h] \in DOMAIN items'
         /\ items'[handleId[h]].size = items[handleId[h]].size
         /\ ~Forgotten /\ ~Forgotten'
<1>1. PICK id \in DOMAIN items : id = handleId[h] /\ items[id].openCount > 0
  BY ReaderCounted DEF Life
<1>2. id \in BlobIds /\ items[id].openCount # 0
  BY <1>1, ItemsTyped DEF Base, IInv
<1>3. ~CloseForget /\ ~CloseRemove /\ ~Forgotten
  BY DEF Life, Closing, CloseForget, CloseRemove, Forgotten
<1>4. ~Forgotten'
  BY <1>3, NotForgottenStill
<1>5. handleId'[h] = id => id \in DOMAIN items'
  BY DEF Life, HandlesKept
<1>6. CASE Undisturbed
  BY <1>1, <1>2, <1>3, <1>4, <1>5, <1>6 DEF Undisturbed, Cleaned, Aged, Same
<1>7. ASSUME NEW p \in Puts, CommitKind(p)
      PROVE  handleId'[h] = id /\ items'[id].size = items[id].size
  BY <1>1, <1>2, <1>5, <1>7 DEF CommitKind, CommitAdds, Cleaned, Aged, Same
<1>8. ASSUME NEW k \in Handles, NEW j \in BlobIds, OpenKind(j, k)
      PROVE  handleId'[h] = id /\ items'[id].size = items[id].size
  <2>1. k # h /\ handleId'[h] = id
    BY <1>1, <1>8 DEF OpenKind, Open, Base, IInv, TypeOK
  <2> QED
    BY <1>2, <1>5, <1>8, <2>1 DEF OpenKind, OpenAdds, Cleaned, Aged, Same
<1>9. ASSUME NEW j \in BlobIds, DeleteKind(j)
      PROVE  handleId'[h] = id /\ items'[id].size = items[id].size
  BY <1>1, <1>2, <1>5, <1>9 DEF DeleteKind, DeleteTakes, Cleaned, Aged, Same
<1>10. ASSUME NEW k \in Handles, ReleaseKind(k)
       PROVE  handleId'[h] = id /\ items'[id].size = items[id].size
  <2>1. k # h /\ handleId'[h] = id
    BY <1>1, <1>10 DEF ReleaseKind, ReleaseOpen, Base, IInv, TypeOK
  <2> QED
    BY <1>2, <1>5, <1>10, <2>1 DEF ReleaseKind, ReleaseTakes, Cleaned, Aged, Same
<1>11. handleId'[h] = id /\ items'[id].size = items[id].size
  BY <1>1, <1>3, <1>6, <1>7, <1>8, <1>9, <1>10, Kinds
<1> QED
  BY <1>1, <1>3, <1>4, <1>5, <1>11

LEMMA ReaderStep ==
  ASSUME Base, Base', Life, Life', [Next]_vars,
         NEW h \in Handles, handle[h] # "free", handle'[h] # "free"
  PROVE  /\ handleId[h] \in DOMAIN blobFiles \intersect DOMAIN blobFiles'
         /\ blobFiles'[handleId[h]] = blobFiles[handleId[h]]
<1>1. /\ handleId[h] \in DOMAIN items /\ handleId[h] \in DOMAIN items'
      /\ items'[handleId[h]].size = items[handleId[h]].size
      /\ ~Forgotten /\ ~Forgotten'
  BY ReadItemStays
<1>2. blobFiles = SizeOf /\ blobFiles' = SizeOf'
  BY <1>1 DEF Life, FilesKept
<1> QED
  BY <1>1, <1>2 DEF SizeOf

\* A blob that cannot be found stays so, unless the step is the commit of
\* another one under its identifier.
LEMMA WithdrawnStep ==
  ASSUME Base, Base', Life, [Next]_vars,
         NEW i \in DOMAIN items, ~Available(i), Available(i)'
  PROVE  \E p \in Puts : pc[p] = "commit" /\ pc'[p] = "finish" /\ stampId[p] = i
<1>1. /\ i \in BlobIds /\ i \in DOMAIN items' /\ ~items'[i].deleteAfter
      /\ clock' < items'[i].expiresAt
      /\ items[i].deleteAfter \/ ~(clock < items[i].expiresAt)
  BY ItemsTyped DEF Base, IInv, Available
<1>2. clock \in Nat /\ clock' \in Nat /\ clock <= clock'
  BY ClockGrows
<1>3. ~ /\ items'[i].expiresAt = items[i].expiresAt
        /\ items[i].deleteAfter => items'[i].deleteAfter
  <2>1. items[i].expiresAt \in Nat
    BY ItemsTyped DEF Base, IInv
  <2> QED
    BY <1>1, <1>2, <2>1
<1>4. CASE Undisturbed
  BY <1>1, <1>3, <1>4 DEF Undisturbed, Cleaned, Aged, Same
<1>5. ASSUME NEW p \in Puts, CommitKind(p)
      PROVE  pc[p] = "commit" /\ pc'[p] = "finish" /\ stampId[p] = i
  <2>1. stampId[p] = i
    BY <1>1, <1>3, <1>5 DEF CommitKind, CommitAdds, Cleaned, Aged, Same
  <2> QED
    BY <1>5, <2>1 DEF CommitKind, Commit, Base, IInv, TypeOK
<1>6. ASSUME NEW id \in BlobIds, NEW h \in Handles, OpenKind(id, h) PROVE FALSE
  <2>1. CASE i = id
    BY <1>6, <2>1 DEF OpenKind, OpenAdds
  <2>2. CASE i # id
    BY <1>1, <1>3, <1>6, <2>2 DEF OpenKind, OpenAdds, Cleaned, Aged, Same
  <2> QED
    BY <2>1, <2>2
<1>7. ASSUME NEW id \in BlobIds, DeleteKind(id) PROVE FALSE
  <2>1. CASE i = id
    BY <1>7, <2>1 DEF DeleteKind, DeleteTakes
  <2>2. CASE i # id
    BY <1>1, <1>3, <1>7, <2>2 DEF DeleteKind, DeleteTakes, Cleaned, Aged, Same
  <2> QED
    BY <2>1, <2>2
<1>8. ASSUME NEW h \in Handles, ReleaseKind(h) PROVE FALSE
  <2>1. CASE i = handleId[h]
    BY <1>1, <1>3, <1>8, <2>1 DEF ReleaseKind, ReleaseTakes
  <2>2. CASE i # handleId[h]
    BY <1>1, <1>3, <1>8, <2>2 DEF ReleaseKind, ReleaseTakes, Cleaned, Aged, Same
  <2> QED
    BY <2>1, <2>2
<1>9. CASE CloseForget \/ CloseRemove
  BY <1>1, <1>3, <1>9 DEF CloseForget, CloseRemove
<1> QED
  BY <1>4, <1>5, <1>6, <1>7, <1>8, <1>9, Kinds

\* A reader has its blob's file, unchanged, from its Open to its Close
\* (store.go:284, 424).
THEOREM ReadersKeepFiles == Spec => ReaderKeepsFile
<1>1. /\ Base /\ Life /\ (Base /\ Life)' /\ [Next]_vars
      => [\A h \in Handles :
            handle[h] # "free" /\ handle'[h] # "free" =>
              /\ handleId[h] \in DOMAIN blobFiles \intersect DOMAIN blobFiles'
              /\ blobFiles'[handleId[h]] = blobFiles[handleId[h]]]_vars
  BY ReaderStep
<1> QED
  BY <1>1, LifeInvariant, PTL DEF Spec, ReaderKeepsFile

\* A deleted or expired blob is found again only as another Put's
\* (store.go:244, 264, 288, 418-428).
THEOREM WithdrawnStaysWithdrawn == Spec => WithdrawnForGood
<1>1. /\ Base /\ Life /\ (Base /\ Life)' /\ [Next]_vars
      => [\A i \in BlobIds :
            i \in DOMAIN items /\ ~Available(i) /\ Available(i)' =>
              \E p \in Puts : pc[p] = "commit" /\ pc'[p] = "finish" /\ stampId[p] = i]_vars
  BY WithdrawnStep
<1> QED
  BY <1>1, LifeInvariant, PTL DEF Spec, WithdrawnForGood

-----------------------------------------------------------------------------
(* The store implements AbstractBlobStore                                   *)

Readable == {i \in DOMAIN items : ~closed /\ Available(i)}

\* Who can be found after a critical section could be found before, and while
\* the clock stands everybody else still can.
LEMMA CleanedAvailable ==
  ASSUME Base, Base', [Next]_vars, NEW S, Cleaned(S), NEW i \in BlobIds \ S
  PROVE  /\ Available(i)' => Available(i)
         /\ UNCHANGED clock /\ Available(i) => Available(i)'
<1>1. clock \in Nat /\ clock' \in Nat /\ clock <= clock'
  BY ClockGrows
<1>2. ASSUME Available(i)' PROVE Available(i)
  <2>1. i \in DOMAIN items' /\ ~items'[i].deleteAfter /\ clock' < items'[i].expiresAt
    BY <1>2 DEF Available
  <2>2. i \in DOMAIN items /\ Aged(i)
    BY <2>1 DEF Cleaned
  <2>3. items[i].expiresAt \in Nat
    BY <2>2, ItemsTyped DEF Base, IInv
  <2> QED
    BY <1>1, <2>1, <2>2, <2>3 DEF Available, Aged, Same
<1>3. ASSUME UNCHANGED clock, Available(i) PROVE Available(i)'
  <2>1. i \in DOMAIN items /\ i \in DOMAIN items'
    BY <1>3 DEF Available, Cleaned
  <2>2. Aged(i)
    BY <2>1 DEF Cleaned
  <2> QED
    BY <1>3, <2>1, <2>2 DEF Available, Aged, Same
<1> QED
  BY <1>2, <1>3

\* Nobody reads an item that counts no reader.
LEMMA NotRead ==
  ASSUME HandlesKept, NEW i \in DOMAIN items, items[i].openCount = 0
  PROVE  i \notin AbstractStore!Read
<1> SUFFICES ASSUME i \in AbstractStore!Read PROVE FALSE
  OBVIOUS
<1>1. PICK h \in Handles : handleId[h] = i /\ i # NoBlob
  BY DEF AbstractStore!Read
<1>2. handle[h] # "free"
  BY <1>1 DEF HandlesKept
<1> QED
  BY <1>1, <1>2, ReaderCounted

\* What remains of the items keeps its size.
LEMMA KeptSizes ==
  ASSUME NEW S, DOMAIN items' = DOMAIN items \ S,
         \A i \in DOMAIN items' : items'[i].size = items[i].size
  PROVE  SizeOf' = AbstractStore!Keep(S)
BY DEF SizeOf, AbstractStore!Keep

LEMMA WithdrawStep ==
  ASSUME Base, Base', Life, Life', [Next]_vars, ~closed, UNCHANGED closed,
         NEW S \in SUBSET BlobIds, Cleaned(S), UNCHANGED handleId,
         \A i \in S : i \in DOMAIN items,
         \A i \in S : Available(i)' => Available(i),
         \A i \in S : i \in DOMAIN items' => items'[i].size = items[i].size,
         \A i \in S : i \notin DOMAIN items' => items[i].openCount = 0
  PROVE  AbstractStore!Next
<1> DEFINE gone == DOMAIN items \ DOMAIN items'
<1>1. DOMAIN items \subseteq BlobIds /\ DOMAIN items' \subseteq BlobIds
  BY DEF Base, IInv, TypeOK, IsPartialFunction
<1>2. Readable' \in SUBSET Readable
  BY <1>1, CleanedAvailable DEF Readable, Available
<1>3. DOMAIN items' = DOMAIN items \ gone /\ \A i \in DOMAIN items' : items'[i].size = items[i].size
  BY <1>1 DEF Cleaned, Aged, Same
<1>4. SizeOf' = AbstractStore!Keep(gone)
  BY <1>3, KeptSizes
<1>5. \A i \in gone : i \notin AbstractStore!Read
  <2>1. \A i \in gone : items[i].openCount = 0
    BY <1>1 DEF Cleaned
  <2> QED
    BY <2>1, NotRead DEF Life
<1>6. AbstractStore!Reclaimable(gone, Readable') /\ gone \in SUBSET DOMAIN SizeOf
  BY <1>5 DEF AbstractStore!Reclaimable, SizeOf, Readable
<1>7. AbstractStore!Withdraw
  BY <1>2, <1>4, <1>6 DEF AbstractStore!Withdraw, Readable
<1> QED
  BY <1>2, <1>7 DEF AbstractStore!Next, Readable

\* A step that changes nothing that a client sees.
LEMMA AbstractStutter ==
  ASSUME UNCHANGED <<items, handleId, closed, clock>>
  PROVE  UNCHANGED AbstractStore!avars
BY DEF AbstractStore!avars, SizeOf, Available

LEMMA ClosedFindsNothing ==
  ASSUME closed, closed', UNCHANGED <<items, handleId>>, UNCHANGED closed
  PROVE  UNCHANGED AbstractStore!avars
BY DEF AbstractStore!avars, SizeOf

LEMMA UndisturbedAbstract ==
  ASSUME Base, Base', Life, Life', [Next]_vars, Undisturbed
  PROVE  AbstractStore!Next \/ UNCHANGED AbstractStore!avars
<1>1. CASE CloseBegin
  <2>1. closed' = TRUE /\ UNCHANGED <<items, handleId>>
    BY <1>1 DEF CloseBegin, CloseFrame
  <2>2. Readable' = {} /\ SizeOf' = SizeOf
    BY <2>1 DEF Readable, SizeOf
  <2>3. AbstractStore!Shut
    BY <2>1, <2>2 DEF AbstractStore!Shut, Readable
  <2> QED
    BY <2>3 DEF AbstractStore!Next
<1>2. CASE UNCHANGED closed /\ closed
  <2>1. UNCHANGED <<items, handleId>>
    BY <1>2 DEF Undisturbed
  <2> QED
    BY <1>2, <2>1, ClosedFindsNothing
<1>3. CASE UNCHANGED closed /\ ~closed
  <2>1. Cleaned({}) /\ UNCHANGED handleId /\ {} \in SUBSET BlobIds
    BY DEF Undisturbed
  <2> QED
    BY <1>3, <2>1, WithdrawStep
<1> QED
  BY <1>1, <1>2, <1>3 DEF Undisturbed

LEMMA DeleteAbstract ==
  ASSUME Base, Base', Life, Life', [Next]_vars, NEW id \in BlobIds, DeleteKind(id)
  PROVE  AbstractStore!Next
<1>1. ~closed /\ UNCHANGED closed /\ UNCHANGED handleId
  BY DEF DeleteKind, Delete, DeleteTakes, HandleFrame
<1>2. {id} \in SUBSET BlobIds /\ Cleaned({id})
  BY DEF DeleteKind, DeleteTakes
<1>3. /\ id \in DOMAIN items /\ Available(id)
      /\ id \in DOMAIN items' => items'[id].size = items[id].size
      /\ id \notin DOMAIN items' => items[id].openCount = 0
  BY DEF DeleteKind, DeleteTakes, Same
<1> QED
  BY <1>1, <1>2, <1>3, WithdrawStep

\* While the store is open and the clock stands, a critical section leaves who
\* can be found as it was but for those of S.
LEMMA ReadableBut ==
  ASSUME Base, Base', [Next]_vars, NEW S, Cleaned(S), UNCHANGED <<clock, closed>>
  PROVE  Readable' \ S = Readable \ S
<1>1. DOMAIN items \subseteq BlobIds /\ DOMAIN items' \subseteq BlobIds
  BY DEF Base, IInv, TypeOK, IsPartialFunction
<1>2. \A i \in BlobIds \ S : Available(i)' <=> Available(i)
  BY CleanedAvailable
<1>3. \A i : /\ i \in Readable' <=> i \in DOMAIN items' /\ ~closed' /\ Available(i)'
             /\ i \in Readable <=> i \in DOMAIN items /\ ~closed /\ Available(i)
  BY DEF Readable
<1>4. \A i : Available(i)' => i \in DOMAIN items'
  BY DEF Available
<1>5. \A i : Available(i) => i \in DOMAIN items
  BY DEF Available
<1> QED
  BY <1>1, <1>2, <1>3, <1>4, <1>5

\* What a cleanup takes with one item left out: nobody reads or finds it.
LEMMA GoneReclaimable ==
  ASSUME Base, Base', Life, NEW id, Cleaned({id}),
         NEW gone, gone = (DOMAIN items \ DOMAIN items') \union (DOMAIN items \intersect {id}),
         id \in DOMAIN items => items[id].openCount = 0 /\ ~Available(id)
  PROVE  /\ gone \in SUBSET DOMAIN SizeOf
         /\ AbstractStore!Reclaimable(gone, Readable)
<1>1. DOMAIN items \subseteq BlobIds
  BY DEF Base, IInv, TypeOK, IsPartialFunction
<1>2. \A i \in gone : i \in DOMAIN items /\ items[i].openCount = 0 /\ ~Available(i)
  BY <1>1 DEF Cleaned
<1>3. \A i \in gone : i \notin AbstractStore!Read
  BY <1>2, NotRead DEF Life
<1> QED
  BY <1>2, <1>3 DEF SizeOf, Readable, AbstractStore!Reclaimable

\* The abstract store counts bytes as the store does.
LEMMA RoomIsBytes ==
  ASSUME NEW f
  PROVE  AbstractStore!Room(f) = Bytes(f, DOMAIN f)
BY Zenon DEF AbstractStore!Room, Bytes, AbstractStore!Cardinality, Cardinality

\* A term of a sum that fits, fits.
LEMMA SumFits ==
  ASSUME NEW a \in Nat, NEW b \in Nat, NEW c \in Nat, a + b <= c
  PROVE  a <= c
OBVIOUS

\* The abstract store's Cardinality is Cardinality.
LEMMA SameCount ==
  ASSUME NEW S
  PROVE  AbstractStore!Cardinality(S) = Cardinality(S)
BY Zenon DEF AbstractStore!Cardinality, Cardinality

LEMMA CommitAbstract ==
  ASSUME Base, Base', Life, Life', [Next]_vars, NEW p \in Puts, CommitKind(p)
  PROVE  AbstractStore!Next
<1>1. PICK id \in BlobIds : id = stampId[p]
  BY DEF CommitKind, CommitAdds
<1>2. PICK size \in 0..MaxBlobBytes : size = reserved[p]
  BY DEF Base, IInv, TypeOK
<1> DEFINE gone == (DOMAIN items \ DOMAIN items') \union (DOMAIN items \intersect {id})
<1>3. /\ Cleaned({id}) /\ id \in DOMAIN items' /\ items'[id].size = size
      /\ id \in DOMAIN items => items[id].openCount = 0 /\ ~Available(id)
      /\ UNCHANGED handleId
  BY <1>1, <1>2 DEF CommitKind, CommitAdds
<1>4. ~closed /\ UNCHANGED <<closed, clock>>
  BY DEF CommitKind, Commit, PutFrame
<1>5. DOMAIN items \subseteq BlobIds /\ DOMAIN items' \subseteq BlobIds
  BY DEF Base, IInv, TypeOK, IsPartialFunction
<1>6. gone \in SUBSET DOMAIN SizeOf /\ AbstractStore!Reclaimable(gone, Readable)
  BY <1>3, GoneReclaimable
<1>7. SizeOf' = [j \in (DOMAIN SizeOf \ gone) \union {id} |-> IF j = id THEN size ELSE SizeOf[j]]
  <2>1. DOMAIN items' = (DOMAIN items \ gone) \union {id}
    BY <1>3, <1>5 DEF Cleaned
  <2>2. \A j \in DOMAIN items' \ {id} : items'[j].size = items[j].size /\ j \in DOMAIN items
    BY <1>3, <1>5 DEF Cleaned, Aged, Same
  <2> QED
    BY <1>3, <2>1, <2>2 DEF SizeOf
<1>8. Readable' \in {Readable, Readable \union {id}}
  <2>1. Readable' \ {id} = Readable \ {id}
    BY <1>3, <1>4, ReadableBut
  <2>2. id \notin Readable
    BY <1>3 DEF Readable
  <2> QED
    BY <2>1, <2>2
<1>9. AbstractStore!Room(SizeOf') <= MaxTotalBytes
  <2>1. DOMAIN SizeOf' = DOMAIN items'
    BY DEF SizeOf
  <2>2. AbstractStore!Room(SizeOf') = Bytes(SizeOf', DOMAIN items')
    BY <2>1, RoomIsBytes
  <2>3. Bytes(SizeOf', DOMAIN items') = totalBytes'
    BY DEF Base, IInv, AccountingExact
  <2>4. /\ totalBytes' + inFlightBytes' <= MaxTotalBytes /\ totalBytes' \in Nat
        /\ inFlightBytes' \in Nat
    BY DEF Base, IInv, QuotaHolds, TypeOK
  <2>5. MaxTotalBytes \in Nat
    BY ConfigAssumption
  <2>6. totalBytes' <= MaxTotalBytes
    BY <2>4, <2>5, SumFits
  <2> QED
    BY Zenon, <2>2, <2>3, <2>6
<1>10. AbstractStore!Cardinality(DOMAIN SizeOf') <= MaxBlobs
  <2>1. DOMAIN SizeOf' = DOMAIN items'
    BY DEF SizeOf
  <2>2. /\ Cardinality(DOMAIN items') + inFlightBlobs' <= MaxBlobs /\ inFlightBlobs' \in Nat
    BY DEF Base, IInv, QuotaHolds, TypeOK
  <2>3. Cardinality(DOMAIN items') \in Nat
    BY BoundAssumption, FS_Subset, FS_CardinalityType, <1>5
  <2> QED
    BY <2>1, <2>2, <2>3, SameCount, ConfigAssumption
<1>11. id \notin DOMAIN SizeOf \ gone
  BY DEF SizeOf
<1>12. \E S \in SUBSET DOMAIN SizeOf :
         /\ AbstractStore!Reclaimable(S, Readable)
         /\ id \notin DOMAIN SizeOf \ S
         /\ SizeOf' = [j \in (DOMAIN SizeOf \ S) \union {id} |-> IF j = id THEN size ELSE SizeOf[j]]
  BY <1>6, <1>7, <1>11
<1>13. AbstractStore!Publish(id, size)
  BY <1>3, <1>4, <1>8, <1>9, <1>10, <1>12 DEF AbstractStore!Publish, Readable
<1> QED
  BY <1>13 DEF AbstractStore!Next

LEMMA OpenAbstract ==
  ASSUME Base, Base', Life, Life', [Next]_vars, NEW id \in BlobIds, NEW h \in Handles,
         OpenKind(id, h)
  PROVE  AbstractStore!Next
<1> DEFINE gone == DOMAIN items \ DOMAIN items'
<1>1. /\ ~closed /\ UNCHANGED <<closed, clock>>
      /\ handle[h] = "free" /\ handleId' = [handleId EXCEPT ![h] = id]
  BY DEF OpenKind, Open, HandleFrame
<1>2. /\ Cleaned({id}) /\ Available(id) /\ id \in DOMAIN items /\ id \in DOMAIN items'
      /\ items'[id].size = items[id].size /\ items'[id].expiresAt = items[id].expiresAt
      /\ ~items'[id].deleteAfter
  BY DEF OpenKind, OpenAdds
<1>3. DOMAIN items \subseteq BlobIds /\ DOMAIN items' \subseteq BlobIds
  BY DEF Base, IInv, TypeOK, IsPartialFunction
<1>4. handleId[h] = NoBlob /\ id \in Readable
  BY <1>1, <1>2 DEF Life, HandlesKept, Readable
<1>5. Readable' = Readable
  <2>1. Readable' \ {id} = Readable \ {id}
    BY <1>1, <1>2, ReadableBut
  <2>2. id \in Readable'
    BY <1>1, <1>2 DEF Readable, Available
  <2> QED
    BY <1>4, <2>1, <2>2
<1>6. /\ DOMAIN items' = DOMAIN items \ gone
      /\ \A i \in DOMAIN items' : items'[i].size = items[i].size
  BY <1>2, <1>3 DEF Cleaned, Aged, Same
<1>7. SizeOf' = AbstractStore!Keep(gone)
  BY <1>6, KeptSizes
<1>8. gone \in SUBSET DOMAIN SizeOf /\ AbstractStore!Reclaimable(gone, Readable)
  <2>1. \A i \in gone : items[i].openCount = 0 /\ ~Available(i)
    BY <1>2, <1>3 DEF Cleaned
  <2>2. \A i \in gone : i \notin AbstractStore!Read
    BY <2>1, NotRead DEF Life
  <2> QED
    BY <2>1, <2>2 DEF SizeOf, Readable, AbstractStore!Reclaimable
<1>9. AbstractStore!StartReading(h, id)
  BY <1>1, <1>4, <1>5, <1>7, <1>8 DEF AbstractStore!StartReading, Readable
<1> QED
  BY <1>9 DEF AbstractStore!Next

LEMMA ReleaseAbstract ==
  ASSUME Base, Base', Life, Life', [Next]_vars, NEW h \in Handles, ReleaseKind(h)
  PROVE  AbstractStore!Next
<1>1. /\ UNCHANGED <<closed, clock>> /\ handle[h] # "free"
      /\ handle' = [handle EXCEPT ![h] = "free"]
      /\ handleId' = [handleId EXCEPT ![h] = NoBlob]
      /\ handleId \in [Handles -> BlobIds \union {NoBlob}]
  BY DEF ReleaseKind, ReleaseOpen, HandleFrame, Base, IInv, TypeOK
<1>2. PICK id \in DOMAIN items : id = handleId[h]
  BY <1>1 DEF Life, HandlesKept
<1>3. /\ Cleaned({id})
      /\ \/ DOMAIN items' = DOMAIN items
         \/ DOMAIN items' = DOMAIN items \ {id} /\ LastOfDeleted(id)
      /\ id \in DOMAIN items' =>
           /\ items'[id].size = items[id].size /\ items'[id].expiresAt = items[id].expiresAt
           /\ items'[id].deleteAfter = items[id].deleteAfter
  BY <1>2 DEF ReleaseKind, ReleaseTakes
<1>4. id \in BlobIds /\ id # NoBlob /\ DOMAIN items \subseteq BlobIds
  BY BoundAssumption DEF Base, IInv, TypeOK, IsPartialFunction
<1>5. LastOfDeleted(id) => id \notin Readable
  BY DEF LastOfDeleted, Readable, Available
<1>6. Readable' = Readable
  <2>1. Readable' \ {id} = Readable \ {id}
    BY <1>1, <1>3, ReadableBut
  <2>2. id \in Readable' <=> id \in Readable
    BY <1>1, <1>3, <1>5 DEF Readable, Available
  <2> QED
    BY <2>1, <2>2
<1>7. \A i \in DOMAIN items' : items'[i].size = items[i].size
  BY <1>3, <1>4 DEF Cleaned, Aged, Same
<1>8. CASE DOMAIN items' = DOMAIN items
  <2>1. SizeOf' = SizeOf
    BY <1>7, <1>8 DEF SizeOf
  <2>2. AbstractStore!StopReading(h)
    BY <1>1, <1>2, <1>4, <1>6, <2>1 DEF AbstractStore!StopReading, Readable
  <2> QED
    BY <2>2 DEF AbstractStore!Next
<1>9. CASE DOMAIN items' = DOMAIN items \ {id} /\ LastOfDeleted(id)
  <2>1. SizeOf' = AbstractStore!Keep({id})
    BY <1>7, <1>9, KeptSizes
  <2>2. \A q \in Handles \ {h} : handleId[q] # id
    <3> SUFFICES ASSUME NEW q \in Handles \ {h}, handleId[q] = id PROVE FALSE
      OBVIOUS
    <3>1. handleId'[q] = id
      BY <1>1
    <3>2. id \in DOMAIN items'
      BY <1>4, <3>1 DEF Life, HandlesKept
    <3> QED
      BY <1>9, <3>2
  <2>3. id \notin Readable
    BY <1>5, <1>9
  <2>4. AbstractStore!StopReading(h)
    BY <1>1, <1>2, <1>4, <1>6, <2>1, <2>2, <2>3 DEF AbstractStore!StopReading, Readable
  <2> QED
    BY <2>4 DEF AbstractStore!Next
<1> QED
  BY <1>3, <1>8, <1>9

LEMMA ForgetAbstract ==
  ASSUME Base, Life, CloseForget
  PROVE  AbstractStore!Next
<1>1. closed /\ \A h \in Handles : handleId[h] = NoBlob
  BY DEF Life, Closing, HandlesKept, CloseForget
<1>2. DOMAIN items' = {} /\ UNCHANGED <<closed, handleId>>
  BY DEF CloseForget, CloseFrame
<1>3. SizeOf' = [i \in {} |-> 0]
  BY <1>2 DEF SizeOf
<1>4. AbstractStore!Read = {}
  BY <1>1 DEF AbstractStore!Read
<1>5. AbstractStore!Forget
  BY <1>1, <1>2, <1>3, <1>4 DEF AbstractStore!Forget
<1> QED
  BY <1>5 DEF AbstractStore!Next

\* The initial states map to initial states, and every step to a step or a
\* stutter of AbstractBlobStore: what the store shows its clients is what that
\* module promises.
THEOREM Implements == Spec => ImplementsAbstractStore
<1>1. Init => AbstractStore!Init
  BY DEF Init, AbstractStore!Init, SizeOf
<1>2. /\ Base /\ Life /\ (Base /\ Life)' /\ [Next]_vars
      => AbstractStore!Next \/ UNCHANGED AbstractStore!avars
  <2> SUFFICES ASSUME Base, Base', Life, Life', [Next]_vars
               PROVE  AbstractStore!Next \/ UNCHANGED AbstractStore!avars
    OBVIOUS
  <2>1. CASE CloseRemove
    BY <2>1, AbstractStutter DEF CloseRemove, handleVars
  <2> QED
    BY <2>1, Kinds, UndisturbedAbstract, CommitAbstract, OpenAbstract, DeleteAbstract,
       ReleaseAbstract, ForgetAbstract
<1>3. /\ Base /\ Life /\ (Base /\ Life)' /\ [Next]_vars
      => [AbstractStore!Next]_AbstractStore!avars
  BY <1>2
<1> QED
  BY <1>1, <1>3, LifeInvariant, PTL DEF Spec, ImplementsAbstractStore, AbstractStore!Spec

-----------------------------------------------------------------------------
(* The ends of a Put and of Close, without fairness: whoever has begun can   *)
(* go on, or somebody he waits for can; and his steps are counted.          *)

\* A Put in the middle of a write asked for something; Close has nothing left of
\* its snapshot once it has passed the handles, and the handle it waits for is
\* being closed.
Ends ==
  /\ \A p \in Puts : pc[p] = "write" => pending[p] # 0
  /\ closePc \in {"notCalled", "janitor"} => closeFile = NoHandle
  /\ closePc \in {"puts", "remove", "done"} => closeFiles = {} /\ closeFile = NoHandle
  /\ closePc = "files" /\ closeFile # NoHandle => handle[closeFile] # "open"

LEMMA EndsStep ==
  ASSUME Base, Life, Ends, [Next]_vars
  PROVE  Ends'
<1> USE DEF Ends
<1>0. closed => closePc # "notCalled"
  BY DEF Life, Closing
<1>1. ASSUME NEW p \in Puts, BeginPut(p) \/ RefusePut(p) \/ PutStep(p) PROVE Ends'
  <2>1. UNCHANGED <<closePc, closeFiles, closeFile, handle>>
    BY <1>1 DEF PutStep, BeginPut, RefusePut, CreateTemp, FailCopy, ReserveChunk, WriteChunk,
       Stamp, Commit, RefuseCommit, RemoveTemp, AbortPut, FinishPut, PutFrame, handleVars, closeVars
  <2>2. \A q \in Puts \ {p} : pc'[q] = pc[q] /\ pending'[q] = pending[q]
    BY <1>1 DEF PutStep, BeginPut, RefusePut, CreateTemp, FailCopy, ReserveChunk, WriteChunk,
       Stamp, Commit, RefuseCommit, RemoveTemp, AbortPut, FinishPut, putVars, Base, IInv, TypeOK
  <2>3. pc'[p] = "write" => pending'[p] # 0
    BY <1>1 DEF PutStep, BeginPut, RefusePut, CreateTemp, FailCopy, ReserveChunk, WriteChunk,
       Stamp, Commit, RefuseCommit, RemoveTemp, AbortPut, FinishPut, putVars, Base, IInv, TypeOK
  <2> QED
    BY <2>1, <2>2, <2>3
<1>2. ASSUME UNCHANGED <<pc, pending, closePc, closeFiles, closeFile, handle>> PROVE Ends'
  BY <1>2
<1>3. CASE Lookup \/ (\E id \in BlobIds : Delete(id)) \/ JanitorTick \/ JanitorSweep \/ JanitorStop
  BY <1>2, <1>3 DEF Lookup, Delete, HandleFrame, JanitorTick, JanitorSweep, JanitorStop,
     JanitorFrame, putVars, handleVars, closeVars
<1>4. ASSUME NEW h \in Handles,
             CloseHandle(h) \/ ReleaseOpen(h) \/ \E id \in BlobIds : Open(id, h)
      PROVE  Ends'
  <2>1. UNCHANGED <<pc, pending, closePc, closeFiles, closeFile>>
    BY <1>4 DEF CloseHandle, ReleaseOpen, Open, HandleFrame, putVars, closeVars
  <2>2. closePc = "files" /\ closeFile # NoHandle => handle'[closeFile] # "open"
    BY <1>0, <1>4 DEF CloseHandle, ReleaseOpen, Open, Base, IInv, TypeOK, Life, Closing
  <2> QED
    BY <2>1, <2>2
<1>5. ASSUME NEW h \in Handles, CloseNextFile(h) PROVE Ends'
  BY <1>5 DEF CloseNextFile, CloseFrame, putVars, Base, IInv, TypeOK
<1>6. CASE CloseBegin \/ CloseJanitorDone \/ CloseFileDone \/ CloseFilesDone \/ CloseForget
  BY <1>6 DEF CloseBegin, CloseJanitorDone, CloseFileDone, CloseFilesDone, CloseForget, CloseFrame,
     putVars
<1>7. CASE CloseRemove
  BY <1>7 DEF CloseRemove, putVars
<1>8. CASE Tick \/ Terminated \/ UNCHANGED vars
  BY <1>2, <1>8 DEF Tick, Terminated, vars, putVars, handleVars, closeVars
<1> QED
  BY <1>1, <1>3, <1>4, <1>5, <1>6, <1>7, <1>8 DEF Next, CloseStep

LEMMA EndsInvariant == Spec => [](Base /\ Life /\ Ends)
<1>1. Init => Ends
  BY DEF Init, Ends
<1>2. Base /\ Life /\ Ends /\ [Next]_vars => Ends'
  BY EndsStep
<1> QED
  BY <1>1, <1>2, LifeInvariant, PTL DEF Spec

\* The steps a Put has left: it reads at most one chunk for each byte a blob may
\* have, and then what follows the copy.
PutLeft(p) ==
  CASE pc[p] = "create" -> 2 * MaxBlobBytes + 6
    [] pc[p] = "copy"   -> 2 * (MaxBlobBytes - reserved[p]) + 5
    [] pc[p] = "write"  -> 2 * (MaxBlobBytes - reserved[p]) + 4
    [] pc[p] = "commit" -> 4
    [] pc[p] = "remove" -> 3
    [] pc[p] = "abort"  -> 2
    [] pc[p] = "finish" -> 1
    [] pc[p] = "idle"   -> 0

\* What a step does for a Put: its own bring it nearer to its end, and nobody
\* else changes where it is.
PutGoesOn(p) ==
  /\ BeginPut(p) => PutLeft(p)' = 2 * MaxBlobBytes + 6
  /\ PutStep(p) => PutLeft(p)' < PutLeft(p)
  /\ ~BeginPut(p) /\ ~PutStep(p) => PutLeft(p)' = PutLeft(p)

LEMMA OwnPutStep ==
  ASSUME Base, Ends, NEW p \in Puts, PutStep(p)
  PROVE  PutLeft(p)' < PutLeft(p)
<1>0. /\ MaxBlobBytes \in Nat /\ reserved[p] \in 0..MaxBlobBytes /\ pc[p] \in PutStates
      /\ pending[p] \in 0..MaxBlobBytes /\ reserved[p] + pending[p] <= MaxBlobBytes
      /\ (pc[p] = "create" => reserved[p] = 0) /\ (pc[p] = "write" => pending[p] # 0)
      /\ pc \in [Puts -> PutStates] /\ reserved \in [Puts -> 0..MaxBlobBytes]
  BY ConfigAssumption DEF Base, IInv, TypeOK, CallsConsistent, CallConsistent, Ends
<1>1. CASE CreateTemp(p)
  BY <1>0, <1>1 DEF CreateTemp, PutLeft
<1>2. ASSUME NEW n \in 1..MaxBlobBytes, ReserveChunk(p, n) PROVE PutLeft(p)' < PutLeft(p)
  BY <1>0, <1>2 DEF ReserveChunk, PutLeft
<1>3. ASSUME NEW k \in 0..MaxBlobBytes, WriteChunk(p, k) PROVE PutLeft(p)' < PutLeft(p)
  BY <1>0, <1>3 DEF WriteChunk, PutLeft
<1>4. CASE FailCopy(p)
  BY <1>0, <1>4 DEF FailCopy, PutLeft
<1>5. CASE \E id \in BlobIds : Stamp(p, id)
  BY <1>0, <1>5 DEF Stamp, PutLeft
<1>6. CASE Commit(p) \/ RefuseCommit(p)
  BY <1>0, <1>6 DEF Commit, RefuseCommit, PutLeft
<1>7. CASE RemoveTemp(p) \/ AbortPut(p) \/ FinishPut(p)
  BY <1>0, <1>7 DEF RemoveTemp, AbortPut, FinishPut, PutLeft
<1> QED
  BY <1>1, <1>2, <1>3, <1>4, <1>5, <1>6, <1>7 DEF PutStep

LEMMA PutSteps ==
  ASSUME Base, Ends, Next, NEW p \in Puts
  PROVE  PutGoesOn(p)
<1>1. ASSUME NEW q \in Puts \ {p}, BeginPut(q) \/ RefusePut(q) \/ PutStep(q)
      PROVE  pc'[p] = pc[p] /\ reserved'[p] = reserved[p]
  BY <1>1 DEF PutStep, BeginPut, RefusePut, CreateTemp, FailCopy, ReserveChunk, WriteChunk,
     Stamp, Commit, RefuseCommit, RemoveTemp, AbortPut, FinishPut, putVars, Base, IInv, TypeOK
<1>2. ASSUME ~BeginPut(p), ~PutStep(p) PROVE pc'[p] = pc[p] /\ reserved'[p] = reserved[p]
  <2>1. UNCHANGED putVars \/ \E q \in Puts \ {p} : BeginPut(q) \/ RefusePut(q) \/ PutStep(q)
    BY <1>2 DEF Next, RefusePut, Open, Lookup, Delete, CloseHandle, ReleaseOpen, HandleFrame,
       JanitorTick, JanitorSweep, JanitorStop, JanitorFrame, CloseBegin, CloseStep,
       CloseJanitorDone, CloseNextFile, CloseFileDone, CloseFilesDone, CloseForget, CloseRemove,
       CloseFrame, Tick, Terminated, vars
  <2> QED
    BY <1>1, <2>1 DEF putVars
<1>3. BeginPut(p) => PutLeft(p)' = 2 * MaxBlobBytes + 6
  BY DEF BeginPut, PutLeft, Base, IInv, TypeOK
<1>4. ~BeginPut(p) /\ ~PutStep(p) => PutLeft(p)' = PutLeft(p)
  BY <1>2 DEF PutLeft
<1> QED
  BY <1>3, <1>4, OwnPutStep DEF PutGoesOn

\* A Put ends after a bounded number of steps of its own, whatever the others
\* do, and whether the store closes under it or not.  (What is left of PutsReturn
\* is the fairness of the scheduler, and a reader that returns.)
THEOREM PutsEnd == Spec => [][\A p \in Puts : PutGoesOn(p)]_vars
<1>1. Base /\ Life /\ Ends /\ [Next]_vars => [\A p \in Puts : PutGoesOn(p)]_vars
  BY PutSteps
<1> QED
  BY <1>1, EndsInvariant, PTL DEF Spec

\* The conditions under which Close goes on, and what it waits for otherwise.
CloseCanGoOn ==
  \/ closePc = "janitor" /\ janitor = "stopped"
  \/ closePc = "files" /\ (closeFile = NoHandle \/ handle[closeFile] = "free")
  \/ closePc = "puts" /\ activePuts = 0
  \/ closePc = "remove"

WaitsForJanitor == closePc = "janitor" /\ janitor \in {"select", "sweep"}
WaitsForFile    == closePc = "files" /\ closeFile \in Handles /\ handle[closeFile] = "closing"
WaitsForPut     == closePc = "puts" /\ \E p \in Puts : pc[p] # "idle"

LEMMA CloseCan ==
  ASSUME Base, Life, Ends, closed, closePc # "done"
  PROVE  CloseCanGoOn \/ WaitsForJanitor \/ WaitsForFile \/ WaitsForPut
<1>1. closePc \in {"janitor", "files", "puts", "remove"}
  BY DEF Base, IInv, TypeOK, CloseStates, Life, Closing
<1>2. CASE closePc = "janitor"
  BY <1>2 DEF CloseCanGoOn, WaitsForJanitor, Base, IInv, TypeOK
<1>3. CASE closePc = "files"
  BY <1>3 DEF CloseCanGoOn, WaitsForFile, Base, IInv, TypeOK, HandleStates, Ends
<1>4. CASE closePc = "puts"
  <2>1. activePuts = Cardinality(Running)
    BY DEF Base, IInv, AccountingExact
  <2>2. Running = {} => activePuts = 0
    BY <2>1, FS_EmptySet
  <2> QED
    BY <1>4, <2>2 DEF CloseCanGoOn, WaitsForPut, Running
<1> QED
  BY <1>1, <1>2, <1>3, <1>4 DEF CloseCanGoOn

\* The steps Close has left: two for each handle of its snapshot, one for each of
\* its waits and critical sections.
CloseLeft ==
  2 * Cardinality(closeFiles) + (IF closeFile # NoHandle THEN 1 ELSE 0)
    + CASE closePc = "janitor" -> 4 [] closePc = "files" -> 3 [] closePc = "puts" -> 2
        [] closePc = "remove" -> 1 [] OTHER -> 0

\* What a step does for Close: each of its own is one less, nobody undoes one,
\* and what it waits for does not come back: the janitor that has stopped, a
\* handle that is released, a Put that has ended.
CloseGoesOn ==
  /\ CloseBegin => CloseLeft' = 2 * Cardinality(openFiles) + 4
  /\ closed => /\ closed'
               /\ CloseLeft' = IF CloseStep THEN CloseLeft - 1 ELSE CloseLeft
               /\ janitor = "stopped" => janitor' = "stopped"
               /\ \A h \in Handles : /\ handle[h] = "free" => handle'[h] = "free"
                                     /\ handle[h] = "closing" => handle'[h] # "open"
               /\ \A p \in Puts : pc[p] = "idle" => pc'[p] = "idle"

LEMMA OwnCloseStep ==
  ASSUME Base, Life, Ends, CloseStep
  PROVE  CloseLeft' = CloseLeft - 1
<1>0. /\ IsFiniteSet(closeFiles) /\ Cardinality(closeFiles) \in Nat
      /\ NoHandle \notin Handles /\ closeFiles \subseteq Handles
  BY BoundAssumption, FS_Subset, FS_CardinalityType DEF Base, IInv, TypeOK
<1>1. CASE CloseJanitorDone \/ CloseFileDone \/ CloseFilesDone \/ CloseForget
  BY <1>0, <1>1 DEF CloseJanitorDone, CloseFileDone, CloseFilesDone, CloseForget, CloseLeft
<1>2. ASSUME NEW h \in Handles, CloseNextFile(h) PROVE CloseLeft' = CloseLeft - 1
  <2>1. Cardinality(closeFiles') = Cardinality(closeFiles) - 1
    BY <1>0, <1>2, FS_RemoveElement DEF CloseNextFile
  <2>2. closeFile = NoHandle /\ closeFile' # NoHandle /\ closePc = "files" /\ closePc' = "files"
    BY <1>0, <1>2 DEF CloseNextFile
  <2> QED
    BY <1>0, <2>1, <2>2 DEF CloseLeft
<1>3. CASE CloseRemove
  BY <1>0, <1>3 DEF CloseRemove, CloseLeft
<1> QED
  BY <1>1, <1>2, <1>3 DEF CloseStep

LEMMA CloseSteps ==
  ASSUME Base, Life, Ends, Next
  PROVE  CloseGoesOn
<1>1. CloseBegin => CloseLeft' = 2 * Cardinality(openFiles) + 4
  <2>1. Cardinality(openFiles) \in Nat
    BY BoundAssumption, FS_Subset, FS_CardinalityType DEF Base, IInv, TypeOK
  <2> QED
    BY <2>1 DEF CloseBegin, CloseLeft, Ends
<1>2. ASSUME closed PROVE closed' /\ ~CloseBegin
  <2>1. ~CloseBegin
    BY <1>2 DEF CloseBegin, Life, Closing
  <2> QED
    BY <1>2, <2>1 DEF Next, PutStep, BeginPut, RefusePut, CreateTemp, FailCopy, ReserveChunk,
       WriteChunk, Stamp, Commit, RefuseCommit, RemoveTemp, AbortPut, FinishPut, PutFrame,
       Open, Lookup, Delete, CloseHandle, ReleaseOpen, HandleFrame, JanitorTick, JanitorSweep,
       JanitorStop, JanitorFrame, CloseStep, CloseJanitorDone, CloseNextFile, CloseFileDone,
       CloseFilesDone, CloseForget, CloseRemove, Tick, Terminated, vars
<1>3. ASSUME closed, ~CloseStep PROVE UNCHANGED <<closePc, closeFiles, closeFile>>
  BY <1>2, <1>3 DEF Next, PutStep, BeginPut, RefusePut, CreateTemp, FailCopy, ReserveChunk,
     WriteChunk, Stamp, Commit, RefuseCommit, RemoveTemp, AbortPut, FinishPut, PutFrame,
     Open, Lookup, Delete, CloseHandle, ReleaseOpen, HandleFrame, JanitorTick, JanitorSweep,
     JanitorStop, JanitorFrame, closeVars, Tick, Terminated, vars
<1>4. ASSUME closed
      PROVE  \A h \in Handles : /\ handle[h] = "free" => handle'[h] = "free"
                                /\ handle[h] = "closing" => handle'[h] # "open"
  BY <1>4 DEF Next, PutStep, BeginPut, RefusePut, CreateTemp, FailCopy, ReserveChunk,
     WriteChunk, Stamp, Commit, RefuseCommit, RemoveTemp, AbortPut, FinishPut, PutFrame,
     Open, Lookup, Delete, CloseHandle, ReleaseOpen, HandleFrame, JanitorTick, JanitorSweep,
     JanitorStop, JanitorFrame, handleVars, CloseBegin, CloseStep, CloseJanitorDone,
     CloseNextFile, CloseFileDone, CloseFilesDone, CloseForget, CloseRemove, Tick, Terminated,
     vars, Base, IInv, TypeOK
<1>5. janitor = "stopped" => janitor' = "stopped"
  BY DEF Next, PutStep, BeginPut, RefusePut, CreateTemp, FailCopy, ReserveChunk,
     WriteChunk, Stamp, Commit, RefuseCommit, RemoveTemp, AbortPut, FinishPut, PutFrame,
     Open, Lookup, Delete, CloseHandle, ReleaseOpen, HandleFrame, JanitorTick, JanitorSweep,
     JanitorStop, janitorVars, CloseBegin, CloseStep, CloseJanitorDone, CloseNextFile,
     CloseFileDone, CloseFilesDone, CloseForget, CloseRemove, CloseFrame, Tick, Terminated, vars
<1>6. ASSUME closed, NEW p \in Puts, pc[p] = "idle" PROVE pc'[p] = "idle"
  <2>1. ~BeginPut(p) /\ ~PutStep(p)
    BY <1>6 DEF BeginPut, PutStep, CreateTemp, FailCopy, ReserveChunk, WriteChunk, Stamp, Commit,
       RefuseCommit, RemoveTemp, AbortPut, FinishPut
  <2>2. ASSUME NEW q \in Puts \ {p}, BeginPut(q) \/ RefusePut(q) \/ PutStep(q)
        PROVE  pc'[p] = pc[p]
    BY <2>2 DEF PutStep, BeginPut, RefusePut, CreateTemp, FailCopy, ReserveChunk, WriteChunk,
       Stamp, Commit, RefuseCommit, RemoveTemp, AbortPut, FinishPut, putVars, Base, IInv, TypeOK
  <2>3. UNCHANGED putVars \/ \E q \in Puts \ {p} : BeginPut(q) \/ RefusePut(q) \/ PutStep(q)
    BY <2>1 DEF Next, RefusePut, Open, Lookup, Delete, CloseHandle, ReleaseOpen, HandleFrame,
       JanitorTick, JanitorSweep, JanitorStop, JanitorFrame, CloseBegin, CloseStep,
       CloseJanitorDone, CloseNextFile, CloseFileDone, CloseFilesDone, CloseForget, CloseRemove,
       CloseFrame, Tick, Terminated, vars
  <2> QED
    BY <1>6, <2>2, <2>3 DEF putVars
<1>7. closed => CloseLeft' = IF CloseStep THEN CloseLeft - 1 ELSE CloseLeft
  BY <1>3, OwnCloseStep DEF CloseLeft
<1> QED
  BY <1>1, <1>2, <1>4, <1>5, <1>6, <1>7 DEF CloseGoesOn

\* Close is never stuck: until it is done it has a step, or it waits for the
\* janitor, for a handle that is being closed or for a Put that runs; and it takes
\* two steps for each handle that was open and four more.  (What is left of
\* CloseReturns is the fairness of the scheduler and of the select.)
THEOREM CloseNeverStuck ==
  /\ Spec => [](closed /\ closePc # "done" =>
                  CloseCanGoOn \/ WaitsForJanitor \/ WaitsForFile \/ WaitsForPut)
  /\ Spec => [][CloseGoesOn]_vars
<1>1. Base /\ Life /\ Ends =>
        (closed /\ closePc # "done" =>
           CloseCanGoOn \/ WaitsForJanitor \/ WaitsForFile \/ WaitsForPut)
  BY CloseCan
<1>2. Base /\ Life /\ Ends /\ [Next]_vars => [CloseGoesOn]_vars
  BY CloseSteps
<1>3. Spec => [](closed /\ closePc # "done" =>
                  CloseCanGoOn \/ WaitsForJanitor \/ WaitsForFile \/ WaitsForPut)
  BY <1>1, EndsInvariant, PTL
<1>4. Spec => [][CloseGoesOn]_vars
  BY <1>2, EndsInvariant, PTL DEF Spec
<1> QED
  BY <1>3, <1>4
=============================================================================
