-------------------------- MODULE WorkerPoolProofs --------------------------
(***************************************************************************)
(* Every file once, for any number of files and workers.  The argument:    *)
(* the channel is the stretch of the walk that was fed and not yet taken   *)
(* (ChannelIsStretch), so the position of a file in the walk says where it *)
(* is: behind the stretch, in it, or taken; and what was taken is with one *)
(* worker or was processed once (Placed).  A worker ends only behind an    *)
(* empty, closed channel (Ending), and the counter the caller waits for    *)
(* says how many have not (Counted).                                       *)
(***************************************************************************)
EXTENDS WorkerPool, FiniteSetTheorems, TLAPS

Taken == fed - Len(channel)

ChannelIsStretch ==
    /\ Len(channel) <= fed
    /\ \A i \in 1..Len(channel) : channel[i] = Files[Taken + i]

Unseen(p) == processed[p] = 0 /\ \A w \in Workers : work[w] # p
InHand(p) ==
    /\ processed[p] = 0
    /\ \E w \in Workers : work[w] = p
    /\ \A v, w \in Workers : work[v] = p /\ work[w] = p => v = w
Over(p) == processed[p] = 1 /\ \A w \in Workers : work[w] # p

Placed ==
    \A k \in DOMAIN Files :
        IF k > Taken THEN Unseen(Files[k]) ELSE InHand(Files[k]) \/ Over(Files[k])

Busy == {w \in Workers : work[w] # "done"}

Ending ==
    /\ main # "feeding" => closed /\ fed = Len(Files)
    /\ closed => main # "feeding"
    /\ \A w \in Workers : work[w] = "done" => closed /\ channel = <<>>
    /\ main = "returned" => active = 0

Counted == active = Cardinality(Busy)

PoolInv == TypeOK /\ ChannelIsStretch /\ Placed /\ Ending /\ Counted

-----------------------------------------------------------------------------
(* A step that leaves a path's count and holders alone leaves it where it  *)
(* is (the three places are stated over them).                             *)
LEMMA PlaceKept ==
    ASSUME TypeOK, NEW p \in Paths, processed'[p] = processed[p],
           \A w \in Workers : work'[w] = p <=> work[w] = p
    PROVE  /\ Unseen(p) => Unseen(p)'
           /\ InHand(p) => InHand(p)'
           /\ Over(p) => Over(p)'
BY DEF Unseen, InHand, Over

LEMMA PoolInit == Init => PoolInv
<1> SUFFICES ASSUME Init PROVE PoolInv
    OBVIOUS
<1> USE PoolAssumption, WalkAssumption DEF Init
<1>1. Cardinality(Workers) \in Nat /\ Capacity \in Nat /\ Len(Files) \in Nat
    BY FS_CardinalityType
<1>2. Busy = Workers
    BY DEF Busy
<1>3. TypeOK
    <2>1. channel \in Seq(Paths) /\ Len(channel) = 0
        OBVIOUS
    <2>2. work \in [Workers -> Paths \cup {"idle", "done"}]
        OBVIOUS
    <2>3. fed \in 0..Len(Files) /\ Len(channel) <= Capacity
        BY <1>1, <2>1
    <2> QED
        BY <1>1, <2>1, <2>2, <2>3 DEF TypeOK
<1>4. ChannelIsStretch
    BY DEF ChannelIsStretch, Taken
<1>5. Placed
    <2> SUFFICES ASSUME NEW k \in DOMAIN Files PROVE k > Taken /\ Unseen(Files[k])
        BY DEF Placed
    <2>1. k > Taken
        BY DEF Taken
    <2> QED
        BY <2>1 DEF Unseen, Paths
<1>6. Ending
    BY DEF Ending
<1> QED
    BY <1>2, <1>3, <1>4, <1>5, <1>6 DEF PoolInv, Counted

(* Busy is finite, and loses its one member when a worker ends.            *)
LEMMA BusyFinite == IsFiniteSet(Busy)
BY PoolAssumption, FS_Subset DEF Busy

(* A send: the stretch grows at its end.                                   *)
LEMMA FeedKeeps == ASSUME PoolInv, Feed PROVE PoolInv'
<1> USE PoolAssumption, WalkAssumption DEF PoolInv, Feed
<1>1. Cardinality(Workers) \in Nat
    BY FS_CardinalityType
<1>2. fed + 1 \in DOMAIN Files /\ Files[fed + 1] \in Paths
    BY DEF TypeOK, Paths
<1>3. TypeOK'
    BY <1>1, <1>2 DEF TypeOK
<1>4. Len(channel') = Len(channel) + 1 /\ Taken' = Taken
    BY <1>2 DEF TypeOK, Taken
<1>5. ChannelIsStretch'
    BY <1>2, <1>4 DEF TypeOK, ChannelIsStretch, Taken
<1>6. Placed'
    BY <1>4 DEF Placed, Unseen, InHand, Over
<1>7. Ending'
    BY <1>2 DEF Ending, TypeOK
<1> QED
    BY <1>3, <1>5, <1>6, <1>7 DEF Counted, Busy

LEMMA FedAllKeeps == ASSUME PoolInv, FedAll PROVE PoolInv'
BY DEF PoolInv, FedAll, TypeOK, ChannelIsStretch, Taken, Placed, Unseen,
       InHand, Over, Ending, Counted, Busy

(* A receive: the first of the stretch, which nobody had, is in one hand.  *)
LEMMA ReceiveKeeps == ASSUME PoolInv, NEW w \in Workers, Receive(w) PROVE PoolInv'
<1> USE PoolAssumption, WalkAssumption DEF PoolInv, Receive
<1>a. Len(channel) > 0 /\ Taken + 1 \in DOMAIN Files /\ Head(channel) = Files[Taken + 1]
    <2>1. Len(channel) \in Nat /\ Len(channel) > 0 /\ Head(channel) = channel[1]
        BY DEF TypeOK
    <2>2. Taken + 1 \in 1..Len(Files)
        BY <2>1 DEF TypeOK, ChannelIsStretch, Taken
    <2>3. channel[1] = Files[Taken + 1]
        BY <2>1 DEF ChannelIsStretch
    <2> QED
        BY <2>1, <2>2, <2>3
<1>b. PICK k \in DOMAIN Files : k = Taken + 1
    BY <1>a
<1> DEFINE p == Files[k]
<1>1. /\ Len(channel) > 0
      /\ p \in Paths /\ p \notin {"idle", "done"}
      /\ Head(channel) = p
    BY <1>a, <1>b DEF Paths
<1>2. Len(channel') = Len(channel) - 1 /\ Taken' = Taken + 1
    BY <1>1 DEF TypeOK, Taken
<1>3. TypeOK'
    BY <1>1, <1>2 DEF TypeOK
<1>4. ChannelIsStretch'
    <2> SUFFICES ASSUME NEW i \in 1..Len(channel') PROVE channel'[i] = Files[Taken' + i]
        BY <1>1, <1>2 DEF ChannelIsStretch, TypeOK
    <2>1. channel'[i] = channel[i + 1] /\ i + 1 \in 1..Len(channel)
        BY <1>1, <1>2 DEF TypeOK
    <2> QED
        BY <2>1, <1>2 DEF ChannelIsStretch, TypeOK, Taken
<1>5. Placed'
    <2> SUFFICES ASSUME NEW j \in DOMAIN Files
                 PROVE IF j > Taken' THEN Unseen(Files[j])' ELSE InHand(Files[j])' \/ Over(Files[j])'
        BY DEF Placed
    <2>1. CASE j = k
        <3>1. Unseen(p) /\ ~(j > Taken')
            BY <1>b, <1>1, <1>2, <2>1 DEF Placed, TypeOK, Taken
        <3>2. InHand(p)'
            BY <1>1, <3>1 DEF Unseen, InHand, TypeOK
        <3> QED
            BY <2>1, <3>1, <3>2
    <2>2. CASE j # k
        <3>1. Files[j] \in Paths /\ Files[j] # p
            BY <1>1, <2>2 DEF Paths
        <3>2. \A v \in Workers : work'[v] = Files[j] <=> work[v] = Files[j]
            BY <1>1, <3>1 DEF TypeOK
        <3>3. j > Taken' <=> j > Taken
            BY <1>b, <1>2, <2>2 DEF TypeOK, Taken
        <3> QED
            BY <3>1, <3>2, <3>3, PlaceKept DEF Placed
    <2> QED
        BY <2>1, <2>2
<1>6. Ending'
    BY <1>1 DEF Ending, TypeOK
<1>7. Busy' = Busy
    BY <1>1 DEF Busy, TypeOK
<1> QED
    BY <1>3, <1>4, <1>5, <1>6, <1>7 DEF Counted

(* A worker ends: one fewer is counted, and the channel was empty.         *)
LEMMA FinishKeeps == ASSUME PoolInv, NEW w \in Workers, Finish(w) PROVE PoolInv'
<1> USE PoolAssumption, WalkAssumption DEF PoolInv, Finish, Ends
<1>1. w \in Busy /\ Busy' = Busy \ {w}
    BY DEF Busy, TypeOK
<1>2. Cardinality(Busy') = Cardinality(Busy) - 1 /\ Cardinality(Busy') \in Nat
    BY <1>1, BusyFinite, FS_RemoveElement, FS_CardinalityType
<1>3. TypeOK'
    BY <1>2 DEF TypeOK, Counted
<1>4. ChannelIsStretch'
    BY DEF ChannelIsStretch, Taken
<1>5. Placed'
    <2> SUFFICES ASSUME NEW j \in DOMAIN Files
                 PROVE IF j > Taken' THEN Unseen(Files[j])' ELSE InHand(Files[j])' \/ Over(Files[j])'
        BY DEF Placed
    <2>1. Files[j] \in Paths /\ \A v \in Workers : work'[v] = Files[j] <=> work[v] = Files[j]
        BY DEF TypeOK, Paths
    <2> QED
        BY <2>1, PlaceKept DEF Placed, Taken
<1>6. Ending'
    BY <1>1, <1>2, BusyFinite, FS_EmptySet DEF Ending, TypeOK, Counted
<1> QED
    BY <1>2, <1>3, <1>4, <1>5, <1>6 DEF Counted

(* A processor returns, with an error or without: what was in one hand has *)
(* been processed once.                                                    *)
LEMMA ProcessKeeps == ASSUME PoolInv, NEW w \in Workers, Process(w) PROVE PoolInv'
<1> USE PoolAssumption, WalkAssumption DEF PoolInv, Process, AfterError
<1>2. PICK k \in DOMAIN Files : Files[k] = work[w]
    BY DEF Paths
<1> DEFINE p == Files[k]
<1>1. /\ p \in Paths /\ work[w] = p
      /\ processed' = [processed EXCEPT ![p] = @ + 1]
      /\ work' = [work EXCEPT ![w] = "idle"]
    BY <1>2
<1>3. p \notin {"idle", "done"}
    BY <1>2
<1>4. ~(k > Taken) /\ InHand(p)
    BY <1>1, <1>2 DEF Placed, Unseen, Over, TypeOK, Taken
<1>5. TypeOK'
    BY <1>1 DEF TypeOK
<1>6. Placed'
    <2> SUFFICES ASSUME NEW j \in DOMAIN Files
                 PROVE IF j > Taken' THEN Unseen(Files[j])' ELSE InHand(Files[j])' \/ Over(Files[j])'
        BY DEF Placed
    <2>1. CASE j = k
        <3>1. Over(p)'
            BY <1>1, <1>3, <1>4 DEF Over, InHand, TypeOK
        <3>2. Taken' = Taken
            BY DEF Taken
        <3> QED
            BY <1>4, <2>1, <3>1, <3>2
    <2>2. CASE j # k
        <3>1. Files[j] \in Paths /\ Files[j] # p /\ Files[j] # "idle"
            BY <1>2, <2>2 DEF Paths
        <3>2. \A v \in Workers : work'[v] = Files[j] <=> work[v] = Files[j]
            BY <1>1, <3>1 DEF TypeOK
        <3>3. processed'[Files[j]] = processed[Files[j]]
            BY <1>1, <3>1 DEF TypeOK
        <3> QED
            BY <3>1, <3>2, <3>3, PlaceKept DEF Placed, Taken
    <2> QED
        BY <2>1, <2>2
<1>7. Busy' = Busy
    BY <1>1, <1>3 DEF Busy, TypeOK
<1> QED
    BY <1>1, <1>5, <1>6, <1>7 DEF ChannelIsStretch, Taken, Ending, Counted, TypeOK

LEMMA ReturnKeeps == ASSUME PoolInv, Return PROVE PoolInv'
BY DEF PoolInv, Return, TypeOK, ChannelIsStretch, Taken, Placed, Unseen,
       InHand, Over, Ending, Counted, Busy

LEMMA PoolNext == PoolInv /\ [Next]_vars => PoolInv'
<1> SUFFICES ASSUME PoolInv, [Next]_vars PROVE PoolInv'
    OBVIOUS
<1>1. CASE UNCHANGED vars
    BY <1>1 DEF vars, PoolInv, TypeOK, ChannelIsStretch, Taken, Placed, Unseen,
                InHand, Over, Ending, Counted, Busy
<1>2. CASE MainStep
    BY <1>2, FeedKeeps, FedAllKeeps, ReturnKeeps DEF MainStep
<1>3. ASSUME NEW w \in Workers, WorkerStep(w) PROVE PoolInv'
    BY <1>3, ReceiveKeeps, FinishKeeps, ProcessKeeps DEF WorkerStep
<1> QED
    BY <1>1, <1>2, <1>3 DEF Next

(* When the caller returns nobody is busy, so somebody has ended: the      *)
(* channel is empty, everything was taken, and nothing is in a hand.       *)
LEMMA PoolImpliesOnce == PoolInv => EachFileOnce
<1> SUFFICES ASSUME PoolInv PROVE EachFileOnce
    OBVIOUS
<1> USE PoolAssumption DEF PoolInv
<1>1. \A p \in Paths : processed[p] <= 1
    <2> SUFFICES ASSUME NEW k \in DOMAIN Files PROVE processed[Files[k]] <= 1
        BY DEF Paths
    <2> QED
        BY DEF Placed, Unseen, InHand, Over
<1>2. ASSUME main = "returned", NEW k \in DOMAIN Files PROVE processed[Files[k]] = 1
    <2>1. Busy = {}
        BY <1>2, BusyFinite, FS_EmptySet DEF Ending, Counted
    <2>2. \A w \in Workers : work[w] = "done"
        BY <2>1 DEF Busy
    <2>3. channel = <<>> /\ fed = Len(Files)
        BY <1>2, <2>2 DEF Ending
    <2>4. ~(k > Taken)
        BY <2>3 DEF Taken, TypeOK
    <2>5. Files[k] # "done"
        BY WalkAssumption
    <2> QED
        BY <2>2, <2>4, <2>5 DEF Placed, InHand, Over
<1> QED
    BY <1>1, <1>2 DEF EachFileOnce, Paths

-----------------------------------------------------------------------------
(* The state of the pool has its types, among them that the channel never  *)
(* holds more than its capacity.                                           *)
THEOREM TypeCorrect == Spec => []TypeOK
<1>1. PoolInv => TypeOK
    BY DEF PoolInv
<1> QED
    BY <1>1, PoolInit, PoolNext, PTL DEF Spec

(* processDirectoryConcurrent processes every file that passed the filter  *)
(* exactly once before it returns, whatever fails on the way.              *)
THEOREM FilesOnce == Spec => []EachFileOnce
BY PoolInit, PoolNext, PoolImpliesOnce, PTL DEF Spec

-----------------------------------------------------------------------------
(* How long the pool runs.  What is left to do: a file is sent, received   *)
(* and processed, a worker ends once, and the caller closes the channel    *)
(* and returns.                                                            *)
InHands == {w \in Workers : work[w] \in Paths}

StepsLeft ==
    3 * (Len(Files) - fed) + 2 * Len(channel) + Cardinality(InHands) + active
      + (IF main = "feeding" THEN 2 ELSE IF main = "waiting" THEN 1 ELSE 0)

(* The conditions of the steps, one by one.                                *)
CallerCanGoOn ==
    \/ main = "feeding" /\ fed < Len(Files) /\ Len(channel) < Capacity
    \/ main = "feeding" /\ fed = Len(Files)
    \/ main = "waiting" /\ active = 0

WorkerCanGoOn(w) ==
    \/ work[w] = "idle" /\ channel # <<>>
    \/ Ends(w)
    \/ work[w] \in Paths

LEMMA CardinalitiesAre ==
    ASSUME PoolInv
    PROVE  /\ IsFiniteSet(InHands) /\ Cardinality(InHands) \in Nat
           /\ Len(channel) \in Nat /\ Len(Files) \in Nat /\ fed \in 0..Len(Files)
           /\ active \in Nat
<1>1. IsFiniteSet(InHands)
    BY PoolAssumption, FS_Subset DEF InHands
<1> QED
    BY <1>1, FS_CardinalityType, PoolAssumption DEF PoolInv, TypeOK

(* Nobody has work in hand who has not taken it, and everybody keeps his.  *)
LEMMA HandsKept == ASSUME work' = work PROVE InHands' = InHands
BY DEF InHands, Paths

LEMMA HandFilled ==
    ASSUME PoolInv, NEW w \in Workers, Receive(w)
    PROVE  Cardinality(InHands') = Cardinality(InHands) + 1
<1> USE WalkAssumption DEF PoolInv, TypeOK, Receive
<1>1. Head(channel) \in Paths
    OBVIOUS
<1>2. "idle" \notin Paths
    BY DEF Paths
<1>3. w \notin InHands /\ InHands' = InHands \cup {w}
    BY <1>1, <1>2 DEF InHands, Paths
<1> QED
    BY <1>3, CardinalitiesAre, FS_AddElement

LEMMA HandEmptied ==
    ASSUME PoolInv, NEW w \in Workers, Process(w)
    PROVE  Cardinality(InHands') = Cardinality(InHands) - 1
<1> USE WalkAssumption DEF PoolInv, TypeOK, Process, AfterError
<1>1. "idle" \notin Paths
    BY DEF Paths
<1>2. w \in InHands /\ InHands' = InHands \ {w}
    BY <1>1 DEF InHands, Paths
<1> QED
    BY <1>2, CardinalitiesAre, FS_RemoveElement

LEMMA EachStepCounts == ASSUME PoolInv, Next PROVE StepsLeft' = StepsLeft - 1
<1> USE DEF StepsLeft
<1>0. /\ Cardinality(InHands) \in Nat /\ Len(channel) \in Nat /\ Len(Files) \in Nat
      /\ fed \in Nat /\ active \in Nat
    BY CardinalitiesAre
<1>1. CASE Feed
    <2>1. Len(channel') = Len(channel) + 1
        BY <1>1 DEF Feed, PoolInv, TypeOK, Paths
    <2>2. InHands' = InHands
        BY <1>1, HandsKept DEF Feed
    <2> QED
        BY <1>0, <1>1, <2>1, <2>2 DEF Feed
<1>2. CASE FedAll
    <2>1. InHands' = InHands
        BY <1>2, HandsKept DEF FedAll
    <2> QED
        BY <1>0, <1>2, <2>1 DEF FedAll
<1>3. CASE Return
    <2>1. InHands' = InHands
        BY <1>3, HandsKept DEF Return
    <2> QED
        BY <1>0, <1>3, <2>1 DEF Return
<1>4. ASSUME NEW w \in Workers, Receive(w) PROVE StepsLeft' = StepsLeft - 1
    <2>1. Len(channel') = Len(channel) - 1
        BY <1>4 DEF Receive, PoolInv, TypeOK
    <2>2. Cardinality(InHands') = Cardinality(InHands) + 1
        BY <1>4, HandFilled
    <2> QED
        BY <1>0, <1>4, <2>1, <2>2 DEF Receive
<1>5. ASSUME NEW w \in Workers, Finish(w) PROVE StepsLeft' = StepsLeft - 1
    <2>1. InHands' = InHands
        BY <1>5, WalkAssumption DEF Finish, Ends, InHands, Paths, PoolInv, TypeOK
    <2> QED
        BY <1>0, <1>5, <2>1 DEF Finish
<1>6. ASSUME NEW w \in Workers, Process(w) PROVE StepsLeft' = StepsLeft - 1
    <2>1. Cardinality(InHands') = Cardinality(InHands) - 1
        BY <1>6, HandEmptied
    <2> QED
        BY <1>0, <1>6, <2>1 DEF Process
<1> QED
    BY <1>1, <1>2, <1>3, <1>4, <1>5, <1>6 DEF Next, MainStep, WorkerStep

LEMMA StepsAtStart == Init => StepsLeft = 3 * Len(Files) + Cardinality(Workers) + 2
<1> SUFFICES ASSUME Init PROVE StepsLeft = 3 * Len(Files) + Cardinality(Workers) + 2
    OBVIOUS
<1>1. InHands = {}
    BY WalkAssumption DEF Init, InHands, Paths
<1> QED
    BY <1>1, FS_EmptySet, FS_CardinalityType, PoolAssumption DEF Init, StepsLeft

LEMMA NobodyStuck ==
    ASSUME PoolInv, main # "returned"
    PROVE  CallerCanGoOn \/ \E w \in Workers : WorkerCanGoOn(w)
<1> SUFFICES ASSUME ~CallerCanGoOn PROVE \E w \in Workers : WorkerCanGoOn(w)
    OBVIOUS
<1> USE CardinalitiesAre DEF PoolInv
<1>1. CASE main = "feeding"
    <2>1. Len(channel) >= Capacity /\ Capacity > 0
        <3>1. Cardinality(Workers) \in Nat /\ Cardinality(Workers) # 0
            BY PoolAssumption, FS_CardinalityType, FS_EmptySet
        <3> QED
            BY <1>1, <3>1, PoolAssumption DEF CallerCanGoOn, TypeOK
    <2>2. channel # <<>>
        BY <2>1, PoolAssumption, FS_CardinalityType DEF TypeOK
    <2>3. PICK w \in Workers : TRUE
        BY PoolAssumption
    <2>4. work[w] # "done"
        BY <2>2 DEF Ending
    <2> QED
        BY <2>2, <2>4 DEF WorkerCanGoOn, TypeOK
<1>2. CASE main = "waiting"
    <2>1. Busy # {}
        BY <1>2, BusyFinite, FS_EmptySet DEF CallerCanGoOn, Counted
    <2>2. PICK w \in Workers : work[w] # "done"
        BY <2>1 DEF Busy
    <2>3. closed
        BY <1>2 DEF Ending
    <2> QED
        BY <2>2, <2>3 DEF WorkerCanGoOn, Ends, TypeOK
<1> QED
    BY <1>1, <1>2 DEF TypeOK

LEMMA OverAtZero == ASSUME PoolInv PROVE main = "returned" <=> StepsLeft = 0
<1> USE CardinalitiesAre DEF PoolInv
<1>1. StepsLeft = 0 => main = "returned"
    BY DEF StepsLeft, TypeOK
<1>2. ASSUME main = "returned" PROVE StepsLeft = 0
    <2>1. Busy = {}
        BY <1>2, BusyFinite, FS_EmptySet DEF Ending, Counted
    <2>2. InHands = {}
        BY <2>1, WalkAssumption DEF Busy, InHands, Paths
    <2>3. channel = <<>>
        BY <2>1, PoolAssumption DEF Busy, Ending
    <2> QED
        BY <1>2, <2>2, <2>3, FS_EmptySet DEF StepsLeft, Ending
<1> QED
    BY <1>1, <1>2

(* A pool neither hangs nor runs on: whoever runs when, the call returns   *)
(* after three steps for each file, one for each worker and two of its     *)
(* own, since each of them lowers what is left by one, somebody can take   *)
(* one until it has returned, and it has returned when nothing is left.    *)
THEOREM PoolEnds ==
    /\ Init => StepsLeft = 3 * Len(Files) + Cardinality(Workers) + 2
    /\ Spec => [][StepsLeft' = StepsLeft - 1]_vars
    /\ Spec => [](main = "returned" <=> StepsLeft = 0)
    /\ Spec => [](main # "returned" => CallerCanGoOn \/ \E w \in Workers : WorkerCanGoOn(w))
<1>1. PoolInv /\ [Next]_vars => [StepsLeft' = StepsLeft - 1]_vars
    BY EachStepCounts
<1>2. PoolInv => (main = "returned" <=> StepsLeft = 0)
    BY OverAtZero
<1>3. PoolInv => (main # "returned" => CallerCanGoOn \/ \E w \in Workers : WorkerCanGoOn(w))
    BY NobodyStuck
<1>4. Spec => []PoolInv
    BY PoolInit, PoolNext, PTL DEF Spec
<1>5. Spec => [][StepsLeft' = StepsLeft - 1]_vars
    BY <1>1, <1>4, PTL DEF Spec
<1>6. Spec => [](main = "returned" <=> StepsLeft = 0)
    BY <1>2, <1>4, PTL
<1>7. Spec => [](main # "returned" => CallerCanGoOn \/ \E w \in Workers : WorkerCanGoOn(w))
    BY <1>3, <1>4, PTL
<1> QED
    BY <1>5, <1>6, <1>7, StepsAtStart
=============================================================================
