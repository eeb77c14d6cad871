----------------------------- MODULE WorkerPool -----------------------------
(***************************************************************************)
(* processDirectoryConcurrent (cmd/utils.go): the files that pass the      *)
(* filter are collected first, then fed through a bounded channel to a     *)
(* fixed number of workers; the caller closes the channel and waits.       *)
(***************************************************************************)
EXTENDS Naturals, FiniteSets, Sequences

CONSTANTS
    Files,      \* the files that pass the filter, in the order of the walk
    Workers,    \* runtime.NumCPU() goroutines
    Capacity    \* of pathsCh: twice the workers

ASSUME PoolAssumption ==
    /\ Files \in Seq(STRING) /\ IsFiniteSet(Workers) /\ Workers # {}
    /\ Capacity = 2 * Cardinality(Workers)

(* The walk comes to a file once; "idle" and "done" stand for no path.     *)
ASSUME WalkAssumption ==
    /\ \A j, k \in DOMAIN Files : Files[j] = Files[k] => j = k
    /\ \A k \in DOMAIN Files : Files[k] \notin {"idle", "done"}

VARIABLES
    main,       \* "feeding", "waiting" or "returned"
    fed,        \* how many paths the caller has sent
    channel,    \* pathsCh
    closed,     \* whether it is closed
    work,       \* what each worker has: a path, "idle" or "done"
    active,     \* wg's counter
    processed,  \* how often each path has been processed
    failures    \* the paths whose processor failed

vars == <<main, fed, channel, closed, work, active, processed, failures>>

Paths == {Files[k] : k \in DOMAIN Files}

Init ==
    /\ main = "feeding"
    /\ fed = 0
    /\ channel = <<>>
    /\ closed = FALSE
    /\ work = [w \in Workers |-> "idle"]
    /\ active = Cardinality(Workers)
    /\ processed = [p \in Paths |-> 0]
    /\ failures = {}

(* A send of the caller, which waits while the channel is full.            *)
Feed ==
    /\ main = "feeding"
    /\ fed < Len(Files)
    /\ Len(channel) < Capacity
    /\ channel' = Append(channel, Files[fed + 1])
    /\ fed' = fed + 1
    /\ UNCHANGED <<main, closed, work, active, processed, failures>>

(* close(pathsCh), then wg.Wait.  (Mutant: the channel stays open.)        *)
FedAllUnclosed ==
    /\ main = "feeding"
    /\ fed = Len(Files)
    /\ main' = "waiting"
    /\ UNCHANGED <<fed, channel, closed, work, active, processed, failures>>

FedAll ==
    /\ main = "feeding"
    /\ fed = Len(Files)
    /\ closed' = TRUE
    /\ main' = "waiting"
    /\ UNCHANGED <<fed, channel, work, active, processed, failures>>

(* The range of a worker receives; it ends when the channel is closed and  *)
(* empty.  (Mutant: it ends as soon as the channel is closed.)             *)
Receive(w) ==
    /\ work[w] = "idle"
    /\ channel # <<>>
    /\ work' = [work EXCEPT ![w] = Head(channel)]
    /\ channel' = Tail(channel)
    /\ UNCHANGED <<main, fed, closed, active, processed, failures>>

EndsWhenClosed(w) == work[w] = "idle" /\ closed

Ends(w) == work[w] = "idle" /\ closed /\ channel = <<>>

Finish(w) ==
    /\ Ends(w)
    /\ work' = [work EXCEPT ![w] = "done"]
    /\ active' = active - 1
    /\ UNCHANGED <<main, fed, channel, closed, processed, failures>>

(* The processor returns: an error is printed and the worker goes on.      *)
AfterError(w) == [work EXCEPT ![w] = "idle"]

Process(w) ==
    /\ work[w] \in Paths
    /\ processed' = [processed EXCEPT ![work[w]] = @ + 1]
    /\ \/ work' = [work EXCEPT ![w] = "idle"] /\ UNCHANGED failures
       \/ work' = AfterError(w) /\ failures' = failures \cup {work[w]}
    /\ UNCHANGED <<main, fed, channel, closed, active>>

(* wg.Wait returns when the counter is at zero.                            *)
Return ==
    /\ main = "waiting"
    /\ active = 0
    /\ main' = "returned"
    /\ UNCHANGED <<fed, channel, closed, work, active, processed, failures>>

MainStep == Feed \/ FedAll \/ Return

WorkerStep(w) == Receive(w) \/ Finish(w) \/ Process(w)

Next == MainStep \/ \E w \in Workers : WorkerStep(w)

Spec == Init /\ [][Next]_vars

(* Go runs every goroutine that can run.                                   *)
FairSpec == Spec /\ WF_vars(MainStep) /\ \A w \in Workers : WF_vars(WorkerStep(w))

-----------------------------------------------------------------------------
TypeOK ==
    /\ main \in {"feeding", "waiting", "returned"}
    /\ fed \in 0..Len(Files)
    /\ channel \in Seq(Paths) /\ Len(channel) <= Capacity
    /\ closed \in BOOLEAN
    /\ work \in [Workers -> Paths \cup {"idle", "done"}]
    /\ active \in Nat
    /\ processed \in [Paths -> Nat]
    /\ failures \subseteq Paths

(* No path is lost between the caller, the channel and the workers, and    *)
(* none is taken twice: when the call returns every file that passed the   *)
(* filter was processed once, those after a failing one too.               *)
EachFileOnce ==
    /\ \A p \in Paths : processed[p] <= 1
    /\ main = "returned" => \A p \in Paths : processed[p] = 1

(* The call returns although the caller waits for room in the channel, the *)
(* workers for paths and the caller for the workers.                       *)
PoolReturns == <>(main = "returned")
=============================================================================
