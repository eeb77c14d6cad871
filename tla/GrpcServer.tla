----------------------------- MODULE GrpcServer -----------------------------
(***************************************************************************)
(* The gRPC server at work and on its way down (transport/grpcserver/      *)
(* server.go, cmd/grpc.go).  A call that converts looks its input blob up  *)
(* when it resolves it and opens it later, produces an artifact and        *)
(* captures it file by file, inline or as blobs; the blobs stored so far   *)
(* are deleted when a later file cannot be stored.  Upload streams hold a  *)
(* Put open for as long as their client sends, Download streams last as    *)
(* long as theirs reads.  A signal drains the server; a deadline cuts the  *)
(* connections; the store closes when Serve has returned, while handlers   *)
(* may still run; and the process is gone.  The store is seen as a client  *)
(* sees it: its blobs may expire or be deleted at any time and its Put may *)
(* be refused or fail.  Its insides are BlobStore.                         *)
(***************************************************************************)
EXTENDS Integers, Sequences, FiniteSets

CONSTANTS
    Calls,      \* the RPCs that convert
    Uploads,    \* the upload streams
    Downloads,  \* the download streams
    Ids,        \* blob IDs
    Artifacts,  \* what a conversion may produce: the sizes of the primary and
                \* of its attachments, as a sequence
    MaxInline,  \* s.maxInlineBytes
    MaxBlobs,   \* the places of the store
    MaxFaults,  \* bound: removals that fail
    None

ASSUME CaptureAssumption ==
    MaxInline \in Nat /\ MaxBlobs \in Nat /\ MaxFaults \in Nat

ASSUME FilesAssumption ==
    Artifacts \subseteq Seq(Nat) /\ "inline" \notin Ids

VARIABLES
    pc,         \* where each call is
    input,      \* the blob it reads, or None for inline data
    artifact,   \* what it has produced
    prefer,     \* prefer_blob of its request
    parts,      \* the locations captured so far: an ID or "inline"
    remaining,  \* inlineRemaining
    created,    \* createdBlobs, in order
    stored,     \* the blobs in the store
    used,       \* the IDs ever given: random ones never come back
    faults,     \* removals that have failed
    stream,     \* each stream: "start", "accepted", "open" or "ended"
    main,       \* RunE: "serving", "closing", "waiting" or "exited"
    stopper,    \* the goroutine that stops the server: "idle", "signalled",
                \* "draining", "stopped" or "drained"
    closed      \* closed of the store

callVars == <<pc, input, artifact, prefer, parts, remaining, created>>
storeVars == <<stored, used, faults>>
stopVars == <<main, stopper, closed>>
vars == <<callVars, storeVars, stream, stopVars>>

Streams == Uploads \cup Downloads

TypeOK ==
    /\ pc \in [Calls -> {"start", "resolved", "capturing", "cleanup", "returned", "failed"}]
    /\ input \in [Calls -> Ids \cup {None}]
    /\ artifact \in [Calls -> Seq(Nat)]
    /\ prefer \in [Calls -> BOOLEAN]
    /\ parts \in [Calls -> Seq(Ids \cup {"inline"})]
    /\ remaining \in [Calls -> Nat]
    /\ created \in [Calls -> Seq(Ids)]
    /\ stored \subseteq used /\ used \subseteq Ids /\ IsFiniteSet(stored)
    /\ faults \in Nat
    /\ stream \in [Streams -> {"start", "accepted", "open", "ended"}]
    /\ main \in {"serving", "closing", "waiting", "exited"}
    /\ stopper \in {"idle", "signalled", "draining", "stopped", "drained"}
    /\ closed \in BOOLEAN

Init ==
    /\ pc = [c \in Calls |-> "start"]
    /\ input = [c \in Calls |-> None]
    /\ artifact = [c \in Calls |-> <<>>]
    /\ prefer \in [Calls -> BOOLEAN]
    /\ parts = [c \in Calls |-> <<>>]
    /\ remaining = [c \in Calls |-> MaxInline]
    /\ created = [c \in Calls |-> <<>>]
    /\ stored = {}
    /\ used = {}
    /\ faults = 0
    /\ stream = [u \in Streams |-> "start"]
    /\ main = "serving"
    /\ stopper = "idle"
    /\ closed = FALSE

(* A handler runs until the process is gone; a request is accepted until   *)
(* the server is told to stop.                                             *)
Running == main # "exited"
Accepting == Running /\ stopper \in {"idle", "signalled"}

Goto(c, where) == pc' = [pc EXCEPT ![c] = where]
Room == ~closed /\ Cardinality(stored) < MaxBlobs /\ Ids # used

(* A random ID; which of the unused ones it is makes no difference.        *)
NewId == CHOOSE i \in Ids : i \notin used

-----------------------------------------------------------------------------
(* A conversion.                                                           *)

(* resolveInput: Metadata finds the blob, or the call is refused.          *)
Resolve(c) ==
    /\ Accepting
    /\ pc[c] = "start"
    /\ \E i \in used \cup {None} :
          IF i = None \/ (i \in stored /\ ~closed)
          THEN input' = [input EXCEPT ![c] = i] /\ Goto(c, "resolved")
          ELSE UNCHANGED input /\ Goto(c, "failed")
    /\ UNCHANGED <<artifact, prefer, parts, remaining, created, storeVars,
                   stream, stopVars>>

(* The engine opens the source, which may have gone since, and produces an *)
(* artifact that verifyArtifactOutput accepts, or fails.                   *)
Produce(c) ==
    /\ Running
    /\ pc[c] = "resolved"
    /\ \/ /\ input[c] # None => input[c] \in stored /\ ~closed
          /\ \E a \in Artifacts : artifact' = [artifact EXCEPT ![c] = a]
          /\ Goto(c, "capturing")
       \/ UNCHANGED artifact /\ Goto(c, "failed")
    /\ UNCHANGED <<input, prefer, parts, remaining, created, storeVars, stream,
                   stopVars>>

(* The file to capture next, and whether it goes into the response.        *)
(* (Mutant: each file is compared with the whole limit.)                   *)
Size(c) == artifact[c][Len(parts[c]) + 1]

InlineByItself(c) == ~prefer[c] /\ Size(c) <= MaxInline

Inline(c) == ~prefer[c] /\ Size(c) <= remaining[c]

Capturing(c) ==
    Running /\ pc[c] = "capturing" /\ Len(parts[c]) < Len(artifact[c])

CaptureInline(c) ==
    /\ Capturing(c)
    /\ Inline(c)
    /\ remaining' = [remaining EXCEPT ![c] = @ - Size(c)]
    /\ parts' = [parts EXCEPT ![c] = Append(@, "inline")]
    /\ UNCHANGED <<pc, input, artifact, prefer, created, storeVars, stream,
                   stopVars>>

CaptureBlob(c) ==
    /\ Capturing(c)
    /\ ~Inline(c)
    /\ Room
    /\ stored' = stored \cup {NewId}
    /\ used' = used \cup {NewId}
    /\ created' = [created EXCEPT ![c] = Append(@, NewId)]
    /\ parts' = [parts EXCEPT ![c] = Append(@, NewId)]
    /\ UNCHANGED <<pc, input, artifact, prefer, remaining, faults, stream,
                   stopVars>>

(* A Put is refused, cancelled or fails: what was stored is cleaned up.    *)
(* (Mutants: the error is returned at once; the call waits for room.)      *)
PutFailsAtOnce(c) ==
    /\ Capturing(c)
    /\ ~Inline(c)
    /\ Goto(c, "failed")
    /\ UNCHANGED <<input, artifact, prefer, parts, remaining, created,
                   storeVars, stream, stopVars>>

PutWaits(c) == FALSE

PutFails(c) ==
    /\ Capturing(c)
    /\ ~Inline(c)
    /\ Goto(c, "cleanup")
    /\ UNCHANGED <<input, artifact, prefer, parts, remaining, created,
                   storeVars, stream, stopVars>>

(* cleanup: a Delete of each, whose error is dropped; a closed store       *)
(* refuses it.                                                             *)
Cleanup(c) ==
    /\ Running
    /\ pc[c] = "cleanup"
    /\ created[c] # <<>>
    /\ \/ closed /\ UNCHANGED <<stored, faults>>
       \/ ~closed /\ stored' = stored \ {Head(created[c])} /\ UNCHANGED faults
       \/ /\ ~closed /\ Head(created[c]) \in stored
          /\ faults < MaxFaults
          /\ faults' = faults + 1
          /\ UNCHANGED stored
    /\ created' = [created EXCEPT ![c] = Tail(@)]
    /\ UNCHANGED <<pc, input, artifact, prefer, parts, remaining, used, stream,
                   stopVars>>

Return(c) ==
    /\ Running
    /\ \/ pc[c] = "cleanup" /\ created[c] = <<>> /\ Goto(c, "failed")
       \/ /\ pc[c] = "capturing"
          /\ Len(parts[c]) = Len(artifact[c])
          /\ Goto(c, "returned")
    /\ UNCHANGED <<input, artifact, prefer, parts, remaining, created,
                   storeVars, stream, stopVars>>

CallStep(c) ==
    \/ Resolve(c) \/ Produce(c) \/ CaptureInline(c) \/ CaptureBlob(c)
    \/ PutFails(c) \/ Cleanup(c) \/ Return(c)

-----------------------------------------------------------------------------
(* The streams, and what else happens to the store.                        *)

(* The handler starts, and waits for the first message.                    *)
AcceptStream(u) ==
    /\ Accepting
    /\ stream[u] = "start"
    /\ stream' = [stream EXCEPT ![u] = "accepted"]
    /\ UNCHANGED <<callVars, storeVars, stopVars>>

(* The name has come: Put begins and waits for chunks (uploadReader).  Or  *)
(* Open finds the blob: chunks go out as the client takes them.            *)
BeginStream(u) ==
    /\ Running
    /\ stream[u] = "accepted"
    /\ u \in Uploads => Room
    /\ u \in Downloads => ~closed /\ stored # {}
    /\ stream' = [stream EXCEPT ![u] = "open"]
    /\ UNCHANGED <<callVars, storeVars, stopVars>>

Waiting(u) == Running /\ stream[u] \in {"accepted", "open"}
EndStream(u) == stream' = [stream EXCEPT ![u] = "ended"]

(* The client has sent all, and Put commits unless the store is closed.    *)
Upload(u) ==
    /\ Running
    /\ stream[u] = "open"
    /\ u \in Uploads
    /\ Room
    /\ stored' = stored \cup {NewId}
    /\ used' = used \cup {NewId}
    /\ EndStream(u)
    /\ UNCHANGED <<callVars, faults, stopVars>>

(* The client has read all or has gone, or the store refuses the call or a *)
(* chunk.                                                                  *)
ClientEnds(u) ==
    /\ Waiting(u)
    /\ EndStream(u)
    /\ UNCHANGED <<callVars, storeVars, stopVars>>

(* The connections were closed: Recv and Send fail.                        *)
StreamCut(u) ==
    /\ Waiting(u)
    /\ stopper = "stopped"
    /\ EndStream(u)
    /\ UNCHANGED <<callVars, storeVars, stopVars>>

(* Expiry, or a DeleteBlob of some client.                                 *)
Vanish ==
    /\ Running
    /\ ~closed
    /\ \E i \in stored : stored' = stored \ {i}
    /\ UNCHANGED <<callVars, used, faults, stream, stopVars>>

-----------------------------------------------------------------------------
(* The end of the server.                                                  *)

NoHandlers ==
    /\ \A c \in Calls : pc[c] \in {"start", "returned", "failed"}
    /\ \A u \in Streams : stream[u] \in {"start", "ended"}

StopperGoes(from, to) == stopper = from /\ stopper' = to

(* A signal comes.                                                         *)
Signal ==
    /\ Running
    /\ StopperGoes("idle", "signalled")
    /\ UNCHANGED <<callVars, storeVars, stream, main, closed>>

(* Serve fails on its own: RunE returns, and cancelServe wakes the stopper.*)
ServeFails ==
    /\ main = "serving"
    /\ stopper = "idle"
    /\ main' = "closing"
    /\ stopper' = "signalled"
    /\ UNCHANGED <<callVars, storeVars, stream, closed>>

(* GracefulStop takes no more requests and waits for the handlers.         *)
GracefulStop ==
    /\ Running
    /\ StopperGoes("signalled", "draining")
    /\ UNCHANGED <<callVars, storeVars, stream, main, closed>>

Drained ==
    /\ Running
    /\ NoHandlers
    /\ StopperGoes("draining", "drained")
    /\ UNCHANGED <<callVars, storeVars, stream, main, closed>>

(* Five seconds have passed: Stop closes the connections.                  *)
(* (Mutant: the deadline is left out.)                                     *)
NoDeadline == FALSE

Deadline ==
    /\ Running
    /\ StopperGoes("draining", "stopped")
    /\ UNCHANGED <<callVars, storeVars, stream, main, closed>>

(* Serve returns once the server has stopped, handlers or not, and RunE    *)
(* runs its deferred calls, blobs.Close among them.                        *)
ServeReturns ==
    /\ main = "serving"
    /\ stopper \in {"stopped", "drained"}
    /\ main' = "closing"
    /\ UNCHANGED <<callVars, storeVars, stream, stopper, closed>>

CloseStore ==
    /\ main = "closing"
    /\ main' = "waiting"
    /\ closed' = TRUE
    /\ UNCHANGED <<callVars, storeVars, stream, stopper>>

(* Close waits for the Puts, removes the blobs, and the process exits with *)
(* the handlers that still run.                                            *)
Exit ==
    /\ main = "waiting"
    /\ \A u \in Uploads : stream[u] # "open"
    /\ main' = "exited"
    /\ \E left \in SUBSET stored :
          /\ faults + Cardinality(left) <= MaxFaults
          /\ faults' = faults + Cardinality(left)
          /\ stored' = left
    /\ UNCHANGED <<callVars, used, stream, stopper, closed>>

StopperStep == GracefulStop \/ Drained \/ Deadline
MainStep == ServeReturns \/ CloseStore \/ Exit

Next ==
    \/ \E c \in Calls : CallStep(c)
    \/ \E u \in Streams :
          AcceptStream(u) \/ BeginStream(u) \/ Upload(u) \/ ClientEnds(u) \/ StreamCut(u)
    \/ Vanish \/ Signal \/ ServeFails \/ StopperStep \/ MainStep

Spec == Init /\ [][Next]_vars

(* The goroutines run, and the timer fires; a client need not send, read   *)
(* or end, and no request need come.                                       *)
HandlerStep(c) == pc[c] # "start" /\ CallStep(c)

FairSpec ==
    /\ Spec
    /\ \A c \in Calls : WF_vars(HandlerStep(c))
    /\ \A u \in Streams : WF_vars(StreamCut(u))
    /\ WF_vars(StopperStep)
    /\ WF_vars(MainStep)

-----------------------------------------------------------------------------
BlobsOf(c) == {parts[c][k] : k \in DOMAIN parts[c]} \ {"inline"}

InlineSize(captured, sizes, k) == IF captured[k] = "inline" THEN sizes[k] ELSE 0

InlineSizes(captured, sizes) ==
    LET f[k \in 0..Len(captured)] ==
            IF k = 0 THEN 0 ELSE f[k - 1] + InlineSize(captured, sizes, k)
    IN  f[Len(captured)]

(* While the store is open, a call that failed leaves none of its blobs    *)
(* behind, which nobody could ever name, but for those whose removal       *)
(* itself failed (captureResult's cleanup); and when the process is gone,  *)
(* whatever its handlers were doing, no blob of it is left and no upload   *)
(* was cut off with its temporary file on the disk.                        *)
NoOrphans ==
    /\ ~closed =>
         Cardinality(UNION {BlobsOf(c) \cap stored : c \in {d \in Calls : pc[d] = "failed"}})
             <= faults
    /\ main = "exited" =>
         Cardinality(stored) <= faults /\ \A u \in Uploads : stream[u] # "open"

(* The parts of one response that are inline fit the limit together, the   *)
(* primary and all its attachments counted (inlineRemaining).              *)
InlineBudget == \A c \in Calls : InlineSizes(parts[c], artifact[c]) <= MaxInline

(* Every call that began returns, whatever the store refuses and whenever  *)
(* its input goes away, unless the process ends first.                     *)
CallsEnd ==
    \A c \in Calls :
        pc[c] # "start" ~> (pc[c] \in {"returned", "failed"} \/ main = "exited")

(* A server told to stop exits, though a client leaves its upload or its   *)
(* download hanging (cmd/grpc.go: the deadline behind GracefulStop, the    *)
(* Puts that Close waits for, and the Serve that failed by itself).        *)
ServerExits == stopper # "idle" ~> main = "exited"
=============================================================================
