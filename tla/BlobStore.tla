------------------------------ MODULE BlobStore ------------------------------
(****************************************************************************)
(* The temporary blob store of the gRPC server (internal/blobstore/store.go): *)
(* one process, its Put calls, its open File handles, the janitor goroutine *)
(* and Close, sharing the counters and the map of items behind one mutex.   *)
(*                                                                          *)
(* One action is one critical section, or one step a goroutine takes outside *)
(* of the mutex: the copying of a Put, the syscalls on its temporary file,  *)
(* and the waiting of Close are interleaved with everything else.  A blob's *)
(* content is its length, and an attempt to remove a file may fail.         *)
(****************************************************************************)
EXTENDS Integers, FiniteSets

CONSTANTS
  Puts,           \* Put calls that can be in progress at a time
  BlobIds,        \* the identifiers randomID can generate
  Handles,        \* File handles that can be open at a time
  NoBlob, NoHandle,
  MaxBlobBytes,   \* Config.MaxBlobBytes
  MaxTotalBytes,  \* Config.MaxTotalBytes
  MaxBlobs,       \* Config.MaxBlobs
  TTL,            \* Config.TTL, in ticks of the clock
  OwnedDir,       \* TRUE iff the store made its own temporary directory
  MaxClock,       \* bound: ticks of the clock
  MaxFaults       \* bound: removals of files that fail

ASSUME ConfigAssumption ==                     \* New refuses other settings
  /\ MaxBlobBytes \in Nat \ {0}
  /\ MaxTotalBytes \in Nat /\ MaxTotalBytes >= MaxBlobBytes
  /\ MaxBlobs \in Nat \ {0}
  /\ TTL \in Nat \ {0}
  /\ OwnedDir \in BOOLEAN

ASSUME BoundAssumption ==
  /\ IsFiniteSet(Puts) /\ IsFiniteSet(BlobIds) /\ IsFiniteSet(Handles)
  /\ NoBlob \notin BlobIds /\ NoHandle \notin Handles
  /\ MaxClock \in Nat /\ MaxFaults \in Nat

VARIABLES
  \* the fields of Store
  totalBytes, inFlightBytes, inFlightBlobs, items, openFiles, closed, activePuts,
  \* the calls of Put: where each is, what it reserved, what it is writing now,
  \* and the identifier and time it stamped its blob with
  pc, reserved, pending, stampId, stampNow,
  \* the File handles, and the janitor with the tick it received
  handle, handleId, janitor, janitorNow,
  \* the call of Close
  closePc, closeFiles, closeFile, closeIds, closeErr,
  \* the directory: what is in it, by length
  blobFiles, tempFiles,
  \* the environment: the time, and how many removals failed
  clock, faults

storedVars  == <<items, totalBytes, blobFiles, faults>>
counterVars == <<totalBytes, inFlightBytes, inFlightBlobs>>
stampVars   == <<stampId, stampNow>>
putVars     == <<pc, reserved, pending, stampVars>>
handleVars  == <<handle, handleId>>
janitorVars == <<janitor, janitorNow>>
closeVars   == <<closePc, closeFiles, closeFile, closeIds, closeErr>>
vars == <<counterVars, items, openFiles, closed, activePuts, putVars, handleVars,
          janitorVars, closeVars, blobFiles, tempFiles, clock, faults>>

-----------------------------------------------------------------------------
(* Shapes *)

Item == [size : 0..MaxBlobBytes, expiresAt : Nat, openCount : Nat,
         deleteAfter : BOOLEAN]

PutStates   == {"idle", "create", "copy", "write", "commit", "remove", "abort", "finish"}
HandleStates == {"free", "open", "closing"}
CloseStates == {"notCalled", "janitor", "files", "puts", "remove", "done"}

IsPartialFunction(f, S, T) == DOMAIN f \subseteq S /\ f \in [DOMAIN f -> T]

Init ==
  /\ totalBytes = 0 /\ inFlightBytes = 0 /\ inFlightBlobs = 0 /\ activePuts = 0
  /\ items = [i \in {} |-> 0]
  /\ openFiles = {} /\ closed = FALSE
  /\ pc = [p \in Puts |-> "idle"]
  /\ reserved = [p \in Puts |-> 0] /\ pending = [p \in Puts |-> 0]
  /\ stampId = [p \in Puts |-> NoBlob] /\ stampNow = [p \in Puts |-> 0]
  /\ handle = [h \in Handles |-> "free"] /\ handleId = [h \in Handles |-> NoBlob]
  /\ janitor = "select" /\ janitorNow = 0
  /\ closePc = "notCalled" /\ closeFiles = {} /\ closeFile = NoHandle
  /\ closeIds = {} /\ closeErr = FALSE
  /\ blobFiles = [i \in {} |-> 0] /\ tempFiles = [p \in {} |-> 0]
  /\ clock = 0 /\ faults = 0

-----------------------------------------------------------------------------
(* Helpers *)

\* The length of the files in S, f giving each one's: the size of the set of
\* their bytes.
Bytes(f, S) == Cardinality({b \in S \X (1..MaxBlobBytes) : b[2] <= f[b[1]]})

SizeOf == [i \in DOMAIN items |-> items[i].size]
HeldBy == [p \in Puts |-> reserved[p] + pending[p]]

\* The calls between beginPut and the end of their claim, and of the call.
InFlight == {p \in Puts : pc[p] \notin {"idle", "finish"}}
Running  == {p \in Puts : pc[p] # "idle"}

\* if s.totalBytes < 0 { s.totalBytes = 0 }
Clamp(n) == IF n < 0 THEN 0 ELSE n

Without(f, S) == [x \in DOMAIN f \ S |-> f[x]]

\* The removals of the files of `wanted` succeed for those of `done` only.
Removed(wanted, done) ==
  /\ faults + Cardinality(wanted \ done) <= MaxFaults
  /\ faults' = faults + Cardinality(wanted \ done)

\* cleanupExpiredLocked(now): what it marks, and what it tries to remove.
\* (Mutants: the time is not looked at; the open handles are not looked at.)
DueIfDeleted(now) == {i \in DOMAIN items : items[i].deleteAfter}
Due(now) == {i \in DOMAIN items : items[i].deleteAfter \/ now >= items[i].expiresAt}
ReclaimableInUse(now) == Due(now)
Reclaimable(now) == {i \in Due(now) : items[i].openCount = 0}

\* The items left once those of `gone` are removed and the due ones are marked.
\* (Mutant: the mark of a Delete is taken back.)
SweptAnew(now, gone) ==
  [i \in DOMAIN items \ gone |->
     [items[i] EXCEPT !.deleteAfter = now >= items[i].expiresAt]]

Swept(now, gone) ==
  [i \in DOMAIN items \ gone |->
     [items[i] EXCEPT !.deleteAfter = @ \/ i \in Due(now)]]

\* removeItemLocked subtracts the sizes.
TotalWithout(gone) == Clamp(totalBytes - Bytes(SizeOf, gone))

\* An item a caller can see: Metadata, Open and Delete find no other.
Available(i) == i \in DOMAIN items /\ ~items[i].deleteAfter /\ clock < items[i].expiresAt

\* removeItemLocked was called for `wanted` and did away with `gone`; the items
\* are then those of `left`.  (Mutants: the quota is given back before the file
\* is gone; the item is forgotten whether it is gone or not.)
RemoveItemsReleasing(wanted, gone, left) ==
  /\ Removed(wanted, gone)
  /\ items' = left
  /\ totalBytes' = TotalWithout(wanted)
  /\ blobFiles' = Without(blobFiles, gone)

RemoveItemsForgetting(wanted, gone, left) ==
  /\ Removed(wanted, gone)
  /\ items' = Without(left, wanted)
  /\ totalBytes' = TotalWithout(wanted)
  /\ blobFiles' = Without(blobFiles, gone)

RemoveItems(wanted, gone, left) ==
  /\ Removed(wanted, gone)
  /\ items' = left
  /\ totalBytes' = TotalWithout(gone)
  /\ blobFiles' = Without(blobFiles, gone)

\* A critical section that does nothing but clean up.
Sweep(now) ==
  \E gone \in SUBSET Reclaimable(now) :
    RemoveItems(Reclaimable(now), gone, Swept(now, gone))

-----------------------------------------------------------------------------
(* Put *)
\* What no step of a Put changes.
PutFrame ==
  UNCHANGED <<openFiles, closed, handleVars, janitorVars, closeVars, clock>>

\* beginPut: the count of blobs, stored and in flight, is below the limit once
\* the expired ones are cleaned up.
BeginPut(p) ==
  /\ pc[p] = "idle" /\ p \notin DOMAIN tempFiles
  /\ ~closed
  /\ Sweep(clock)
  /\ Cardinality(DOMAIN items') + inFlightBlobs < MaxBlobs
  /\ inFlightBlobs' = inFlightBlobs + 1
  /\ activePuts' = activePuts + 1
  /\ pc' = [pc EXCEPT ![p] = "create"]
  /\ PutFrame
  /\ UNCHANGED <<inFlightBytes, reserved, pending, stampVars, tempFiles>>

\* beginPut at the limit: it cleaned up, and refuses.
RefusePut(p) ==
  /\ pc[p] = "idle"
  /\ ~closed
  /\ Sweep(clock)
  /\ Cardinality(DOMAIN items') + inFlightBlobs >= MaxBlobs
  /\ PutFrame
  /\ UNCHANGED <<inFlightBytes, inFlightBlobs, activePuts, putVars, tempFiles>>

\* os.CreateTemp: a failure returns before the removal is deferred.
CreateTemp(p) ==
  /\ pc[p] = "create"
  /\ \/ /\ tempFiles' = [q \in DOMAIN tempFiles \union {p} |->
                           IF q = p THEN 0 ELSE tempFiles[q]]
        /\ pc' = [pc EXCEPT ![p] = "copy"]
     \/ /\ pc' = [pc EXCEPT ![p] = "abort"]
        /\ UNCHANGED tempFiles
  /\ PutFrame
  /\ UNCHANGED <<counterVars, items, activePuts, reserved, pending, stampVars,
                 blobFiles, faults>>

\* The reader returned n bytes, and quotaWriter.Write accepts them: they fit the
\* blob, and reserveBytes finds the store open and with room for them.
\* (Mutants: the blob's limit is taken chunk by chunk; the bytes in flight are
\* not looked at.)
FitsEachChunk(p, n) ==
  /\ n <= MaxBlobBytes
  /\ ~closed
  /\ n <= MaxTotalBytes - totalBytes - inFlightBytes

FitsStored(p, n) ==
  /\ n <= MaxBlobBytes - reserved[p]
  /\ ~closed
  /\ n <= MaxTotalBytes - totalBytes

Fits(p, n) ==
  /\ n <= MaxBlobBytes - reserved[p]
  /\ ~closed
  /\ n <= MaxTotalBytes - totalBytes - inFlightBytes

ReserveChunk(p, n) ==
  /\ pc[p] = "copy"
  /\ Fits(p, n)
  /\ inFlightBytes' = inFlightBytes + n
  /\ pending' = [pending EXCEPT ![p] = n]
  /\ pc' = [pc EXCEPT ![p] = "write"]
  /\ PutFrame
  /\ UNCHANGED <<totalBytes, inFlightBlobs, items, activePuts, reserved, stampVars,
                 blobFiles, tempFiles, faults>>

\* The temporary file took k of the n bytes: a short write gives the rest back
\* (releaseBytes) and fails the copy.  (Mutant: a short write goes unnoticed.)
WriteChunkUnchecked(p, k) ==
  /\ pc[p] = "write" /\ k \in 0..pending[p]
  /\ reserved' = [reserved EXCEPT ![p] = @ + pending[p]]
  /\ pending' = [pending EXCEPT ![p] = 0]
  /\ tempFiles' = [tempFiles EXCEPT ![p] = @ + k]
  /\ pc' = [pc EXCEPT ![p] = "copy"]
  /\ PutFrame
  /\ UNCHANGED <<counterVars, items, activePuts, stampVars, blobFiles, faults>>

WriteChunk(p, k) ==
  /\ pc[p] = "write" /\ k \in 0..pending[p]
  /\ inFlightBytes' = Clamp(inFlightBytes - (pending[p] - k))
  /\ reserved' = [reserved EXCEPT ![p] = @ + k]
  /\ pending' = [pending EXCEPT ![p] = 0]
  /\ tempFiles' = [tempFiles EXCEPT ![p] = @ + k]
  /\ pc' = [pc EXCEPT ![p] = IF k = pending[p] THEN "copy" ELSE "remove"]
  /\ PutFrame
  /\ UNCHANGED <<totalBytes, inFlightBlobs, items, activePuts, stampVars, blobFiles,
                 faults>>

\* The copy ends in an error: the reader failed, the context was cancelled, or
\* the bytes read do not fit.
FailCopy(p) ==
  /\ pc[p] = "copy"
  /\ pc' = [pc EXCEPT ![p] = "remove"]
  /\ PutFrame
  /\ UNCHANGED <<counterVars, items, activePuts, reserved, pending, stampVars,
                 blobFiles, tempFiles, faults>>

\* The reader is at its end: the blob gets an identifier and its time of
\* creation, before the mutex is taken.
Stamp(p, id) ==
  /\ pc[p] = "copy"
  /\ stampId' = [stampId EXCEPT ![p] = id]
  /\ stampNow' = [stampNow EXCEPT ![p] = clock]
  /\ pc' = [pc EXCEPT ![p] = "commit"]
  /\ PutFrame
  /\ UNCHANGED <<counterVars, items, activePuts, reserved, pending, blobFiles,
                 tempFiles, faults>>

\* The last critical section of Put: the file gets its name and the item is
\* published; the bytes in flight become stored ones.
Commit(p) ==
  /\ pc[p] = "commit"
  /\ ~closed
  /\ \E gone \in SUBSET Reclaimable(stampNow[p]) :
       /\ Removed(Reclaimable(stampNow[p]), gone)
       /\ stampId[p] \notin DOMAIN items \ gone
       /\ items' = [i \in (DOMAIN items \ gone) \union {stampId[p]} |->
                      IF i = stampId[p]
                      THEN [size |-> reserved[p], expiresAt |-> stampNow[p] + TTL,
                            openCount |-> 0, deleteAfter |-> FALSE]
                      ELSE Swept(stampNow[p], gone)[i]]
       /\ totalBytes' = TotalWithout(gone) + reserved[p]
       /\ blobFiles' = [i \in (DOMAIN blobFiles \ gone) \union {stampId[p]} |->
                          IF i = stampId[p] THEN tempFiles[p] ELSE blobFiles[i]]
  /\ tempFiles' = Without(tempFiles, {p})
  /\ inFlightBytes' = inFlightBytes - reserved[p]
  /\ inFlightBlobs' = inFlightBlobs - 1
  /\ reserved' = [reserved EXCEPT ![p] = 0]
  /\ stampId' = [stampId EXCEPT ![p] = NoBlob]
  /\ stampNow' = [stampNow EXCEPT ![p] = 0]
  /\ pc' = [pc EXCEPT ![p] = "finish"]
  /\ PutFrame
  /\ UNCHANGED <<activePuts, pending>>

\* The same critical section when it publishes nothing: the store is closed, or,
\* after the cleanup, the identifier is taken or os.Rename fails.
RefuseCommit(p) ==
  /\ pc[p] = "commit"
  /\ \/ /\ closed
        /\ UNCHANGED storedVars
     \/ /\ ~closed
        /\ Sweep(stampNow[p])
  /\ stampId' = [stampId EXCEPT ![p] = NoBlob]
  /\ stampNow' = [stampNow EXCEPT ![p] = 0]
  /\ pc' = [pc EXCEPT ![p] = "remove"]
  /\ PutFrame
  /\ UNCHANGED <<inFlightBytes, inFlightBlobs, activePuts, reserved, pending,
                 tempFiles>>

\* The deferred os.Remove of the temporary file, whose error is dropped.
RemoveTemp(p) ==
  /\ pc[p] = "remove"
  /\ \E done \in SUBSET {p} :
       /\ Removed({p}, done)
       /\ tempFiles' = Without(tempFiles, done)
  /\ pc' = [pc EXCEPT ![p] = "abort"]
  /\ PutFrame
  /\ UNCHANGED <<counterVars, items, activePuts, reserved, pending, stampVars,
                 blobFiles>>

\* The deferred abortPut.  (Mutant: Close holds the mutex while it waits.)
AbortPutLockedOut(p) ==
  /\ pc[p] = "abort" /\ closePc # "puts"
  /\ inFlightBytes' = Clamp(inFlightBytes - reserved[p])
  /\ inFlightBlobs' = Clamp(inFlightBlobs - 1)
  /\ reserved' = [reserved EXCEPT ![p] = 0]
  /\ pc' = [pc EXCEPT ![p] = "finish"]
  /\ PutFrame
  /\ UNCHANGED <<totalBytes, items, activePuts, pending, stampVars, blobFiles,
                 tempFiles, faults>>

AbortPut(p) ==
  /\ pc[p] = "abort"
  /\ inFlightBytes' = Clamp(inFlightBytes - reserved[p])
  /\ inFlightBlobs' = Clamp(inFlightBlobs - 1)
  /\ reserved' = [reserved EXCEPT ![p] = 0]
  /\ pc' = [pc EXCEPT ![p] = "finish"]
  /\ PutFrame
  /\ UNCHANGED <<totalBytes, items, activePuts, pending, stampVars, blobFiles,
                 tempFiles, faults>>

\* The deferred activePuts.Done, the last thing a Put does.
FinishPut(p) ==
  /\ pc[p] = "finish"
  /\ activePuts' = activePuts - 1
  /\ pc' = [pc EXCEPT ![p] = "idle"]
  /\ PutFrame
  /\ UNCHANGED <<counterVars, items, reserved, pending, stampVars, blobFiles,
                 tempFiles, faults>>

-----------------------------------------------------------------------------
(* Open, Metadata, Delete and File.Close *)

HandleFrame ==
  UNCHANGED <<inFlightBytes, inFlightBlobs, closed, activePuts, putVars, janitorVars,
              closeVars, tempFiles, clock>>

\* Open finds the blob and the operating system opens its file.
Open(id, h) ==
  /\ ~closed /\ handle[h] = "free" /\ h \notin openFiles
  /\ Available(id)
  /\ \E gone \in SUBSET Reclaimable(clock) :
       RemoveItems(Reclaimable(clock), gone,
                   [Swept(clock, gone) EXCEPT ![id].openCount = @ + 1])
  /\ openFiles' = openFiles \union {h}
  /\ handle' = [handle EXCEPT ![h] = "open"]
  /\ handleId' = [handleId EXCEPT ![h] = id]
  /\ HandleFrame

\* Metadata, and Open, and Delete when they find nothing or fail to open: the
\* cleanup is all that they change.
Lookup ==
  /\ ~closed
  /\ Sweep(clock)
  /\ HandleFrame
  /\ UNCHANGED <<openFiles, handleVars>>

\* Delete finds the blob: with a handle open it only marks it; else it removes
\* it, and a removal that fails leaves the item as it was.
Delete(id) ==
  /\ ~closed
  /\ Available(id)
  /\ \E gone \in SUBSET Reclaimable(clock) :
       \/ /\ items[id].openCount > 0
          /\ RemoveItems(Reclaimable(clock), gone,
                         [Swept(clock, gone) EXCEPT ![id].deleteAfter = TRUE])
       \/ /\ items[id].openCount = 0
          /\ \E done \in SUBSET {id} :
               RemoveItems(Reclaimable(clock) \union {id}, gone \union done,
                           Swept(clock, gone \union done))
  /\ HandleFrame
  /\ UNCHANGED <<openFiles, handleVars>>

\* File.Close, by its user: the once runs for the first caller.
CloseHandle(h) ==
  /\ handle[h] = "open"
  /\ handle' = [handle EXCEPT ![h] = "closing"]
  /\ UNCHANGED <<counterVars, items, openFiles, closed, activePuts, putVars, handleId,
                 janitorVars, closeVars, blobFiles, tempFiles, clock, faults>>

LastOfDeleted(id) == id \in DOMAIN items /\ items[id].openCount <= 1 /\ items[id].deleteAfter

ReleaseOpen(h) ==
  /\ handle[h] = "closing"
  /\ LET id == handleId[h] IN
       \/ /\ LastOfDeleted(id)
          /\ RemoveItems({id}, {id}, Without(items, {id}))
       \/ /\ IF LastOfDeleted(id) THEN Removed({id}, {}) ELSE UNCHANGED faults
          /\ items' = [i \in DOMAIN items |->
                         IF i = id THEN [items[i] EXCEPT !.openCount = Clamp(@ - 1)]
                                   ELSE items[i]]
          /\ UNCHANGED <<totalBytes, blobFiles>>
  /\ openFiles' = openFiles \ {h}
  /\ handle' = [handle EXCEPT ![h] = "free"]
  /\ handleId' = [handleId EXCEPT ![h] = NoBlob]
  /\ HandleFrame

-----------------------------------------------------------------------------
(* The janitor *)

JanitorFrame ==
  UNCHANGED <<inFlightBytes, inFlightBlobs, openFiles, closed, activePuts, putVars,
              handleVars, closeVars, tempFiles, clock>>

\* The select takes a tick, which carries its time.
JanitorTick ==
  /\ janitor = "select"
  /\ janitor' = "sweep" /\ janitorNow' = clock
  /\ JanitorFrame
  /\ UNCHANGED storedVars

\* The critical section of the tick.
JanitorSweep ==
  /\ janitor = "sweep"
  /\ janitor' = "select" /\ janitorNow' = 0
  /\ \/ /\ closed /\ UNCHANGED storedVars
     \/ /\ ~closed /\ Sweep(janitorNow)
  /\ JanitorFrame

\* The select takes janitorStop, which Close closed.
JanitorStop ==
  /\ janitor = "select" /\ closePc # "notCalled"
  /\ janitor' = "stopped"
  /\ JanitorFrame
  /\ UNCHANGED <<storedVars, janitorNow>>

-----------------------------------------------------------------------------
(* Close: the call that runs the closeOnce *)

CloseFrame ==
  UNCHANGED <<putVars, handleId, activePuts, janitorVars, blobFiles, tempFiles, clock,
              faults>>

\* The first critical section, and the closing of janitorStop.
CloseBegin ==
  /\ closePc = "notCalled"
  /\ closed' = TRUE
  /\ closeFiles' = openFiles
  /\ closePc' = "janitor"
  /\ CloseFrame
  /\ UNCHANGED <<counterVars, items, openFiles, handle, closeFile, closeIds, closeErr>>

\* <-s.janitorDone
CloseJanitorDone ==
  /\ closePc = "janitor" /\ janitor = "stopped"
  /\ closePc' = "files"
  /\ CloseFrame
  /\ UNCHANGED <<counterVars, items, openFiles, closed, handle, closeFiles, closeFile, closeIds,
                 closeErr>>

\* file.Close() of the next handle of the snapshot: it runs the once of a handle
\* that is still open, and waits for one that its user is closing.
CloseNextFile(h) ==
  /\ closePc = "files" /\ closeFile = NoHandle /\ h \in closeFiles
  /\ closeFile' = h /\ closeFiles' = closeFiles \ {h}
  /\ handle' = [handle EXCEPT ![h] = IF @ = "open" THEN "closing" ELSE @]
  /\ CloseFrame
  /\ UNCHANGED <<counterVars, items, openFiles, closed, closePc, closeIds, closeErr>>

\* The wait for that handle.  (Mutant: there is none.)
CloseFileLeft ==
  /\ closePc = "files" /\ closeFile # NoHandle
  /\ closeFile' = NoHandle
  /\ CloseFrame
  /\ UNCHANGED <<counterVars, items, openFiles, closed, handle, closePc, closeFiles, closeIds,
                 closeErr>>

CloseFileDone ==
  /\ closePc = "files" /\ closeFile # NoHandle /\ handle[closeFile] = "free"
  /\ closeFile' = NoHandle
  /\ CloseFrame
  /\ UNCHANGED <<counterVars, items, openFiles, closed, handle, closePc, closeFiles, closeIds,
                 closeErr>>

CloseFilesDone ==
  /\ closePc = "files" /\ closeFile = NoHandle /\ closeFiles = {}
  /\ closePc' = "puts"
  /\ CloseFrame
  /\ UNCHANGED <<counterVars, items, openFiles, closed, handle, closeFiles, closeFile, closeIds,
                 closeErr>>

\* activePuts.Wait() returned: the second critical section forgets everything.
CloseForget ==
  /\ closePc = "puts" /\ activePuts = 0
  /\ closeIds' = DOMAIN items
  /\ items' = [i \in {} |-> 0] /\ openFiles' = {}
  /\ totalBytes' = 0 /\ inFlightBytes' = 0 /\ inFlightBlobs' = 0
  /\ closePc' = "remove"
  /\ CloseFrame
  /\ UNCHANGED <<closed, handle, closeFiles, closeFile, closeErr>>

\* The files go: the whole directory if it is the store's own, else the blobs
\* that were left, one by one; what fails is reported.
CloseRemove ==
  /\ closePc = "remove"
  /\ \E left \in SUBSET IF OwnedDir THEN DOMAIN blobFiles ELSE closeIds :
       /\ Removed(left, {})
       /\ closeErr' = (left # {})
       /\ blobFiles' = [i \in DOMAIN blobFiles \ ((IF OwnedDir THEN BlobIds ELSE closeIds)
                                                   \ left) |-> blobFiles[i]]
  /\ closePc' = "done"
  /\ tempFiles' = IF OwnedDir THEN [p \in {} |-> 0] ELSE tempFiles
  /\ UNCHANGED <<counterVars, items, openFiles, closed, activePuts, putVars,
                 handleVars, janitorVars, closeFiles, closeFile, closeIds, clock>>

-----------------------------------------------------------------------------
Tick ==
  /\ clock < MaxClock
  /\ clock' = clock + 1
  /\ UNCHANGED <<counterVars, items, openFiles, closed, activePuts, putVars,
                 handleVars, janitorVars, closeVars, blobFiles, tempFiles, faults>>

\* Nothing is left to do once Close returned and no Put is running.
Terminated ==
  /\ closePc = "done" /\ activePuts = 0
  /\ UNCHANGED vars

PutStep(p) ==
  \/ CreateTemp(p)
  \/ \E n \in 1..MaxBlobBytes : ReserveChunk(p, n)
  \/ \E k \in 0..MaxBlobBytes : WriteChunk(p, k)
  \/ FailCopy(p)
  \/ \E id \in BlobIds : Stamp(p, id)
  \/ Commit(p) \/ RefuseCommit(p)
  \/ RemoveTemp(p) \/ AbortPut(p) \/ FinishPut(p)

CloseStep ==
  \/ CloseJanitorDone
  \/ \E h \in Handles : CloseNextFile(h)
  \/ CloseFileDone \/ CloseFilesDone
  \/ CloseForget \/ CloseRemove

Next ==
  \/ \E p \in Puts : BeginPut(p) \/ RefusePut(p) \/ PutStep(p)
  \/ \E id \in BlobIds, h \in Handles : Open(id, h)
  \/ Lookup
  \/ \E id \in BlobIds : Delete(id)
  \/ \E h \in Handles : CloseHandle(h) \/ ReleaseOpen(h)
  \/ JanitorTick \/ JanitorSweep \/ JanitorStop
  \/ CloseBegin \/ CloseStep
  \/ Tick \/ Terminated

Spec == Init /\ [][Next]_vars

\* Goroutines run: a Put whose reader returns (data, its end or an error), the
\* janitor, a File.Close and the Close in progress each get on.  A select with
\* two ready channels picks at random, so it takes janitorStop in the end.
Fairness ==
  /\ \A p \in Puts : WF_vars(PutStep(p))
  /\ \A h \in Handles : WF_vars(ReleaseOpen(h))
  /\ WF_vars(JanitorTick) /\ WF_vars(JanitorSweep) /\ SF_vars(JanitorStop)
  /\ WF_vars(CloseStep)

FairSpec == Spec /\ Fairness
-----------------------------------------------------------------------------
(* Type correctness *)

\* The fields of the store, the calls, the handles and the directory hold what
\* their Go types and the program's control allow (store.go:50-78).
TypeOK ==
  /\ totalBytes \in Nat /\ inFlightBytes \in Nat /\ inFlightBlobs \in Nat
  /\ activePuts \in Nat /\ closed \in BOOLEAN
  /\ IsPartialFunction(items, BlobIds, Item)
  /\ openFiles \subseteq Handles
  /\ pc \in [Puts -> PutStates]
  /\ reserved \in [Puts -> 0..MaxBlobBytes] /\ pending \in [Puts -> 0..MaxBlobBytes]
  /\ stampId \in [Puts -> BlobIds \union {NoBlob}] /\ stampNow \in [Puts -> 0..MaxClock]
  /\ handle \in [Handles -> HandleStates]
  /\ handleId \in [Handles -> BlobIds \union {NoBlob}]
  /\ janitor \in {"select", "sweep", "stopped"} /\ janitorNow \in 0..MaxClock
  /\ closePc \in CloseStates /\ closeFiles \subseteq Handles
  /\ closeFile \in Handles \union {NoHandle}
  /\ closeIds \subseteq BlobIds /\ closeErr \in BOOLEAN
  /\ IsPartialFunction(blobFiles, BlobIds, 0..MaxBlobBytes)
  /\ IsPartialFunction(tempFiles, Puts, 0..MaxBlobBytes)
  /\ clock \in 0..MaxClock /\ faults \in 0..MaxFaults

-----------------------------------------------------------------------------
(* Safety *)

\* The counters the limits are checked against are exact in every state: they
\* are the sums over the items and over the calls in progress, so no clamp to
\* zero ever hides a reservation given back twice or never (store.go:219-228,
\* 364-402, 430-440).
AccountingExact ==
  /\ totalBytes = Bytes(SizeOf, DOMAIN items)
  /\ inFlightBytes = Bytes(HeldBy, Puts)
  /\ inFlightBlobs = Cardinality(InFlight)
  /\ activePuts = Cardinality(Running)

\* What the calls in progress hold is what they wrote: a Put reserved what its
\* temporary file has, asks for more only in the middle of a write, and never
\* for more than one blob may have (store.go:551-575).
CallConsistent(p) ==
  /\ reserved[p] + pending[p] <= MaxBlobBytes
  /\ pending[p] # 0 => pc[p] = "write"
  /\ reserved[p] # 0 => pc[p] \in {"copy", "write", "commit", "remove", "abort"}
  /\ pc[p] = "commit" => stampId[p] \in BlobIds
  /\ pc[p] \in {"copy", "write", "commit", "remove"} =>
       p \in DOMAIN tempFiles /\ tempFiles[p] = reserved[p]

CallsConsistent == \A p \in Puts : CallConsistent(p)

\* Stored and in-flight blobs together never exceed the two limits, however many
\* Puts race for the last bytes or the last place (store.go:349-378).
QuotaHolds ==
  /\ totalBytes + inFlightBytes <= MaxTotalBytes
  /\ Cardinality(DOMAIN items) + inFlightBlobs <= MaxBlobs

\* The limit holds of the disk as well as of the counters: the blobs in the
\* directory and the temporary files of the calls in progress fit in it.  (Only
\* a temporary file whose removal failed, store.go:182, is not counted.)
DiskWithinQuota ==
  LET live == {p \in DOMAIN tempFiles : pc[p] \in {"copy", "write", "commit", "remove"}}
  IN Bytes(blobFiles, DOMAIN blobFiles) + Bytes(tempFiles, live) <= MaxTotalBytes

\* When Close forgets the items and resets the counters nothing is alive that
\* would use them afterwards: no handle is open, no Put is before its last step,
\* the janitor is gone (store.go:311-325).
CloseForgetsNothingLive ==
  closePc \in {"remove", "done"} =>
    /\ \A h \in Handles : handle[h] = "free"
    /\ \A p \in Puts : pc[p] = "idle"
    /\ janitor = "stopped"

\* A Close that reports no error left no blob behind, whatever Puts, handles and
\* failed cleanups it met; and when no removal failed it left nothing at all
\* (store.go:327-345).
CleanClose ==
  closePc = "done" =>
    /\ ~closeErr => DOMAIN blobFiles = {}
    /\ faults = 0 => DOMAIN tempFiles = {}

\* A blob that was deleted or expired comes back only as the blob of another Put
\* (store.go:244, 264, 288, 418-428).
WithdrawnForGood ==
  [][\A i \in BlobIds :
       i \in DOMAIN items /\ ~Available(i) /\ Available(i)' =>
         \E p \in Puts : pc[p] = "commit" /\ pc'[p] = "finish" /\ stampId[p] = i]_vars

\* A reader sees one blob from its Open to its Close: no Delete, expiry, cleanup
\* or Put takes or replaces the file under an open handle (store.go:284, 424).
ReaderKeepsFile ==
  [][\A h \in Handles :
       handle[h] # "free" /\ handle'[h] # "free" =>
         /\ handleId[h] \in DOMAIN blobFiles \intersect DOMAIN blobFiles'
         /\ blobFiles'[handleId[h]] = blobFiles[handleId[h]]]_vars

\* The comment of Delete (store.go:272-273): it "marks a blob unavailable
\* immediately", its quota being released later.
DeleteMarksUnavailable ==
  [][\A i \in BlobIds : Delete(i) => ~Available(i)']_vars

\* What a client sees of the store is AbstractBlobStore's: blobs appear whole and
\* within the limits, a reader keeps its blob, a withdrawn blob is never opened
\* again, and room is reclaimed only behind the last reader.
AbstractStore == INSTANCE AbstractBlobStore WITH
  Readers  <- Handles,
  kept     <- SizeOf,
  readable <- {i \in DOMAIN items : ~closed /\ Available(i)},
  reading  <- handleId,
  shut     <- closed

ImplementsAbstractStore == AbstractStore!Spec

-----------------------------------------------------------------------------
(* Liveness, under Fairness *)

\* Close returns, with no deadlock between its waits, the Puts it waits for and
\* the mutex they need to abort (store.go:311-318, 177-182).
CloseReturns == closed ~> closePc = "done"

\* Every Put returns (store.go:157-229).
PutsReturn == \A p \in Puts : pc[p] # "idle" ~> pc[p] = "idle"

\* The janitor gives the quota of a blob that is deleted or expired and not open
\* back, with no call of a client, though removals fail (store.go:418-428, 458-481).
DeadBlobsReclaimed ==
  \A i \in BlobIds :
    LET Dead == i \in DOMAIN items /\ ~Available(i) /\ items[i].openCount = 0
    IN Dead ~> ~Dead
=============================================================================
