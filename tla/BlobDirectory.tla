--------------------------- MODULE BlobDirectory ---------------------------
(***************************************************************************)
(* A configured blob directory over the processes that use it one after    *)
(* the other, or try to at once: New of internal/blobstore/store.go with   *)
(* the lock of directory_lock_unix.go and the cleanup of the files an      *)
(* earlier process left, the file operations of the running store, Close   *)
(* and the death of a process at any of these steps.                       *)
(*                                                                         *)
(* A process runs New at most once: a retry is another process.  The lock  *)
(* belongs to the inode that was at the lock's path when the file was      *)
(* opened, not to the path: this is why nobody may ever remove that path.  *)
(* What a store does with its items between the removals is the module     *)
(* BlobStore; a Delete here is any of its removals.                        *)
(***************************************************************************)
EXTENDS Naturals, FiniteSets

CONSTANTS
    Procs,      \* the processes that may run New on the directory
    Blobs,      \* names of the form <32 hex digits>.blob
    Temps,      \* names of the form .upload-<digits>.tmp
    Others,     \* every other name: notes.blob, a user's file
    Inodes,     \* identities of the files created at the lock's path
    User,       \* whoever made the other files
    None,
    MaxFaults   \* bound: how many removals fail

ASSUME NoneAssumption == None \notin Procs \cup Inodes \cup {User}
                        /\ User \notin Procs
ASSUME FaultsAssumption == MaxFaults \in Nat

Names == Blobs \cup Temps \cup Others

ASSUME NamesAssumption ==
    Blobs \cap Temps = {} /\ (Blobs \cup Temps) \cap Others = {}

VARIABLES
    pc,         \* where each process is
    lockFile,   \* the inode at .meido-blobstore.lock, or None
    fd,         \* the inode each process has open as its lock file, or None
    holder,     \* the process that holds each inode's flock, or None
    disk,       \* who made each file of the directory, or None
    pending,    \* the names a loop of removals still has before it
    items,      \* the blobs each store has published
    uploads,    \* the temporary files of each store's running Puts
    closeErr,   \* whether a removal of Close failed
    faults

vars == <<pc, lockFile, fd, holder, disk, pending, items, uploads, closeErr,
          faults>>

States == {"out", "opened", "locked", "cleaning", "running", "closing",
           "closed", "refused", "dead"}

(* The states in which a process has taken the lock and not let it go.     *)
Owning == {"locked", "cleaning", "running", "closing"}

Active == Owning \cup {"opened"}

(* Every variable has its type; a process has the lock's file open from the *)
(* OpenFile of its New to the end of its Close, and never after a New that  *)
(* failed.                                                                  *)
TypeOK ==
    /\ pc \in [Procs -> States]
    /\ lockFile \in Inodes \cup {None}
    /\ fd \in [Procs -> Inodes \cup {None}]
    /\ \A p \in Procs : fd[p] # None <=> pc[p] \in Active
    /\ holder \in [Inodes -> Procs \cup {None}]
    /\ disk \in [Names -> Procs \cup {User, None}]
    /\ pending \in [Procs -> SUBSET Names]
    /\ items \in [Procs -> SUBSET Blobs]
    /\ uploads \in [Procs -> SUBSET Temps]
    /\ closeErr \in [Procs -> BOOLEAN]
    /\ faults \in 0..MaxFaults

Init ==
    /\ pc = [p \in Procs |-> "out"]
    /\ lockFile = None
    /\ fd = [p \in Procs |-> None]
    /\ holder = [i \in Inodes |-> None]
    /\ disk = [n \in Names |-> IF n \in Others THEN User ELSE None]
    /\ pending = [p \in Procs |-> {}]
    /\ items = [p \in Procs |-> {}]
    /\ uploads = [p \in Procs |-> {}]
    /\ closeErr = [p \in Procs |-> FALSE]
    /\ faults = 0

Present(n) == disk[n] # None

Goto(p, where) == pc' = [pc EXCEPT ![p] = where]

(* A descriptor of the lock file goes, and with it the lock it holds: by   *)
(* Close of the lock, or by the kernel when its process dies.              *)
(* (Mutant: the file is tidied away with the lock.)                        *)
DropLockAndFile(p) ==
    /\ fd' = [fd EXCEPT ![p] = None]
    /\ holder' = [i \in Inodes |-> IF holder[i] = p THEN None ELSE holder[i]]
    /\ lockFile' = None

DropLock(p) ==
    /\ fd' = [fd EXCEPT ![p] = None]
    /\ holder' = [i \in Inodes |-> IF holder[i] = p THEN None ELSE holder[i]]
    /\ UNCHANGED lockFile

Faulty == faults < MaxFaults /\ faults' = faults + 1

Erase(n) == disk' = [disk EXCEPT ![n] = None]

-----------------------------------------------------------------------------
(* New: the lock.                                                          *)

(* OpenFile(O_CREATE|O_RDWR) of the lock's path.                           *)
OpenLockFile(p) ==
    /\ pc[p] = "out"
    /\ \/ /\ lockFile # None
          /\ fd' = [fd EXCEPT ![p] = lockFile]
          /\ UNCHANGED lockFile
       \/ /\ lockFile = None
          /\ \E i \in Inodes :
                /\ \A q \in Procs : fd[q] # i
                /\ lockFile' = i
                /\ fd' = [fd EXCEPT ![p] = i]
    /\ Goto(p, "opened")
    /\ UNCHANGED <<holder, disk, pending, items, uploads, closeErr, faults>>

(* (Mutant: a shared lock.)                                                *)
LockShared(p) == TRUE

LockFree(p) == holder[fd[p]] = None


(* Flock(LOCK_EX|LOCK_NB): it never waits.                                 *)
Flock(p) ==
    /\ pc[p] = "opened"
    /\ LockFree(p)
    /\ holder' = [holder EXCEPT ![fd[p]] = p]
    /\ Goto(p, "locked")
    /\ UNCHANGED <<lockFile, fd, disk, pending, items, uploads, closeErr,
                   faults>>

(* (Mutant: Flock waits.)                                                   *)
RefusedNever(p) == FALSE

Refused(p) ==
    /\ pc[p] = "opened"
    /\ ~LockFree(p)
    /\ fd' = [fd EXCEPT ![p] = None]
    /\ Goto(p, "refused")
    /\ UNCHANGED <<lockFile, holder, disk, pending, items, uploads, closeErr,
                   faults>>

-----------------------------------------------------------------------------
(* New: removeStaleFiles.                                                  *)

(* The names the patterns of a blob and of an upload match.  (Mutants: any *)
(* name with the suffixes; no uploads.)                                    *)
StaleBySuffix == {n \in Blobs \cup Temps \cup Others : Present(n)}

StaleBlobs == {n \in Blobs : Present(n)}

StaleNames == {n \in Blobs \cup Temps : Present(n)}

ListStale(p) ==
    /\ pc[p] = "locked"
    /\ pending' = [pending EXCEPT ![p] = StaleNames]
    /\ Goto(p, "cleaning")
    /\ UNCHANGED <<lockFile, fd, holder, disk, items, uploads, closeErr,
                   faults>>

(* One os.Remove of the loop; a name that is gone is no error.             *)
RemoveStale(p) ==
    /\ pc[p] = "cleaning"
    /\ \E n \in pending[p] :
          /\ Erase(n)
          /\ pending' = [pending EXCEPT ![p] = @ \ {n}]
    /\ UNCHANGED <<pc, lockFile, fd, holder, items, uploads, closeErr, faults>>

(* ReadDir or a removal fails: the lock goes and New returns the error.    *)
CleanFails(p) ==
    /\ pc[p] \in {"locked", "cleaning"}
    /\ pc[p] = "cleaning" => pending[p] # {}
    /\ Faulty
    /\ DropLock(p)
    /\ pending' = [pending EXCEPT ![p] = {}]
    /\ Goto(p, "refused")
    /\ UNCHANGED <<disk, items, uploads, closeErr>>

Started(p) ==
    /\ pc[p] = "cleaning"
    /\ pending[p] = {}
    /\ Goto(p, "running")
    /\ UNCHANGED <<lockFile, fd, holder, disk, pending, items, uploads,
                   closeErr, faults>>

-----------------------------------------------------------------------------
(* The files of a running store.                                           *)

(* Put: os.CreateTemp picks a name that is free.                           *)
CreateTemp(p) ==
    /\ pc[p] = "running"
    /\ \E t \in Temps :
          /\ ~Present(t)
          /\ disk' = [disk EXCEPT ![t] = p]
          /\ uploads' = [uploads EXCEPT ![p] = @ \cup {t}]
    /\ UNCHANGED <<pc, lockFile, fd, holder, pending, items, closeErr, faults>>

(* Put: os.Rename to a name of 128 random bits, which no file has, and the *)
(* new item.                                                               *)
Publish(p) ==
    /\ pc[p] = "running"
    /\ \E t \in uploads[p], b \in Blobs :
          /\ ~Present(b)
          /\ disk' = [disk EXCEPT ![t] = None, ![b] = p]
          /\ uploads' = [uploads EXCEPT ![p] = @ \ {t}]
          /\ items' = [items EXCEPT ![p] = @ \cup {b}]
    /\ UNCHANGED <<pc, lockFile, fd, holder, pending, closeErr, faults>>

(* Put fails: its deferred os.Remove drops the error, and the file with it *)
(* or not.                                                                 *)
AbortPut(p) ==
    /\ pc[p] = "running"
    /\ \E t \in uploads[p] :
          /\ uploads' = [uploads EXCEPT ![p] = @ \ {t}]
          /\ \/ Erase(t) /\ UNCHANGED faults
             \/ Faulty /\ UNCHANGED disk
    /\ UNCHANGED <<pc, lockFile, fd, holder, pending, items, closeErr>>

(* Delete, the janitor or the last reader: a failing removal leaves the    *)
(* item where it was.  (Mutant: the item is forgotten either way.)         *)
DeleteForgetting(p) ==
    /\ pc[p] = "running"
    /\ \E b \in items[p] :
          /\ items' = [items EXCEPT ![p] = @ \ {b}]
          /\ \/ Erase(b) /\ UNCHANGED faults
             \/ Faulty /\ UNCHANGED disk
    /\ UNCHANGED <<pc, lockFile, fd, holder, pending, uploads, closeErr>>

Delete(p) ==
    /\ pc[p] = "running"
    /\ \E b \in items[p] :
          \/ /\ Erase(b)
             /\ items' = [items EXCEPT ![p] = @ \ {b}]
             /\ UNCHANGED faults
          \/ Faulty /\ UNCHANGED <<disk, items>>
    /\ UNCHANGED <<pc, lockFile, fd, holder, pending, uploads, closeErr>>

-----------------------------------------------------------------------------
(* Close, once the Puts are over.                                          *)

BeginClose(p) ==
    /\ pc[p] = "running"
    /\ uploads[p] = {}
    /\ pending' = [pending EXCEPT ![p] = items[p]]
    /\ items' = [items EXCEPT ![p] = {}]
    /\ Goto(p, "closing")
    /\ UNCHANGED <<lockFile, fd, holder, disk, uploads, closeErr, faults>>

(* A failing removal is joined to the result and the loop goes on.         *)
ClosePassesOver(p, n) ==
    /\ Faulty
    /\ closeErr' = [closeErr EXCEPT ![p] = TRUE]
    /\ pending' = [pending EXCEPT ![p] = @ \ {n}]
    /\ UNCHANGED disk

CloseRemoves(p) ==
    /\ pc[p] = "closing"
    /\ \E n \in pending[p] :
          \/ /\ Erase(n)
             /\ pending' = [pending EXCEPT ![p] = @ \ {n}]
             /\ UNCHANGED <<closeErr, faults>>
          \/ ClosePassesOver(p, n)
    /\ UNCHANGED <<pc, lockFile, fd, holder, items, uploads>>

CloseReady(p) == pc[p] = "closing" /\ pending[p] = {}

Closed(p) ==
    /\ CloseReady(p)
    /\ DropLock(p)
    /\ Goto(p, "closed")
    /\ UNCHANGED <<disk, pending, items, uploads, closeErr, faults>>

(* The process dies: its files stay, its descriptors do not.               *)
Die(p) ==
    /\ pc[p] \in Active
    /\ DropLock(p)
    /\ Goto(p, "dead")
    /\ pending' = [pending EXCEPT ![p] = {}]
    /\ items' = [items EXCEPT ![p] = {}]
    /\ uploads' = [uploads EXCEPT ![p] = {}]
    /\ UNCHANGED <<disk, closeErr, faults>>

-----------------------------------------------------------------------------
NewStep(p) ==
    \/ Flock(p) \/ Refused(p) \/ ListStale(p) \/ RemoveStale(p)
    \/ CleanFails(p) \/ Started(p)

RunStep(p) == CreateTemp(p) \/ Publish(p) \/ AbortPut(p) \/ Delete(p)

CloseStep(p) == CloseRemoves(p) \/ Closed(p)

Next ==
    \E p \in Procs :
        \/ OpenLockFile(p) \/ NewStep(p) \/ RunStep(p)
        \/ BeginClose(p) \/ CloseStep(p) \/ Die(p)

Spec == Init /\ [][Next]_vars

(* A process that has called New or Close runs on unless it dies; nobody   *)
(* has to call them.                                                       *)
FairSpec == Spec /\ \A p \in Procs : WF_vars(NewStep(p)) /\ WF_vars(CloseStep(p))

-----------------------------------------------------------------------------
(* At most one process is past the lock: no two stores ever clean, fill or *)
(* empty the directory at once, though the lock file outlives its          *)
(* holders, may be opened before the last one lets go, and is locked only  *)
(* afterwards (acquireDirectoryLock).                                      *)
OneLiveStore ==
    \A p, q \in Procs : pc[p] \in Owning /\ pc[q] \in Owning => p = q

(* Nobody but a store itself takes its files away: what it has published   *)
(* and not removed, and what its Puts are writing, is on the disk and is   *)
(* its own, whoever else tries to start on the directory (New, Close).     *)
LiveFilesSafe ==
    \A p \in Procs : \A n \in items[p] \cup uploads[p] : disk[n] = p

(* A store begins with a directory free of what earlier processes left,    *)
(* dead or failed at whatever step, and stays so: the quota it keeps is    *)
(* that of the disk (removeStaleFiles before New returns).                 *)
NothingInherited ==
    \A p \in Procs : pc[p] = "running" =>
        \A n \in Blobs \cup Temps : disk[n] \in {p, None}

(* The files of others never go, not even when their name ends like that   *)
(* of a blob (blobIDPattern, uploadTempPattern).                           *)
OthersKept == [][\A n \in Others : disk'[n] = disk[n]]_disk

(* A New that has the directory's lock file open returns, and a Close      *)
(* does, or the process dies: the lock is never waited for.                *)
CallsReturn ==
    \A p \in Procs : pc[p] \in {"opened", "locked", "cleaning", "closing"} ~>
        pc[p] \in {"running", "refused", "closed", "dead"}

=============================================================================
