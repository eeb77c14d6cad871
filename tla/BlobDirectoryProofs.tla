------------------------ MODULE BlobDirectoryProofs ------------------------
(***************************************************************************)
(* One live store per directory, for any number of processes, files and    *)
(* failures.  The argument: the lock's file is never replaced, so every    *)
(* descriptor of it is of the inode at its path (OneInode), and whoever is *)
(* past the lock is the one holder of that inode (HolderOwns).  What a     *)
(* store finds and keeps on the disk follows, because only the one holder  *)
(* touches files (FilesInv).                                               *)
(***************************************************************************)
EXTENDS BlobDirectory, FiniteSetTheorems, TLAPS

OneInode == \A p \in Procs : fd[p] # None => fd[p] = lockFile

HolderOwns ==
    \A p \in Procs : pc[p] \in Owning => lockFile # None /\ holder[lockFile] = p

LockInv == TypeOK /\ OneInode /\ HolderOwns

-----------------------------------------------------------------------------
(* The lock's file stays and its holder is the one process past the lock.  *)
LEMMA LockInit == Init => LockInv
BY NoneAssumption, NamesAssumption, FaultsAssumption
   DEF Init, LockInv, TypeOK, OneInode, HolderOwns, States, Owning, Active

LEMMA LockExcludes == LockInv => OneLiveStore
BY NoneAssumption DEF LockInv, HolderOwns, OneLiveStore, TypeOK

LEMMA LockNext == LockInv /\ [Next]_vars => LockInv'
<1> SUFFICES ASSUME LockInv, [Next]_vars PROVE LockInv'
    OBVIOUS
<1> USE NoneAssumption, NamesAssumption, FaultsAssumption
    DEF LockInv, TypeOK, OneInode, HolderOwns, States, Owning, Active, Goto,
        Faulty
<1>1. CASE UNCHANGED vars
    BY <1>1 DEF vars
<1>2. ASSUME NEW p \in Procs, OpenLockFile(p) PROVE LockInv'
    <2>1. CASE lockFile # None
        BY <1>2, <2>1 DEF OpenLockFile
    <2>2. CASE lockFile = None
        <3>1. PICK i \in Inodes : lockFile' = i /\ fd' = [fd EXCEPT ![p] = i]
            BY <1>2, <2>2 DEF OpenLockFile
        <3>2. \A q \in Procs : fd[q] = None /\ pc[q] \notin Owning
            BY <2>2
        <3>3. TypeOK'
            BY <1>2, <3>1 DEF OpenLockFile
        <3> QED
            BY <1>2, <3>1, <3>2, <3>3 DEF OpenLockFile
    <2> QED
        BY <2>1, <2>2
<1>3. ASSUME NEW p \in Procs, Flock(p) PROVE LockInv'
    <2>1. fd[p] \in Inodes /\ fd[p] = lockFile
        BY <1>3 DEF Flock
    <2>2. \A q \in Procs : pc[q] \notin Owning
        BY <1>3, <2>1 DEF Flock, LockFree
    <2> QED
        BY <1>3, <2>1, <2>2 DEF Flock
<1>4. ASSUME NEW p \in Procs, Refused(p) PROVE LockInv'
    BY <1>4 DEF Refused
<1>5. ASSUME NEW p \in Procs, ListStale(p) PROVE LockInv'
    BY <1>5 DEF ListStale, StaleNames, Names
<1>6. ASSUME NEW p \in Procs, RemoveStale(p) PROVE LockInv'
    BY <1>6 DEF RemoveStale, Erase
<1>7. ASSUME NEW p \in Procs, CleanFails(p) PROVE LockInv'
    <2>1. TypeOK'
        BY <1>7 DEF CleanFails, DropLock
    <2> QED
        BY <1>7, <2>1 DEF CleanFails, DropLock
<1>8. ASSUME NEW p \in Procs, Started(p) PROVE LockInv'
    BY <1>8 DEF Started
<1>9. ASSUME NEW p \in Procs, CreateTemp(p) PROVE LockInv'
    BY <1>9 DEF CreateTemp, Names
<1>10. ASSUME NEW p \in Procs, Publish(p) PROVE LockInv'
    <2>1. UNCHANGED <<pc, lockFile, fd, holder>>
        BY <1>10 DEF Publish, Names
    <2>2. TypeOK'
        BY <1>10 DEF Publish, Names
    <2> QED
        BY <2>1, <2>2
<1>11. ASSUME NEW p \in Procs, AbortPut(p) PROVE LockInv'
    <2>1. UNCHANGED <<pc, lockFile, fd, holder>>
        BY <1>11 DEF AbortPut
    <2>2. TypeOK'
        BY <1>11 DEF AbortPut, Erase, Names
    <2> QED
        BY <2>1, <2>2
<1>12. ASSUME NEW p \in Procs, Delete(p) PROVE LockInv'
    <2>1. UNCHANGED <<pc, lockFile, fd, holder>>
        BY <1>12 DEF Delete
    <2>2. TypeOK'
        BY <1>12 DEF Delete, Erase
    <2> QED
        BY <2>1, <2>2
<1>13. ASSUME NEW p \in Procs, BeginClose(p) PROVE LockInv'
    BY <1>13 DEF BeginClose, Names
<1>14. ASSUME NEW p \in Procs, CloseRemoves(p) PROVE LockInv'
    <2>1. UNCHANGED <<pc, lockFile, fd, holder>>
        BY <1>14 DEF CloseRemoves
    <2>2. PICK n \in pending[p] :
             \/ Erase(n) /\ UNCHANGED <<closeErr, faults>>
                /\ pending' = [pending EXCEPT ![p] = @ \ {n}]
             \/ ClosePassesOver(p, n)
        BY <1>14 DEF CloseRemoves
    <2>3. TypeOK'
        <3>1. UNCHANGED <<items, uploads>>
            BY <1>14 DEF CloseRemoves
        <3>2. CASE Erase(n) /\ UNCHANGED <<closeErr, faults>>
                   /\ pending' = [pending EXCEPT ![p] = @ \ {n}]
            BY <2>1, <3>1, <3>2 DEF Erase
        <3>3. CASE ClosePassesOver(p, n)
            BY <2>1, <3>1, <3>3 DEF ClosePassesOver
        <3> QED
            BY <2>2, <3>2, <3>3
    <2> QED
        BY <2>1, <2>3
<1>15. ASSUME NEW p \in Procs, Closed(p) PROVE LockInv'
    <2>1. TypeOK'
        BY <1>15 DEF Closed, CloseReady, DropLock
    <2> QED
        BY <1>15, <2>1 DEF Closed, CloseReady, DropLock
<1>16. ASSUME NEW p \in Procs, Die(p) PROVE LockInv'
    <2>1. TypeOK'
        BY <1>16 DEF Die, DropLock
    <2> QED
        BY <1>16, <2>1 DEF Die, DropLock
<1> QED
    BY <1>1, <1>2, <1>3, <1>4, <1>5, <1>6, <1>7, <1>8, <1>9, <1>10, <1>11,
       <1>12, <1>13, <1>14, <1>15, <1>16
    DEF Next, NewStep, RunStep, CloseStep

(* TypeOK: every variable keeps its type, and no path of New, Close or a   *)
(* death leaks the descriptor of the lock's file.                          *)
THEOREM DirectoryTypes == Spec => []TypeOK
<1>1. LockInv => TypeOK
    BY DEF LockInv
<1> QED
    BY LockInit, LockNext, <1>1, PTL DEF Spec

(* OneLiveStore: never two processes past the lock of one directory.       *)
THEOREM MutualExclusion == Spec => []OneLiveStore
    BY LockInit, LockNext, LockExcludes, PTL DEF Spec

-----------------------------------------------------------------------------
(* The files: only a running store has any, they are its own, and a store  *)
(* that cleans has every file it must remove still before it.              *)
OnlyRunningHaveFiles ==
    \A p \in Procs : items[p] \cup uploads[p] # {} => pc[p] = "running"

CleaningMissesNone ==
    \A p \in Procs : pc[p] = "cleaning" => StaleNames \subseteq pending[p]

FilesInv ==
    /\ OnlyRunningHaveFiles
    /\ LiveFilesSafe
    /\ CleaningMissesNone
    /\ NothingInherited

LEMMA FilesInit == Init => FilesInv
BY NoneAssumption, NamesAssumption
   DEF Init, FilesInv, OnlyRunningHaveFiles, LiveFilesSafe, CleaningMissesNone,
       NothingInherited

(* While one process is past the lock, no other is, and no other has files. *)
LEMMA OthersIdle ==
    ASSUME LockInv, FilesInv, NEW p \in Procs, pc[p] \in Owning,
           NEW q \in Procs, q # p
    PROVE  pc[q] \notin Owning /\ items[q] = {} /\ uploads[q] = {}
BY LockExcludes DEF OneLiveStore, FilesInv, OnlyRunningHaveFiles, Owning

LEMMA FilesNext == LockInv /\ FilesInv /\ [Next]_vars => FilesInv'
<1> SUFFICES ASSUME LockInv, FilesInv, [Next]_vars PROVE FilesInv'
    OBVIOUS
<1>0. LockInv'
    BY LockNext
<1>t. TypeOK /\ TypeOK'
    BY <1>0 DEF LockInv
<1> USE NoneAssumption, NamesAssumption, <1>t
    DEF TypeOK, FilesInv, OnlyRunningHaveFiles, LiveFilesSafe,
        CleaningMissesNone, NothingInherited, Goto, Names, StaleNames, Present
<1>1. CASE UNCHANGED vars
    BY <1>1 DEF vars
<1>2. ASSUME NEW p \in Procs, OpenLockFile(p) PROVE FilesInv'
    BY <1>2 DEF OpenLockFile
<1>3. ASSUME NEW p \in Procs, Flock(p) PROVE FilesInv'
    BY <1>3 DEF Flock
<1>4. ASSUME NEW p \in Procs, Refused(p) PROVE FilesInv'
    BY <1>4 DEF Refused
<1>5. ASSUME NEW p \in Procs, ListStale(p) PROVE FilesInv'
    BY <1>5 DEF ListStale
<1>6. ASSUME NEW p \in Procs, RemoveStale(p) PROVE FilesInv'
    <2>1. \A q \in Procs \ {p} :
             pc[q] \notin Owning /\ items[q] = {} /\ uploads[q] = {}
        BY <1>6, OthersIdle DEF RemoveStale, Owning
    <2>2. pc[p] = "cleaning" /\ items[p] = {} /\ uploads[p] = {}
        BY <1>6 DEF RemoveStale
    <2> QED
        BY <1>6, <2>1, <2>2 DEF RemoveStale, Erase, Owning
<1>7. ASSUME NEW p \in Procs, CleanFails(p) PROVE FilesInv'
    BY <1>7 DEF CleanFails
<1>8. ASSUME NEW p \in Procs, Started(p) PROVE FilesInv'
    BY <1>8 DEF Started
<1>9. ASSUME NEW p \in Procs, CreateTemp(p) PROVE FilesInv'
    <2>1. \A q \in Procs \ {p} :
             pc[q] \notin Owning /\ items[q] = {} /\ uploads[q] = {}
        BY <1>9, OthersIdle DEF CreateTemp, Owning
    <2> QED
        BY <1>9, <2>1 DEF CreateTemp, Owning
<1>10. ASSUME NEW p \in Procs, Publish(p) PROVE FilesInv'
    <2>1. \A q \in Procs \ {p} :
             pc[q] \notin Owning /\ items[q] = {} /\ uploads[q] = {}
        BY <1>10, OthersIdle DEF Publish, Owning
    <2> QED
        BY <1>10, <2>1 DEF Publish, Owning
<1>11. ASSUME NEW p \in Procs, AbortPut(p) PROVE FilesInv'
    <2>1. \A q \in Procs \ {p} :
             pc[q] \notin Owning /\ items[q] = {} /\ uploads[q] = {}
        BY <1>11, OthersIdle DEF AbortPut, Owning
    <2> QED
        BY <1>11, <2>1 DEF AbortPut, Erase, Owning
<1>12. ASSUME NEW p \in Procs, Delete(p) PROVE FilesInv'
    <2>1. \A q \in Procs \ {p} :
             pc[q] \notin Owning /\ items[q] = {} /\ uploads[q] = {}
        BY <1>12, OthersIdle DEF Delete, Owning
    <2> QED
        BY <1>12, <2>1 DEF Delete, Erase, Owning
<1>13. ASSUME NEW p \in Procs, BeginClose(p) PROVE FilesInv'
    BY <1>13 DEF BeginClose
<1>14. ASSUME NEW p \in Procs, CloseRemoves(p) PROVE FilesInv'
    <2>1. \A q \in Procs \ {p} :
             pc[q] \notin Owning /\ items[q] = {} /\ uploads[q] = {}
        BY <1>14, OthersIdle DEF CloseRemoves, Owning
    <2>2. pc[p] = "closing" /\ items[p] = {} /\ uploads[p] = {}
        BY <1>14 DEF CloseRemoves
    <2> QED
        BY <1>14, <2>1, <2>2 DEF CloseRemoves, ClosePassesOver, Erase, Owning
<1>15. ASSUME NEW p \in Procs, Closed(p) PROVE FilesInv'
    BY <1>15 DEF Closed, CloseReady
<1>16. ASSUME NEW p \in Procs, Die(p) PROVE FilesInv'
    BY <1>16 DEF Die
<1> QED
    BY <1>1, <1>2, <1>3, <1>4, <1>5, <1>6, <1>7, <1>8, <1>9, <1>10, <1>11,
       <1>12, <1>13, <1>14, <1>15, <1>16
    DEF Next, NewStep, RunStep, CloseStep

(* LiveFilesSafe: a running store's files are on the disk and its own,     *)
(* whatever other processes do to the directory.                           *)
THEOREM FilesSafe == Spec => []LiveFilesSafe
<1>1. FilesInv => LiveFilesSafe
    BY DEF FilesInv
<1> QED
    BY LockInit, LockNext, FilesInit, FilesNext, <1>1, PTL DEF Spec

(* NothingInherited: a store that runs shares the directory with no file   *)
(* of an earlier process.                                                  *)
THEOREM CleanStart == Spec => []NothingInherited
<1>1. FilesInv => NothingInherited
    BY DEF FilesInv
<1> QED
    BY LockInit, LockNext, FilesInit, FilesNext, <1>1, PTL DEF Spec

-----------------------------------------------------------------------------
(* The files of others: what a loop of removals has before it is a blob or  *)
(* the file of an upload, and no name of another file is one.               *)
PendingOwnKind == \A p \in Procs : pending[p] \subseteq Blobs \cup Temps

LEMMA PendingNext ==
    ASSUME LockInv, PendingOwnKind, [Next]_vars
    PROVE  PendingOwnKind'
<1> USE DEF PendingOwnKind, LockInv, TypeOK
<1>1. CASE UNCHANGED vars
    BY <1>1 DEF vars
<1>2. ASSUME NEW p \in Procs,
             OpenLockFile(p) \/ Flock(p) \/ Refused(p) \/ Started(p) \/ RunStep(p) \/ Closed(p)
      PROVE  PendingOwnKind'
    BY <1>2 DEF OpenLockFile, Flock, Refused, Started, RunStep, CreateTemp, Publish, AbortPut,
                Delete, Closed
<1>3. ASSUME NEW p \in Procs, ListStale(p) PROVE PendingOwnKind'
    BY <1>3 DEF ListStale, StaleNames
<1>4. ASSUME NEW p \in Procs, RemoveStale(p) \/ CloseRemoves(p) PROVE PendingOwnKind'
    BY <1>4 DEF RemoveStale, CloseRemoves, ClosePassesOver
<1>5. ASSUME NEW p \in Procs, CleanFails(p) \/ Die(p) PROVE PendingOwnKind'
    BY <1>5 DEF CleanFails, Die
<1>6. ASSUME NEW p \in Procs, BeginClose(p) PROVE PendingOwnKind'
    BY <1>6 DEF BeginClose
<1> QED
    BY <1>1, <1>2, <1>3, <1>4, <1>5, <1>6 DEF Next, NewStep, CloseStep

LEMMA OthersUntouched ==
    ASSUME LockInv, PendingOwnKind, [Next]_vars, NEW n \in Others
    PROVE  disk'[n] = disk[n]
<1> USE NamesAssumption DEF PendingOwnKind, LockInv, TypeOK
<1>0. n \notin Blobs \cup Temps /\ n \in Names
    BY DEF Names
<1>1. CASE disk' = disk
    BY <1>1
<1>2. ASSUME NEW m \in Blobs \cup Temps, Erase(m) PROVE disk'[n] = disk[n]
    BY <1>0, <1>2 DEF Erase, Names
<1>3. ASSUME NEW p \in Procs, RemoveStale(p) \/ CloseRemoves(p) PROVE disk'[n] = disk[n]
    <2>1. disk' = disk \/ \E m \in pending[p] : Erase(m)
        BY <1>3 DEF RemoveStale, CloseRemoves, ClosePassesOver
    <2> QED
        BY <1>1, <1>2, <2>1
<1>4. ASSUME NEW p \in Procs, CreateTemp(p) PROVE disk'[n] = disk[n]
    BY <1>0, <1>4 DEF CreateTemp
<1>5. ASSUME NEW p \in Procs, Publish(p) PROVE disk'[n] = disk[n]
    <2>1. PICK t \in uploads[p], b \in Blobs : disk' = [disk EXCEPT ![t] = None, ![b] = p]
        BY <1>5 DEF Publish
    <2> QED
        BY <1>0, <2>1
<1>6. ASSUME NEW p \in Procs, AbortPut(p) \/ Delete(p) PROVE disk'[n] = disk[n]
    <2>1. disk' = disk \/ \E m \in uploads[p] \cup items[p] : Erase(m)
        BY <1>6 DEF AbortPut, Delete
    <2> QED
        BY <1>1, <1>2, <2>1
<1> QED
    BY <1>1, <1>3, <1>4, <1>5, <1>6
       DEF Next, vars, OpenLockFile, NewStep, Flock, Refused, ListStale, CleanFails, Started,
           RunStep, BeginClose, CloseStep, Closed, Die

(* OthersKept: no store ever removes or makes a file that is not a blob's   *)
(* or an upload's.                                                          *)
THEOREM OthersStay == Spec => OthersKept
<1>1. Init => PendingOwnKind
    BY DEF Init, PendingOwnKind
<1>2. LockInv /\ PendingOwnKind /\ [Next]_vars => PendingOwnKind'
    BY PendingNext
<1>3. LockInv /\ PendingOwnKind /\ [Next]_vars => [\A n \in Others : disk'[n] = disk[n]]_disk
    BY OthersUntouched
<1> QED
    BY LockInit, LockNext, <1>1, <1>2, <1>3, PTL DEF Spec, OthersKept

-----------------------------------------------------------------------------
(* The lock is refused only while somebody has it.                          *)

\* A lock is held by a process that is past it and alive.
HeldByLive == \A i \in Inodes : holder[i] # None => pc[holder[i]] \in Owning

LEMMA HeldNext == LockInv /\ HeldByLive /\ [Next]_vars => HeldByLive'
<1> SUFFICES ASSUME LockInv, HeldByLive, [Next]_vars PROVE HeldByLive'
    OBVIOUS
<1> USE NoneAssumption DEF LockInv, TypeOK, HeldByLive, Owning, Goto
<1>1. ASSUME UNCHANGED <<holder, pc>> PROVE HeldByLive'
    BY <1>1
<1>2. ASSUME NEW p \in Procs, Flock(p) PROVE HeldByLive'
    BY <1>2 DEF Flock
<1>3. ASSUME NEW p \in Procs, DropLock(p), \A q \in Procs \ {p} : pc'[q] = pc[q]
      PROVE  HeldByLive'
    <2>1. \A i \in Inodes : holder'[i] # None => holder'[i] = holder[i] /\ holder[i] # p
        BY <1>3 DEF DropLock
    <2> QED
        BY <1>3, <2>1
<1>4. ASSUME NEW p \in Procs, CleanFails(p) \/ Closed(p) \/ Die(p) PROVE HeldByLive'
    BY <1>3, <1>4 DEF CleanFails, Closed, Die
<1>5. ASSUME NEW p \in Procs, OpenLockFile(p) \/ Refused(p) PROVE HeldByLive'
    BY <1>5 DEF OpenLockFile, Refused
<1>6. ASSUME NEW p \in Procs, ListStale(p) \/ Started(p) \/ BeginClose(p) PROVE HeldByLive'
    BY <1>6 DEF ListStale, Started, BeginClose
<1>7. ASSUME NEW p \in Procs, RemoveStale(p) \/ RunStep(p) \/ CloseRemoves(p) PROVE HeldByLive'
    BY <1>1, <1>7 DEF RemoveStale, RunStep, CreateTemp, Publish, AbortPut, Delete, CloseRemoves
<1>8. CASE UNCHANGED vars
    BY <1>1, <1>8 DEF vars
<1> QED
    BY <1>2, <1>4, <1>5, <1>6, <1>7, <1>8 DEF Next, NewStep, CloseStep

(* A New is refused the lock only while another process is past it: one    *)
(* that died or failed, at whatever step, locks nobody out, though its lock *)
(* file stays (acquireDirectoryLock).                                      *)
THEOREM NobodyLockedOut ==
    Spec => [][\A p \in Procs :
                  Refused(p) => \E q \in Procs \ {p} : pc[q] \in Owning]_vars
<1>1. Init => HeldByLive
    BY DEF Init, HeldByLive
<1>2. Init => LockInv
    BY LockInit
<1>3. LockInv /\ [Next]_vars => LockInv'
    BY LockNext
<1>4. Spec => [](LockInv /\ HeldByLive)
    BY <1>1, <1>2, <1>3, HeldNext, PTL DEF Spec
<1>5. ASSUME LockInv, HeldByLive, NEW p \in Procs, Refused(p)
      PROVE  \E q \in Procs \ {p} : pc[q] \in Owning
    <2>1. fd[p] \in Inodes /\ holder[fd[p]] # None
        BY <1>5 DEF Refused, LockFree, LockInv, TypeOK, Active
    <2>2. holder[fd[p]] \in Procs /\ pc[holder[fd[p]]] \in Owning
        BY <1>5, <2>1 DEF HeldByLive, LockInv, TypeOK
    <2>3. pc[p] = "opened"
        BY <1>5 DEF Refused
    <2> QED
        BY <2>2, <2>3 DEF Owning
<1>6. LockInv /\ HeldByLive /\ [Next]_vars =>
        [\A p \in Procs : Refused(p) => \E q \in Procs \ {p} : pc[q] \in Owning]_vars
    BY <1>5
<1> QED
    BY <1>4, <1>6, PTL DEF Spec

-----------------------------------------------------------------------------
(* A New and a Close end.                                                    *)

OwnNames == Blobs \cup Temps

\* The steps that a New, from its lock file on, or a Close has left.
CallLeft(p) ==
    CASE pc[p] = "opened" -> Cardinality(OwnNames) + 3
      [] pc[p] = "locked" -> Cardinality(OwnNames) + 2
      [] pc[p] \in {"cleaning", "closing"} -> Cardinality(pending[p]) + 1
      [] OTHER -> 0

StepOf(q) ==
    OpenLockFile(q) \/ NewStep(q) \/ RunStep(q) \/ BeginClose(q) \/ CloseStep(q) \/ Die(q)

\* What a step does for the call of p: each of its own is one of those it has left,
\* and no other process adds one or takes one away.
CallGoesOn(p) ==
    /\ OpenLockFile(p) \/ BeginClose(p) => CallLeft(p)' <= Cardinality(OwnNames) + 3
    /\ NewStep(p) \/ CloseStep(p) => CallLeft(p)' < CallLeft(p)
    /\ \A q \in Procs \ {p} : StepOf(q) => CallLeft(p)' = CallLeft(p)

LEMMA CardinalitiesAre ==
    ASSUME IsFiniteSet(OwnNames)
    PROVE  /\ Cardinality(OwnNames) \in Nat
           /\ \A S \in SUBSET OwnNames : /\ IsFiniteSet(S) /\ Cardinality(S) \in Nat
                                         /\ Cardinality(S) <= Cardinality(OwnNames)
                                         /\ \A n \in S : Cardinality(S \ {n}) = Cardinality(S) - 1
                                         /\ S # {} => Cardinality(S) > 0
<1>1. Cardinality(OwnNames) \in Nat
    BY FS_CardinalityType
<1>2. ASSUME NEW S \in SUBSET OwnNames
      PROVE  /\ IsFiniteSet(S) /\ Cardinality(S) \in Nat
             /\ Cardinality(S) <= Cardinality(OwnNames)
             /\ \A n \in S : Cardinality(S \ {n}) = Cardinality(S) - 1
    BY FS_Subset, FS_CardinalityType, FS_RemoveElement
<1>3. ASSUME NEW S \in SUBSET OwnNames, S # {} PROVE Cardinality(S) > 0
    BY <1>2, <1>3, FS_EmptySet
<1> QED
    BY <1>1, <1>2, <1>3

LEMMA CallSteps ==
    ASSUME LockInv, PendingOwnKind, IsFiniteSet(OwnNames), NEW p \in Procs
    PROVE  CallGoesOn(p)
<1> DEFINE c == Cardinality(OwnNames)
<1>1. /\ c \in Nat
      /\ \A S \in SUBSET OwnNames : /\ Cardinality(S) \in Nat /\ Cardinality(S) <= c
                                     /\ \A n \in S : Cardinality(S \ {n}) = Cardinality(S) - 1
                                     /\ S # {} => Cardinality(S) > 0
    BY CardinalitiesAre
<1>2. pending[p] \in SUBSET OwnNames /\ items[p] \in SUBSET OwnNames
    BY DEF PendingOwnKind, LockInv, TypeOK, OwnNames
<1>3. pc \in [Procs -> States] /\ pending \in [Procs -> SUBSET Names]
    BY DEF LockInv, TypeOK
<1> DEFINE k == Cardinality(pending[p])
<1>4. k \in Nat /\ k <= c
    BY <1>1, <1>2
<1>5. OpenLockFile(p) => CallLeft(p)' <= c + 3
    BY <1>1, <1>3 DEF OpenLockFile, Goto, CallLeft
<1>6. BeginClose(p) => CallLeft(p)' <= c + 3
    <2> SUFFICES ASSUME BeginClose(p) PROVE CallLeft(p)' <= c + 3
        OBVIOUS
    <2>1. pc'[p] = "closing" /\ pending'[p] = items[p]
        BY <1>3 DEF BeginClose, Goto
    <2>2. CallLeft(p)' = Cardinality(items[p]) + 1
        BY <2>1 DEF CallLeft
    <2> QED
        BY <1>1, <1>2, <2>2
<1>7. Flock(p) \/ Refused(p) => CallLeft(p)' < CallLeft(p)
    BY <1>1, <1>3 DEF Flock, Refused, Goto, CallLeft
<1>8. ListStale(p) => CallLeft(p)' < CallLeft(p)
    <2> SUFFICES ASSUME ListStale(p) PROVE CallLeft(p)' < CallLeft(p)
        OBVIOUS
    <2>1. pc[p] = "locked" /\ pc'[p] = "cleaning" /\ pending'[p] = StaleNames
        BY <1>3 DEF ListStale, Goto
    <2>2. StaleNames \in SUBSET OwnNames
        BY DEF StaleNames, OwnNames
    <2>3. CallLeft(p)' = Cardinality(StaleNames) + 1 /\ CallLeft(p) = c + 2
        BY <2>1 DEF CallLeft
    <2> QED
        BY <1>1, <2>2, <2>3
<1>9. ASSUME NEW n \in pending[p], pc[p] \in {"cleaning", "closing"},
             UNCHANGED pc, pending' = [pending EXCEPT ![p] = @ \ {n}]
      PROVE  CallLeft(p)' < CallLeft(p)
    <2>1. pending'[p] = pending[p] \ {n} /\ pc'[p] = pc[p]
        BY <1>3, <1>9
    <2>2. Cardinality(pending[p] \ {n}) = k - 1
        <3>1. IsFiniteSet(pending[p])
            BY <1>2, FS_Subset
        <3> QED
            BY <1>9, <3>1, FS_RemoveElement
    <2>3. CallLeft(p)' = (k - 1) + 1 /\ CallLeft(p) = k + 1
        BY <1>9, <2>1, <2>2 DEF CallLeft
    <2> QED
        BY <1>4, <2>3
<1>10. RemoveStale(p) \/ CloseRemoves(p) => CallLeft(p)' < CallLeft(p)
    BY <1>9 DEF RemoveStale, CloseRemoves, ClosePassesOver
<1>11. CleanFails(p) \/ Started(p) \/ Closed(p) => CallLeft(p)' < CallLeft(p)
    <2> SUFFICES ASSUME CleanFails(p) \/ Started(p) \/ Closed(p) PROVE CallLeft(p)' < CallLeft(p)
        OBVIOUS
    <2>1. pc[p] \in {"locked", "cleaning", "closing"} /\ pc'[p] \in {"refused", "running", "closed"}
        BY <1>3 DEF CleanFails, Started, Closed, CloseReady, Goto
    <2>2. CallLeft(p)' = 0 /\ CallLeft(p) \in {c + 2, k + 1}
        BY <2>1 DEF CallLeft
    <2> QED
        BY <1>1, <1>4, <2>2
<1>12. ASSUME NEW q \in Procs \ {p}, StepOf(q) PROVE CallLeft(p)' = CallLeft(p)
    <2>1. pc'[p] = pc[p] /\ pending'[p] = pending[p]
        BY <1>3, <1>12 DEF StepOf, OpenLockFile, NewStep, Flock, Refused, ListStale, RemoveStale,
           CleanFails, Started, RunStep, CreateTemp, Publish, AbortPut, Delete, BeginClose,
           CloseStep, CloseRemoves, ClosePassesOver, Closed, Die, Goto
    <2> QED
        BY <2>1 DEF CallLeft
<1> QED
    BY <1>5, <1>6, <1>7, <1>8, <1>10, <1>11, <1>12 DEF CallGoesOn, NewStep, CloseStep

(* A New and a Close end, whatever other processes do beside them: of the   *)
(* finitely many names blobs and uploads can have, each is removed at most  *)
(* once, and the lock, which is taken or refused at once, is one step.      *)
(* (What is left of CallsReturn is the fairness of the scheduler.)          *)
THEOREM DirectoryCallsEnd ==
    ASSUME IsFiniteSet(OwnNames)
    PROVE  Spec => [][\A p \in Procs : CallGoesOn(p)]_vars
<1>1. Init => PendingOwnKind
    BY DEF Init, PendingOwnKind
<1>2. LockInv /\ PendingOwnKind /\ [Next]_vars => PendingOwnKind'
    BY PendingNext
<1>3. LockInv /\ PendingOwnKind /\ [Next]_vars => [\A p \in Procs : CallGoesOn(p)]_vars
    BY CallSteps
<1> QED
    BY LockInit, LockNext, <1>1, <1>2, <1>3, PTL DEF Spec
=============================================================================
