----------------------------- MODULE BundleWrite -----------------------------
(****************************************************************************)
(* One artifact of a workspace root (application/source.go): its primary    *)
(* file and managed sidecars, the calls of WriteBundle and WriteFile that    *)
(* replace them one at a time behind writeMu, and readers that resolve and   *)
(* open them without it.                                                    *)
(*                                                                          *)
(* One action is one system call on the directory.  Each may fail, and the   *)
(* process may crash between any two.  A file's content is the call that     *)
(* wrote it; the names of temporary files and backups are random and belong  *)
(* to one call.  Only this process touches the directory.                   *)
(****************************************************************************)
EXTENDS Integers, Sequences, FiniteSets

CONSTANTS
  BundleCalls, FileCalls,  \* the calls of WriteBundle, and of WriteFile
  Readers,
  Managed,                 \* managedTargets: the sidecars, then the primary
  Original,                \* the content of a file before all calls
  Partial,                 \* the content of a file written in part
  NoFile, NoCall

Calls   == BundleCalls \union FileCalls
Targets == {Managed[i] : i \in DOMAIN Managed}
Primary == Managed[Len(Managed)]

ASSUME ManagedAssumption ==
  /\ Managed \in Seq(Targets) /\ Len(Managed) > 0
  /\ \A i, j \in DOMAIN Managed : Managed[i] = Managed[j] => i = j

ASSUME ContentAssumption ==
  /\ NoFile \notin Calls \union {Original, Partial}
  /\ Partial \notin Calls \union {Original} /\ Original \notin Calls
  /\ NoCall \notin Calls /\ BundleCalls \intersect FileCalls = {}

VARIABLES
  \* the directory: the managed files, and what each call left beside them
  target, temp, backup,
  \* the call that holds writeMu: its step, the files of its request, the
  \* index of its loop, the staged files, the installed ones in order, the
  \* backups still to be dropped, its result so far
  call, pc, files, at, staged, installed, drop, outcome,
  \* history: the managed files as the call found them, the calls made so far,
  \* in their order, and the kinds of failure met
  before, history, faults,
  \* the readers: the step, the index of its loops, what the files had when it
  \* found them, and what they had when it opened them
  rpc, rat, found, seen

directory  == <<target, temp, backup>>
callVars   == <<call, pc, files, at, staged, installed, drop, outcome, before, history>>
readerVars == <<rpc, rat, found, seen>>
vars == <<directory, callVars, faults, readerVars>>

Content  == Calls \union {Original, Partial, NoFile}
Steps == {"idle", "stage", "copy", "backup", "install", "replace", "drop", "undo",
          "restore", "clean"}
Faults == {"remove", "undo", "crash"}

TypeOK ==
  /\ target \in [Targets -> Content]
  /\ temp \in [Calls -> [Targets -> Content]] /\ backup \in [Calls -> [Targets -> Content]]
  /\ call \in Calls \union {NoCall} /\ pc \in Steps
  /\ files \subseteq Targets /\ at \in 0..(Len(Managed) + 1)
  /\ staged \subseteq Targets /\ installed \in Seq(Targets) /\ drop \subseteq Targets
  /\ outcome \in {"none", "ok", "error"}
  /\ before \in [Targets -> Content] /\ history \in Seq(Calls)
  /\ faults \subseteq Faults
  /\ rpc \in [Readers -> {"idle", "stat", "open", "done", "failed"}]
  /\ rat \in [Readers -> 0..(Len(Managed) - 1)]
  /\ found \in [Readers -> [Targets -> Content]] /\ seen \in [Readers -> [Targets -> Content]]

Nothing == [t \in Targets |-> NoFile]

Init ==
  /\ \E S \in SUBSET Targets : target = [t \in Targets |-> IF t \in S THEN Original ELSE NoFile]
  /\ temp = [c \in Calls |-> Nothing] /\ backup = [c \in Calls |-> Nothing]
  /\ call = NoCall /\ pc = "idle" /\ files = {} /\ at = 0
  /\ staged = {} /\ installed = <<>> /\ drop = {} /\ outcome = "none"
  /\ before = target /\ history = <<>> /\ faults = {}
  /\ rpc = [r \in Readers |-> "idle"] /\ rat = [r \in Readers |-> 0]
  /\ found = [r \in Readers |-> Nothing] /\ seen = [r \in Readers |-> Nothing]

-----------------------------------------------------------------------------
(* Helpers *)

Installed == {installed[i] : i \in DOMAIN installed}
Made == {history[i] : i \in DOMAIN history}

\* A file of the call that holds the lock comes or goes.
TempBecomes(t, content)   == temp' = [temp EXCEPT ![call][t] = content]
BackupBecomes(t, content) == backup' = [backup EXCEPT ![call][t] = content]

\* root.Remove of a file whose name holds `content`, the error dropped: the
\* name then holds `left`.
Removal(content, left, kind) ==
  \/ left = NoFile /\ UNCHANGED faults
  \/ content # NoFile /\ left = content /\ faults' = faults \union {kind}

\* The lock is free, and the variables of the call are gone.
LocalsGone ==
  /\ pc' = "idle" /\ call' = NoCall
  /\ files' = {} /\ at' = 0 /\ staged' = {} /\ installed' = <<>> /\ drop' = {}

\* Before the call returns its deferred functions run.
Fail == outcome' = "error" /\ pc' = "clean"

CallFrame == UNCHANGED <<call, files, before, history, readerVars>>

-----------------------------------------------------------------------------
(* WriteBundle and WriteFile: up to the installation *)

\* The lock is taken and the request is valid; a WriteFile has the primary only.
Begin(c, requested) ==
  /\ pc = "idle" /\ c \notin Made
  /\ Primary \in requested
  /\ c \in FileCalls => requested = {Primary}
  /\ call' = c /\ pc' = "stage" /\ files' = requested /\ at' = 0
  /\ staged' = {} /\ installed' = <<>> /\ drop' = {} /\ outcome' = "none"
  /\ before' = target /\ history' = Append(history, c)
  /\ UNCHANGED <<directory, faults, readerVars>>

\* rootedTempName and OpenFile, for the next file of the request; a failure, or
\* one of MkdirAll before it, ends the call.
CreateTemp(t) ==
  /\ pc = "stage" /\ t \in files \ staged
  /\ \/ TempBecomes(t, Partial) /\ pc' = "copy" /\ UNCHANGED outcome
     \/ Fail /\ UNCHANGED temp
  /\ CallFrame
  /\ UNCHANGED <<target, backup, at, staged, installed, drop, faults>>

\* io.Copy, Sync and Close of a file: it is whole, or it is whole but not what
\* the request said, or it fails (reader, limit, disk) and is removed.
CopyTemp(t) ==
  /\ pc = "copy" /\ temp[call][t] = Partial
  /\ \/ /\ TempBecomes(t, call) /\ staged' = staged \union {t}
        /\ \/ pc' = "stage" /\ UNCHANGED outcome
           \/ Fail
        /\ UNCHANGED faults
     \/ /\ \E left \in {NoFile, Partial} :
             Removal(Partial, left, "remove") /\ TempBecomes(t, left)
        /\ Fail
        /\ UNCHANGED staged
  /\ CallFrame
  /\ UNCHANGED <<target, backup, at, installed, drop>>

\* Mutant of StagedAll: a WriteFile moves its target away first, too.
StagedAllBackingUp ==
  /\ pc = "stage" /\ staged = files
  /\ pc' = "backup" /\ at' = 1
  /\ CallFrame
  /\ UNCHANGED <<directory, staged, installed, drop, outcome, faults>>

\* Everything is staged, and the context is live or not.
StagedAll ==
  /\ pc = "stage" /\ staged = files
  /\ \/ /\ pc' = IF call \in FileCalls THEN "replace" ELSE "backup"
        /\ at' = 1 /\ UNCHANGED outcome
     \/ Fail /\ UNCHANGED at
  /\ CallFrame
  /\ UNCHANGED <<directory, staged, installed, drop, faults>>

\* The commit of a WriteFile: one rename over the target.
ReplaceFile ==
  /\ pc = "replace"
  /\ pc' = "clean"
  /\ \/ /\ target' = [target EXCEPT ![Primary] = temp[call][Primary]]
        /\ TempBecomes(Primary, NoFile)
        /\ staged' = {} /\ outcome' = "ok"
     \/ outcome' = "error" /\ UNCHANGED <<target, temp, staged>>
  /\ CallFrame
  /\ UNCHANGED <<backup, at, installed, drop, faults>>

-----------------------------------------------------------------------------
(* WriteBundle: backup, installation, and its undoing *)

\* Mutant of BackUp: the target is removed, and nothing is kept.
BackUpByRemoval ==
  /\ pc = "backup" /\ at <= Len(Managed)
  /\ target' = [target EXCEPT ![Managed[at]] = NoFile]
  /\ at' = at + 1
  /\ CallFrame
  /\ UNCHANGED <<temp, backup, pc, staged, installed, drop, outcome, faults>>

\* Mutant of BackUp: only the files of the request are moved.
BackUpRequested ==
  /\ pc = "backup" /\ at <= Len(Managed)
  /\ LET t == Managed[at] IN
       IF t \in files /\ target[t] # NoFile
         THEN /\ BackupBecomes(t, target[t])
              /\ target' = [target EXCEPT ![t] = NoFile]
              /\ drop' = drop \union {t}
         ELSE UNCHANGED <<target, backup, drop>>
  /\ at' = at + 1
  /\ CallFrame
  /\ UNCHANGED <<temp, pc, staged, installed, outcome, faults>>

\* The next target moves to its backup, if there is one.
BackUp ==
  /\ pc = "backup" /\ at <= Len(Managed)
  /\ LET t == Managed[at] IN
       \/ /\ target[t] # NoFile
          /\ BackupBecomes(t, target[t])
          /\ target' = [target EXCEPT ![t] = NoFile]
          /\ drop' = drop \union {t}
          /\ at' = at + 1 /\ UNCHANGED pc
       \/ /\ target[t] = NoFile
          /\ at' = at + 1
          /\ UNCHANGED <<target, backup, drop, pc>>
       \/ pc' = "undo" /\ UNCHANGED <<target, backup, drop, at>>
  /\ CallFrame
  /\ UNCHANGED <<temp, staged, installed, outcome, faults>>

BackedUp ==
  /\ pc = "backup" /\ at > Len(Managed)
  /\ pc' = "install"
  /\ CallFrame
  /\ UNCHANGED <<directory, at, staged, installed, drop, outcome, faults>>

\* Mutant of Install: the files are installed in the order of the request.
InstallUnsorted(t) ==
  /\ pc = "install" /\ t \in files \ Installed
  /\ target' = [target EXCEPT ![t] = temp[call][t]]
  /\ TempBecomes(t, NoFile)
  /\ staged' = staged \ {t}
  /\ installed' = Append(installed, t)
  /\ CallFrame
  /\ UNCHANGED <<backup, pc, at, drop, outcome, faults>>

\* The next staged file gets its name, the primary after the sidecars; or the
\* context is cancelled, or the rename fails.
Install(t) ==
  /\ pc = "install" /\ t \in files \ Installed
  /\ t = Primary => Installed = files \ {Primary}
  /\ \/ /\ target' = [target EXCEPT ![t] = temp[call][t]]
        /\ TempBecomes(t, NoFile)
        /\ staged' = staged \ {t}
        /\ installed' = Append(installed, t)
        /\ UNCHANGED pc
     \/ pc' = "undo" /\ UNCHANGED <<target, temp, staged, installed>>
  /\ CallFrame
  /\ UNCHANGED <<backup, at, drop, outcome, faults>>

\* Every file is installed: the bundle is committed.
InstalledAll ==
  /\ pc = "install" /\ Installed = files
  /\ pc' = "drop" /\ outcome' = "ok"
  /\ CallFrame
  /\ UNCHANGED <<directory, at, staged, installed, drop, faults>>

\* The backups go, in any order; a failure is dropped.
DropBackup(t) ==
  /\ pc = "drop" /\ t \in drop
  /\ \E left \in {NoFile, backup[call][t]} :
       Removal(backup[call][t], left, "remove") /\ BackupBecomes(t, left)
  /\ drop' = drop \ {t}
  /\ CallFrame
  /\ UNCHANGED <<target, temp, pc, at, staged, installed, outcome>>

DroppedAll ==
  /\ pc = "drop" /\ drop = {}
  /\ pc' = "clean"
  /\ CallFrame
  /\ UNCHANGED <<directory, at, staged, installed, drop, outcome, faults>>

\* rollback: what was installed goes, the last one first.
Undo ==
  /\ pc = "undo" /\ installed # <<>>
  /\ LET t == installed[Len(installed)] IN
       \E left \in {NoFile, target[t]} :
         Removal(target[t], left, "undo") /\ target' = [target EXCEPT ![t] = left]
  /\ installed' = SubSeq(installed, 1, Len(installed) - 1)
  /\ CallFrame
  /\ UNCHANGED <<temp, backup, pc, at, staged, drop, outcome>>

\* Mutant of Undone: what was installed stays when the backups come back.
UndoneAtOnce ==
  /\ pc = "undo"
  /\ pc' = "restore" /\ at' = Len(Managed)
  /\ CallFrame
  /\ UNCHANGED <<directory, staged, installed, drop, outcome, faults>>

Undone ==
  /\ pc = "undo" /\ installed = <<>>
  /\ pc' = "restore" /\ at' = Len(Managed)
  /\ CallFrame
  /\ UNCHANGED <<directory, staged, installed, drop, outcome, faults>>

\* Then each backup gets its name back, from the primary to the first sidecar.
Restore ==
  /\ pc = "restore" /\ at > 0
  /\ LET t == Managed[at] IN
       \/ /\ t \in drop
          /\ target' = [target EXCEPT ![t] = backup[call][t]]
          /\ BackupBecomes(t, NoFile)
          /\ drop' = drop \ {t}
          /\ UNCHANGED faults
       \/ /\ t \in drop
          /\ faults' = faults \union {"undo"}
          /\ UNCHANGED <<target, backup, drop>>
       \/ t \notin drop /\ UNCHANGED <<target, backup, drop, faults>>
  /\ at' = at - 1
  /\ CallFrame
  /\ UNCHANGED <<temp, pc, staged, installed, outcome>>

Restored ==
  /\ pc = "restore" /\ at = 0
  /\ Fail
  /\ CallFrame
  /\ UNCHANGED <<directory, at, staged, installed, drop, faults>>

\* The deferred cleanup of what is still staged, then the return.
Clean(t) ==
  /\ pc = "clean" /\ t \in staged
  /\ \E left \in {NoFile, temp[call][t]} :
       Removal(temp[call][t], left, "remove") /\ TempBecomes(t, left)
  /\ staged' = staged \ {t}
  /\ CallFrame
  /\ UNCHANGED <<target, backup, pc, at, installed, drop, outcome>>

\* Mutant of Return: what is staged is not cleaned up.
ReturnUncleaned ==
  /\ pc = "clean"
  /\ LocalsGone
  /\ UNCHANGED <<directory, outcome, before, history, faults, readerVars>>

Return ==
  /\ pc = "clean" /\ staged = {}
  /\ LocalsGone
  /\ UNCHANGED <<directory, outcome, before, history, faults, readerVars>>

\* The process dies in the middle of a call; another one finds the directory.
Crash ==
  /\ pc # "idle"
  /\ LocalsGone
  /\ faults' = faults \union {"crash"}
  /\ rpc' = [r \in Readers |-> IF rpc[r] \in {"stat", "open"} THEN "failed" ELSE rpc[r]]
  /\ UNCHANGED <<directory, outcome, before, history, rat, found, seen>>

-----------------------------------------------------------------------------
(* Resolve and materialize, without writeMu: the primary is looked up and then *)
(* read first, the sidecars after it in their order.                        *)

\* Mutant of FileOf: the primary comes last.
FileOfSidecarsFirst(n) == Managed[n + 1]

FileOf(n) == IF n = 0 THEN Primary ELSE Managed[n]

ReaderFrame == UNCHANGED <<directory, callVars, faults>>

Stat(r) ==
  /\ rpc[r] \in {"idle", "stat"}
  /\ LET n == rat[r]
         t == FileOf(n)
         last == n + 1 = Len(Managed)
     IN /\ found' = [found EXCEPT ![r][t] = target[t]]
        /\ rat' = [rat EXCEPT ![r] = IF last THEN 0 ELSE n + 1]
        /\ rpc' = [rpc EXCEPT ![r] = IF n = 0 /\ target[t] = NoFile THEN "failed"
                                     ELSE IF last THEN "open" ELSE "stat"]
  /\ ReaderFrame /\ UNCHANGED seen

\* A file that is gone fails the reader, and so does one whose size is not the
\* one it was found with; another content may have the same size.
OpenFound(r) ==
  /\ rpc[r] = "open"
  /\ LET n == rat[r]
         t == FileOf(n)
         last == n + 1 = Len(Managed)
     IN \/ /\ found[r][t] = NoFile \/ target[t] # NoFile
           /\ seen' = [seen EXCEPT ![r][t] = IF found[r][t] = NoFile THEN NoFile ELSE target[t]]
           /\ rat' = [rat EXCEPT ![r] = IF last THEN 0 ELSE n + 1]
           /\ rpc' = [rpc EXCEPT ![r] = IF last THEN "done" ELSE "open"]
        \/ /\ found[r][t] # NoFile /\ target[t] # found[r][t]
           /\ rpc' = [rpc EXCEPT ![r] = "failed"]
           /\ UNCHANGED <<seen, rat>>
  /\ ReaderFrame /\ UNCHANGED found

-----------------------------------------------------------------------------
Terminated ==
  /\ pc = "idle" /\ Made = Calls
  /\ UNCHANGED vars

CallStep ==
  \/ \E t \in Targets : CreateTemp(t) \/ CopyTemp(t) \/ Install(t) \/ DropBackup(t) \/ Clean(t)
  \/ StagedAll \/ ReplaceFile \/ BackUp \/ BackedUp \/ InstalledAll \/ DroppedAll
  \/ Undo \/ Undone \/ Restore \/ Restored \/ Return

Next ==
  \/ \E c \in Calls, requested \in SUBSET Targets : Begin(c, requested)
  \/ CallStep \/ Crash
  \/ \E r \in Readers : Stat(r) \/ OpenFound(r)
  \/ Terminated

Spec == Init /\ [][Next]_vars
-----------------------------------------------------------------------------
(* Properties *)

\* A call leaves its whole bundle and no sidecar of another one, or, if it fails
\* and no step of its rollback does, the files as they were (source.go:513-743,
\* docs/transport-api.md:230).
AllOrNothing ==
  pc = "clean" /\ "undo" \notin faults =>
    /\ outcome = "error" => target = before
    /\ outcome = "ok" =>
         target = [t \in Targets |-> IF t \in files THEN call
                                     ELSE IF call \in FileCalls THEN before[t] ELSE NoFile]

\* Whatever fails or crashes, each file that a call found is still on the disk,
\* under its name or as a backup, until the call has installed all of its own
\* (source.go:684-730).
NothingLost ==
  outcome # "ok" =>
    \A t \in Targets : before[t] # NoFile =>
      target[t] = before[t] \/ \E c \in Calls : backup[c][t] = before[t]

\* "stale metadata cannot be paired with a new primary file"
\* (docs/transport-api.md:232): the primary and the sidecars beside it are of one
\* bundle in every state, those a crash leaves included, and so are the files of a
\* rollback.  (After a step of a rollback that failed, or a WriteFile, which
\* replaces the primary alone, they need not be.)
NeverPaired ==
  /\ "undo" \notin faults
  /\ target[Primary] \notin FileCalls \union {NoFile}
  => \A t \in Targets : target[t] \in {target[Primary], NoFile}

\* The primary of a bundle has its name only when all of the sidecars have
\* theirs, so that a process that finds it after a crash finds a whole bundle
\* (source.go:710-723).
PrimaryLast ==
  call # NoCall /\ target[Primary] = call => \A t \in files : target[t] = call

\* When the bundle at a name was last written: Original is older than all calls.
Newer(a, b) ==
  /\ a \in Calls
  /\ b \in Calls => \E i, j \in DOMAIN history : i > j /\ history[i] = a /\ history[j] = b

\* Nor does a reader that takes no lock pair them: a sidecar it reads is of the
\* bundle of the primary it read, or of a later one (source.go:346-384,
\* application/engine.go:530-541).
NoStaleSidecarRead ==
  \A r \in Readers : rpc[r] = "done" /\ seen[r][Primary] \notin FileCalls =>
    \A t \in Targets : seen[r][t] \in Calls \union {Original} =>
      seen[r][t] = seen[r][Primary] \/ Newer(seen[r][t], seen[r][Primary])

\* A call leaves nothing beside its files unless a removal failed or the process
\* died (source.go:628-635, 651-666, 734-736).
NoLitter ==
  pc = "idle" /\ faults = {} => \A c \in Calls : temp[c] = Nothing /\ backup[c] = Nothing

\* A WriteFile replaces the primary in one step: it is never missing
\* (source.go:484).
WriteFileKeepsPrimary ==
  [][(call \in FileCalls /\ target[Primary] # NoFile) => (target'[Primary] # NoFile)]_vars

\* "atomically install the primary file and managed sidecars"
\* (docs/cli-document.md:568, server.go:1194): a reader of a name that had a file
\* before and after finds one.
InstallIsAtomic ==
  \A r \in Readers : rpc[r] = "failed" /\ found[r] = Nothing /\ faults = {} =>
    before[Primary] = NoFile
=============================================================================
