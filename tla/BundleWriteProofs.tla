------------------------- MODULE BundleWriteProofs -------------------------
(****************************************************************************)
(* Proofs about BundleWrite, for any number of calls, sidecars and readers.  *)
(* The inductive invariant says, for each phase of a call, where the files   *)
(* it found are and what it has installed.                                  *)
(****************************************************************************)
EXTENDS BundleWrite, SequenceTheorems, FiniteSetTheorems, TLAPS

-----------------------------------------------------------------------------
(* The inductive invariant *)

UndoFailed == "undo" \in faults
Busy == pc # "idle"

\* Files of one bundle, or of no bundle (a WriteFile, or no primary).
Matched(f) ==
  f[Primary] \notin FileCalls \union {NoFile} =>
    \A t \in Targets : f[t] \in {f[Primary], NoFile}

\* What a committed call leaves at a name.
Committed(t) ==
  IF t \in files THEN call ELSE IF call \in FileCalls THEN before[t] ELSE NoFile

\* The call that is running, and what it has staged.
Running ==
  /\ Busy => call \in Made
  /\ ~Busy => call = NoCall
  /\ Busy => Primary \in files
  /\ Busy /\ call \in FileCalls => files = {Primary}
  /\ pc = "replace" => call \in FileCalls
  /\ pc \in {"backup", "install", "drop", "undo", "restore"} => call \notin FileCalls

Staging ==
  /\ \A c \in Calls \ Made : temp[c] = Nothing
  /\ staged \subseteq files
  /\ Busy => \A t \in staged : temp[call][t] = call
  /\ pc \in {"stage", "copy"} => \A t \in Targets : temp[call][t] = Partial => t \in files
  /\ pc \in {"backup", "replace"} => staged = files
  /\ pc = "install" => files \ Installed \subseteq staged

\* A call is in no file before it installs one.
Old ==
  /\ \A t \in Targets : target[t] \in Made \union {Original, NoFile}
  /\ \A t \in Targets : before[t] \in Made \union {Original, NoFile}
  /\ Busy => \A t \in Targets : before[t] # call
  /\ UndoFailed \/ Matched(before)

\* Until the old files are moved, nothing has changed.
BeforeMoving ==
  pc \in {"stage", "copy", "replace"} => target = before /\ drop = {} /\ installed = <<>>

Moving ==
  pc = "backup" =>
    /\ installed = <<>> /\ at > 0
    /\ \A t \in drop : target[t] = NoFile /\ backup[call][t] = before[t]
    /\ \A t \in Targets \ drop : target[t] = before[t]
    /\ \A i \in DOMAIN Managed : i < at => target[Managed[i]] = NoFile

Installing ==
  pc = "install" =>
    /\ \A t \in drop : backup[call][t] = before[t]
    /\ \A t \in Targets \ drop : before[t] = NoFile
    /\ \A t \in Targets : target[t] = IF t \in Installed THEN call ELSE NoFile
    /\ Installed \subseteq files
    /\ Primary \in Installed => Installed = files

Dropping ==
  pc = "drop" => outcome = "ok" /\ \A t \in Targets : target[t] = Committed(t)

Undoing ==
  pc = "undo" =>
    /\ \A t \in drop : backup[call][t] = before[t]
    /\ \A t \in Targets : t \in drop /\ t \notin Installed => target[t] = NoFile \/ UndoFailed
    /\ \A t \in Targets : t \notin drop /\ t \in Installed => before[t] = NoFile
    /\ \A t \in Targets : t \notin drop /\ t \notin Installed =>
         target[t] = before[t] \/ (UndoFailed /\ before[t] = NoFile)
    /\ UndoFailed \/ target[Primary] = NoFile \/ \A t \in Targets : target[t] \in {before[t], NoFile}

Restoring ==
  pc = "restore" =>
    /\ \A t \in drop : backup[call][t] = before[t]
    /\ \A t \in drop : UndoFailed \/ (target[t] = NoFile /\ \E i \in DOMAIN Managed : i <= at /\ Managed[i] = t)
    /\ \A t \in Targets \ drop : target[t] = before[t] \/ (UndoFailed /\ before[t] = NoFile)

Cleaning ==
  pc = "clean" =>
    /\ outcome = "ok" => \A t \in Targets : target[t] = Committed(t)
    /\ outcome = "error" =>
         \A t \in Targets : \/ target[t] = before[t]
                            \/ UndoFailed /\ (before[t] = NoFile \/ backup[call][t] = before[t])
    /\ outcome # "none"

\* The new primary does not outlive a failure.
NoNewPrimary ==
  pc \in {"undo", "restore"} \/ (pc = "clean" /\ outcome = "error") => target[Primary] # call

Between == ~Busy => NothingLost /\ NeverPaired

IInv ==
  /\ TypeOK /\ Running /\ Staging /\ Old
  /\ BeforeMoving /\ Moving /\ Installing /\ Dropping /\ Undoing /\ Restoring /\ Cleaning
  /\ NoNewPrimary /\ Between

-----------------------------------------------------------------------------
(* Facts about the data *)

LEMMA ManagedFacts ==
  /\ Len(Managed) \in Nat /\ Len(Managed) > 0
  /\ DOMAIN Managed = 1..Len(Managed)
  /\ \A i \in 1..Len(Managed) : Managed[i] \in Targets
  /\ \A t \in Targets : \E i \in 1..Len(Managed) : Managed[i] = t
  /\ Primary \in Targets
<1>1. Managed \in Seq(Targets) /\ Len(Managed) > 0
  BY ManagedAssumption
<1>2. DOMAIN Managed = 1..Len(Managed) /\ Len(Managed) \in Nat
  BY <1>1
<1> QED
  BY <1>1, <1>2 DEF Targets, Primary

\* The values a file or the lock may have are different.
LEMMA ContentFacts ==
  /\ NoFile \notin Calls /\ NoFile # Original /\ NoFile # Partial
  /\ Partial \notin Calls /\ Partial # Original
  /\ Original \notin Calls /\ NoCall \notin Calls
  /\ BundleCalls \intersect FileCalls = {}
  /\ BundleCalls \subseteq Calls /\ FileCalls \subseteq Calls
BY ContentAssumption DEF Calls

\* What a sequence holds after it grows or shrinks by one.
LEMMA RangeAppend ==
  ASSUME NEW S, NEW s \in Seq(S), NEW x \in S
  PROVE  /\ Append(s, x) \in Seq(S)
         /\ {Append(s, x)[i] : i \in DOMAIN Append(s, x)} = {s[i] : i \in DOMAIN s} \union {x}
<1>1. Append(s, x) \in Seq(S) /\ Len(Append(s, x)) = Len(s) + 1 /\ Len(s) \in Nat
  OBVIOUS
<1>2. DOMAIN Append(s, x) = 1..(Len(s) + 1) /\ DOMAIN s = 1..Len(s)
  BY <1>1
<1>3. \A i \in 1..Len(s) : Append(s, x)[i] = s[i]
  OBVIOUS
<1>4. Append(s, x)[Len(s) + 1] = x
  OBVIOUS
<1> QED
  BY <1>1, <1>2, <1>3, <1>4

LEMMA RangeFront ==
  ASSUME NEW S, NEW s \in Seq(S), s # <<>>
  PROVE  LET front == SubSeq(s, 1, Len(s) - 1) IN
         /\ front \in Seq(S) /\ s[Len(s)] \in S
         /\ s[Len(s)] \in {s[i] : i \in DOMAIN s}
         /\ {front[i] : i \in DOMAIN front} \subseteq {s[i] : i \in DOMAIN s}
         /\ {s[i] : i \in DOMAIN s} \subseteq {front[i] : i \in DOMAIN front} \union {s[Len(s)]}
<1> DEFINE front == SubSeq(s, 1, Len(s) - 1)
<1>1. Len(s) \in Nat /\ Len(s) > 0 /\ DOMAIN s = 1..Len(s)
  BY EmptySeq
<1>2. front \in Seq(S) /\ Len(front) = Len(s) - 1 /\ \A i \in 1..(Len(s) - 1) : front[i] = s[i]
  BY <1>1, SubSeqProperties
<1>3. DOMAIN front = 1..(Len(s) - 1)
  BY <1>1, <1>2
<1>4. s[Len(s)] \in S /\ s[Len(s)] \in {s[i] : i \in DOMAIN s}
  BY <1>1
<1>5. {front[i] : i \in DOMAIN front} \subseteq {s[i] : i \in DOMAIN s}
  BY <1>1, <1>2, <1>3
<1>6. ASSUME NEW i \in DOMAIN s
      PROVE  s[i] \in {front[j] : j \in DOMAIN front} \union {s[Len(s)]}
  <2>1. CASE i = Len(s)
    BY <2>1
  <2>2. CASE i # Len(s)
    <3>1. i \in 1..(Len(s) - 1)
      BY <1>1, <2>2
    <3> QED
      BY <3>1, <1>2, <1>3
  <2> QED
    BY <2>1, <2>2
<1> QED
  BY <1>2, <1>4, <1>5, <1>6

\* A call owns what it has installed.
LEMMA InstalledFacts ==
  ASSUME TypeOK
  PROVE  /\ Installed \subseteq Targets
         /\ installed = <<>> => Installed = {}
<1>1. Installed \subseteq Targets
  BY DEF TypeOK, Installed
<1>2. installed = <<>> => Installed = {}
  BY DEF Installed
<1> QED
  BY <1>1, <1>2

\* The next file is installed, or the last one is removed again.
LEMMA InstalledGrows ==
  ASSUME TypeOK, NEW t \in Targets, installed' = Append(installed, t)
  PROVE  installed' \in Seq(Targets) /\ Installed' = Installed \union {t}
<1>1. installed \in Seq(Targets)
  BY DEF TypeOK
<1> DEFINE longer == Append(installed, t)
<1>2. /\ longer \in Seq(Targets)
      /\ {longer[i] : i \in DOMAIN longer} = {installed[i] : i \in DOMAIN installed} \union {t}
  BY <1>1, RangeAppend
<1>3. installed' = longer
  OBVIOUS
<1> HIDE DEF longer
<1> QED
  BY <1>2, <1>3 DEF Installed

LEMMA InstalledShrinks ==
  ASSUME TypeOK, installed # <<>>, installed' = SubSeq(installed, 1, Len(installed) - 1)
  PROVE  /\ installed' \in Seq(Targets)
         /\ installed[Len(installed)] \in Targets /\ installed[Len(installed)] \in Installed
         /\ Installed' \subseteq Installed
         /\ Installed \subseteq Installed' \union {installed[Len(installed)]}
<1>1. installed \in Seq(Targets)
  BY DEF TypeOK
<1> QED
  BY <1>1, RangeFront, Zenon DEF Installed

\* One file of the call changes, and no other.
LEMMA TempBecomesStep ==
  ASSUME TypeOK, call \in Calls, NEW t \in Targets, NEW content \in Content,
         TempBecomes(t, content)
  PROVE  /\ temp' \in [Calls -> [Targets -> Content]]
         /\ temp'[call][t] = content
         /\ \A u \in Targets \ {t} : temp'[call][u] = temp[call][u]
         /\ \A c \in Calls \ {call} : temp'[c] = temp[c]
<1>1. temp \in [Calls -> [Targets -> Content]]
  BY DEF TypeOK
<1>2. temp' = [temp EXCEPT ![call] = [temp[call] EXCEPT ![t] = content]]
  BY DEF TempBecomes
<1>3. [temp[call] EXCEPT ![t] = content] \in [Targets -> Content]
  BY <1>1
<1> QED
  BY <1>1, <1>2, <1>3

LEMMA BackupBecomesStep ==
  ASSUME TypeOK, call \in Calls, NEW t \in Targets, NEW content \in Content,
         BackupBecomes(t, content)
  PROVE  /\ backup' \in [Calls -> [Targets -> Content]]
         /\ backup'[call][t] = content
         /\ \A u \in Targets \ {t} : backup'[call][u] = backup[call][u]
         /\ \A c \in Calls \ {call} : backup'[c] = backup[c]
<1>1. backup \in [Calls -> [Targets -> Content]]
  BY DEF TypeOK
<1>2. backup' = [backup EXCEPT ![call] = [backup[call] EXCEPT ![t] = content]]
  BY DEF BackupBecomes
<1>3. [backup[call] EXCEPT ![t] = content] \in [Targets -> Content]
  BY <1>1
<1> QED
  BY <1>1, <1>2, <1>3

-----------------------------------------------------------------------------
(* The invariant implies the properties *)

LEMMA SafetyOfPhases ==
  ASSUME IInv
  PROVE  AllOrNothing /\ NothingLost /\ NeverPaired /\ PrimaryLast
<1> USE ManagedFacts, ContentFacts
<1> USE DEF IInv
<1>0. Busy => call \in Calls
  BY DEF Running, TypeOK, Busy, Made
<1>1. AllOrNothing
  <2> SUFFICES ASSUME pc = "clean", ~UndoFailed
               PROVE  /\ outcome = "error" => target = before
                      /\ outcome = "ok" => target = [t \in Targets |-> Committed(t)]
    BY DEF AllOrNothing, UndoFailed, Committed
  <2>1. target \in [Targets -> Content] /\ before \in [Targets -> Content]
    BY DEF TypeOK
  <2>2. outcome = "error" => \A t \in Targets : target[t] = before[t]
    BY DEF Cleaning
  <2>3. outcome = "ok" => \A t \in Targets : target[t] = Committed(t)
    BY DEF Cleaning
  <2> QED
    BY <2>1, <2>2, <2>3
<1>2. NothingLost
  <2>1. CASE ~Busy
    BY <2>1 DEF Between
  <2>2. CASE Busy
    <3> SUFFICES ASSUME outcome # "ok", NEW t \in Targets, before[t] # NoFile
                 PROVE  target[t] = before[t] \/ backup[call][t] = before[t]
      BY <1>0, <2>2 DEF NothingLost
    <3>1. CASE pc \in {"stage", "copy", "replace"}
      BY <3>1 DEF BeforeMoving
    <3>2. CASE pc = "backup"
      BY <3>2 DEF Moving
    <3>3. CASE pc = "install"
      BY <3>3 DEF Installing
    <3>4. CASE pc = "undo"
      BY <3>4 DEF Undoing
    <3>5. CASE pc = "restore"
      BY <3>5 DEF Restoring
    <3>6. CASE pc = "clean"
      BY <3>6 DEF Cleaning, TypeOK
    <3>7. pc # "drop"
      BY DEF Dropping
    <3> QED
      BY <2>2, <3>1, <3>2, <3>3, <3>4, <3>5, <3>6, <3>7 DEF TypeOK, Steps, Busy
  <2> QED
    BY <2>1, <2>2
<1>3. NeverPaired
  <2>1. CASE ~Busy
    BY <2>1 DEF Between
  <2>2. CASE Busy
    <3> SUFFICES ASSUME ~UndoFailed, target[Primary] \notin FileCalls \union {NoFile},
                        NEW t \in Targets
                 PROVE  target[t] \in {target[Primary], NoFile}
      BY DEF NeverPaired, UndoFailed
    <3>0. Matched(before)
      BY DEF Old
    <3>1. CASE \A u \in Targets : target[u] \in {before[u], NoFile}
      BY <3>0, <3>1 DEF Matched
    <3>2. CASE pc \in {"stage", "copy", "replace"}
      BY <3>2, <3>1 DEF BeforeMoving
    <3>3. CASE pc = "backup"
      BY <3>3, <3>1 DEF Moving
    <3>4. CASE pc = "install"
      BY <3>4 DEF Installing
    <3>5. CASE pc = "undo"
      BY <3>5, <3>1 DEF Undoing
    <3>6. CASE pc = "restore"
      BY <3>6, <3>1 DEF Restoring
    <3>7. CASE outcome = "ok" /\ pc \in {"clean", "drop"}
      <4>1. \A u \in Targets : target[u] = Committed(u)
        BY <3>7 DEF Cleaning, Dropping
      <4>2. target[Primary] = call /\ call \notin FileCalls
        BY <2>2, <4>1 DEF Committed, Running
      <4> QED
        BY <4>1, <4>2 DEF Committed
    <3>8. CASE outcome # "ok" /\ pc = "clean"
      BY <3>8, <3>1 DEF Cleaning, TypeOK
    <3> QED
      BY <2>2, <3>2, <3>3, <3>4, <3>5, <3>6, <3>7, <3>8 DEF TypeOK, Steps, Busy, Dropping
  <2> QED
    BY <2>1, <2>2
<1>4. PrimaryLast
  <2> SUFFICES ASSUME Busy, target[Primary] = call, NEW t \in files
               PROVE  target[t] = call
    BY DEF PrimaryLast, Busy, Running
  <2>0. t \in Targets
    BY DEF TypeOK
  <2>1. before[Primary] # call
    BY DEF Old
  <2>2. pc \notin {"stage", "copy", "replace", "backup"}
    BY <1>0, <2>1 DEF BeforeMoving, Moving
  <2>3. CASE pc = "install"
    BY <1>0, <2>0, <2>3 DEF Installing
  <2>4. CASE outcome = "ok" /\ pc \in {"clean", "drop"}
    BY <2>0, <2>4 DEF Cleaning, Dropping, Committed
  <2>5. pc \notin {"undo", "restore"} /\ ~(pc = "clean" /\ outcome # "ok")
    BY DEF NoNewPrimary, TypeOK, Cleaning
  <2> QED
    BY <2>2, <2>3, <2>4, <2>5 DEF TypeOK, Steps, Busy, Dropping
<1> QED
  BY <1>1, <1>2, <1>3, <1>4

-----------------------------------------------------------------------------
(* The invariant holds at first, and every step preserves it *)

LEMMA InitInvariant == Init => IInv
<1> SUFFICES ASSUME Init PROVE IInv
  OBVIOUS
<1> USE ManagedFacts, ContentFacts
<1>1. target \in [Targets -> {Original, NoFile}] /\ before = target
  BY DEF Init
<1>2. TypeOK
  BY <1>1 DEF Init, TypeOK, Content, Steps, Faults, Nothing
<1>3. Matched(target)
  BY <1>1 DEF Matched
<1>4. Installed = {} /\ Made = {}
  BY DEF Init, Installed, Made
<1>5. Running /\ Staging /\ Old
  BY <1>1, <1>3, <1>4 DEF Init, Running, Staging, Old, Busy, UndoFailed
<1>6. Between
  BY <1>1, <1>3 DEF Between, NothingLost, NeverPaired, Matched
<1> QED
  BY <1>2, <1>5, <1>6 DEF Init, IInv, BeforeMoving, Moving, Installing, Dropping, Undoing,
     Restoring, Cleaning, NoNewPrimary

LEMMA BeginStep ==
  ASSUME IInv, NEW c \in Calls, NEW requested \in SUBSET Targets, Begin(c, requested)
  PROVE  IInv'
<1> USE ManagedFacts, ContentFacts
<1>1. TypeOK'
  BY DEF Begin, IInv, TypeOK, directory, readerVars, Steps
<1>2. Made' = Made \union {c} /\ c \notin Made
  <2>1. history \in Seq(Calls)
    BY DEF IInv, TypeOK
  <2> QED
    BY <2>1, RangeAppend DEF Begin, Made
<1>3. Installed' = {}
  BY DEF Begin, Installed
<1>4. Running'
  BY <1>2 DEF Begin, Running, Busy
<1>5. Staging'
  BY <1>2 DEF Begin, IInv, Staging, Busy, directory, Nothing
<1>6. Old'
  <2>1. UndoFailed \/ Matched(target)
    BY DEF IInv, Between, Busy, Begin, NeverPaired, Matched, UndoFailed
  <2>2. \A t \in Targets : target[t] # c
    BY <1>2 DEF IInv, Old
  <2> QED
    BY <1>2, <2>1, <2>2 DEF Begin, IInv, Old, directory, Matched, UndoFailed, Busy
<1> QED
  BY <1>1, <1>4, <1>5, <1>6 DEF Begin, directory, IInv, Busy, BeforeMoving, Moving, Installing,
     Dropping, Undoing, Restoring, Cleaning, NoNewPrimary, Between

LEMMA CreateTempStep ==
  ASSUME IInv, NEW t \in Targets, CreateTemp(t)
  PROVE  IInv'
<1> USE ManagedFacts, ContentFacts
<1>1. call \in Calls /\ call \in Made
  BY DEF CreateTemp, IInv, TypeOK, Running, Busy, Made
<1>2. TypeOK'
  <2>1. temp' \in [Calls -> [Targets -> Content]]
    BY <1>1, TempBecomesStep DEF CreateTemp, IInv, TypeOK, Content
  <2> QED
    BY <2>1 DEF CreateTemp, Fail, CallFrame, IInv, TypeOK, readerVars, Steps
<1>3. Made' = Made /\ Installed' = Installed
  BY DEF CreateTemp, CallFrame, Made, Installed
<1>4. Running'
  BY <1>3 DEF CreateTemp, Fail, CallFrame, IInv, Running, Busy
<1>5. Staging'
  BY <1>1, <1>3 DEF CreateTemp, TempBecomes, Fail, CallFrame, IInv, TypeOK, Staging, Busy
<1>6. Old'
  BY <1>3 DEF CreateTemp, CallFrame, IInv, Old, Busy, UndoFailed, Matched
<1>7. (BeforeMoving /\ Cleaning /\ NoNewPrimary)'
  BY <1>1 DEF CreateTemp, Fail, CallFrame, IInv, Old, Busy, BeforeMoving, Cleaning, NoNewPrimary
<1> QED
  BY <1>2, <1>4, <1>5, <1>6, <1>7 DEF CreateTemp, Fail, CallFrame, IInv, Busy, Moving, Installing,
     Dropping, Undoing, Restoring, Between

LEMMA CopyTempStep ==
  ASSUME IInv, NEW t \in Targets, CopyTemp(t)
  PROVE  IInv'
<1> USE ManagedFacts, ContentFacts
<1>1. call \in Calls /\ call \in Made
  BY DEF CopyTemp, IInv, TypeOK, Running, Busy, Made
<1>2. TypeOK'
  <2>1. temp' \in [Calls -> [Targets -> Content]]
    BY <1>1, TempBecomesStep DEF CopyTemp, IInv, TypeOK, Content
  <2> QED
    BY <2>1 DEF CopyTemp, Removal, Fail, CallFrame, IInv, TypeOK, readerVars, Steps, Faults
<1>3. Made' = Made /\ Installed' = Installed /\ (UndoFailed' <=> UndoFailed)
  BY DEF CopyTemp, Removal, CallFrame, Made, Installed, UndoFailed
<1>4. Running'
  BY <1>3 DEF CopyTemp, Fail, CallFrame, IInv, Running, Busy
<1>5. Staging'
  BY <1>1, <1>3 DEF CopyTemp, TempBecomes, Fail, CallFrame, IInv, TypeOK, Staging, Busy
<1>6. Old'
  BY <1>3 DEF CopyTemp, CallFrame, IInv, Old, Busy, Matched
<1>7. (BeforeMoving /\ Cleaning /\ NoNewPrimary)'
  BY <1>1 DEF CopyTemp, Fail, CallFrame, IInv, Old, Busy, BeforeMoving, Cleaning, NoNewPrimary
<1> QED
  BY <1>2, <1>4, <1>5, <1>6, <1>7 DEF CopyTemp, Fail, CallFrame, IInv, Busy, Moving, Installing,
     Dropping, Undoing, Restoring, Between

LEMMA StagedAllStep ==
  ASSUME IInv, StagedAll
  PROVE  IInv'
<1> USE ManagedFacts, ContentFacts
<1>1. call \in Calls /\ Busy
  BY DEF StagedAll, IInv, TypeOK, Running, Busy, Made
<1>2. TypeOK'
  BY DEF StagedAll, directory, Fail, CallFrame, IInv, TypeOK, readerVars, Steps
<1>3. Made' = Made /\ Installed' = Installed
  BY DEF StagedAll, CallFrame, Made, Installed
<1>4. (Running /\ Staging)'
  BY <1>3 DEF StagedAll, directory, Fail, CallFrame, IInv, Running, Staging, Busy
<1>5. Old'
  BY <1>3 DEF StagedAll, directory, CallFrame, IInv, Old, Busy, UndoFailed, Matched
<1>6. (BeforeMoving /\ Moving)'
  BY DEF StagedAll, directory, Fail, CallFrame, IInv, BeforeMoving, Moving
<1>7. (Cleaning /\ NoNewPrimary)'
  BY <1>1 DEF StagedAll, directory, Fail, CallFrame, IInv, Old, BeforeMoving, Cleaning, NoNewPrimary
<1> QED
  BY <1>2, <1>4, <1>5, <1>6, <1>7 DEF StagedAll, Fail, CallFrame, IInv, Busy, Installing,
     Dropping, Undoing, Restoring, Between

LEMMA ReplaceFileStep ==
  ASSUME IInv, ReplaceFile
  PROVE  IInv'
<1> USE ManagedFacts, ContentFacts
<1>1. call \in Calls /\ call \in Made /\ Busy
  BY DEF ReplaceFile, IInv, TypeOK, Running, Busy, Made
<1>2. temp[call][Primary] = call /\ files = {Primary} /\ call \in FileCalls
  BY <1>1 DEF ReplaceFile, IInv, Running, Staging
<1>3. TypeOK'
  <2>1. temp' \in [Calls -> [Targets -> Content]]
    BY <1>1, TempBecomesStep DEF ReplaceFile, IInv, TypeOK, Content
  <2>2. target' \in [Targets -> Content]
    BY <1>1, <1>2 DEF ReplaceFile, IInv, TypeOK, Content
  <2> QED
    BY <2>1, <2>2 DEF ReplaceFile, CallFrame, IInv, TypeOK, readerVars, Steps
<1>4. Made' = Made /\ Installed' = Installed
  BY DEF ReplaceFile, CallFrame, Made, Installed
<1>5. Running'
  BY <1>4 DEF ReplaceFile, CallFrame, IInv, Running, Busy
<1>6. Staging'
  BY <1>1, <1>4 DEF ReplaceFile, TempBecomes, CallFrame, IInv, TypeOK, Staging, Busy
<1>7. Old'
  <2>1. \A t \in Targets : target'[t] \in {target[t], call}
    BY <1>2 DEF ReplaceFile, IInv, TypeOK
  <2>2. UNCHANGED <<call, before, faults>>
    BY DEF ReplaceFile, CallFrame
  <2>3. \A t \in Targets : target'[t] \in Made' \union {Original, NoFile}
    BY <1>1, <1>4, <2>1 DEF IInv, Old
  <2> QED
    BY <1>1, <1>4, <2>2, <2>3 DEF IInv, Old, UndoFailed, Matched
<1>8. (Cleaning /\ NoNewPrimary)'
  BY <1>1, <1>2 DEF ReplaceFile, CallFrame, IInv, TypeOK, Old, BeforeMoving, Cleaning, Committed,
     NoNewPrimary
<1> QED
  BY <1>3, <1>5, <1>6, <1>7, <1>8 DEF ReplaceFile, CallFrame, IInv, Busy, BeforeMoving, Moving,
     Installing, Dropping, Undoing, Restoring, Between

LEMMA BackUpStep ==
  ASSUME IInv, BackUp
  PROVE  IInv'
<1> USE ManagedFacts, ContentFacts
<1>1. call \in Calls /\ call \in Made /\ Busy /\ at \in 1..Len(Managed)
  BY DEF BackUp, IInv, TypeOK, Running, Busy, Made, Moving
<1> DEFINE t == Managed[at]
<1>2. t \in Targets /\ target[t] \in Content
  BY <1>1 DEF IInv, TypeOK
<1>3. TypeOK'
  <2>1. backup' \in [Calls -> [Targets -> Content]]
    BY <1>1, <1>2, BackupBecomesStep DEF BackUp, IInv, TypeOK
  <2>2. target' \in [Targets -> Content]
    BY <1>2 DEF BackUp, IInv, TypeOK, Content
  <2> QED
    BY <1>1, <1>2, <2>1, <2>2 DEF BackUp, CallFrame, IInv, TypeOK, readerVars, Steps
<1>4. Made' = Made /\ Installed' = Installed
  BY DEF BackUp, CallFrame, Made, Installed
<1>5. (Running /\ Staging)'
  BY <1>4 DEF BackUp, CallFrame, IInv, Running, Staging, Busy
<1>6. Old'
  BY <1>1, <1>2, <1>4 DEF BackUp, CallFrame, IInv, TypeOK, Old, Busy, UndoFailed, Matched
<1>7. CASE target[t] # NoFile /\ pc' = "backup"
  <2>1. t \notin drop
    BY <1>7 DEF BackUp, IInv, Moving
  <2>2. /\ BackupBecomes(t, target[t]) /\ target' = [target EXCEPT ![t] = NoFile]
        /\ drop' = drop \union {t} /\ at' = at + 1
    BY <1>7 DEF BackUp
  <2>3. /\ backup'[call][t] = target[t]
        /\ \A u \in Targets \ {t} : backup'[call][u] = backup[call][u]
    BY <1>1, <1>2, <2>2, BackupBecomesStep DEF IInv
  <2>4. target'[t] = NoFile /\ \A u \in Targets \ {t} : target'[u] = target[u]
    BY <1>2, <2>2 DEF IInv, TypeOK
  <2>5. \A u \in drop' : target'[u] = NoFile /\ backup'[call'][u] = before'[u]
    BY <1>2, <2>1, <2>2, <2>3, <2>4 DEF BackUp, CallFrame, IInv, TypeOK, Moving
  <2>6. \A u \in Targets \ drop' : target'[u] = before'[u]
    BY <2>2, <2>4 DEF BackUp, CallFrame, IInv, Moving
  <2>7. \A i \in DOMAIN Managed : i < at' => target'[Managed[i]] = NoFile
    BY <1>1, <1>2, <2>2, <2>4 DEF BackUp, IInv, Moving
  <2>8. Moving'
    BY <1>1, <2>2, <2>5, <2>6, <2>7 DEF BackUp, IInv, Moving
  <2> QED
    BY <1>3, <1>5, <1>6, <1>7, <2>8 DEF BackUp, CallFrame, IInv, Busy, BeforeMoving,
       Installing, Dropping, Undoing, Restoring, Cleaning, NoNewPrimary, Between
<1>8. CASE target[t] = NoFile /\ pc' = "backup"
  <2>1. UNCHANGED <<target, backup, drop>> /\ at' = at + 1
    BY <1>8 DEF BackUp
  <2>2. \A i \in DOMAIN Managed : i < at' => target'[Managed[i]] = NoFile
    BY <1>1, <1>8, <2>1 DEF BackUp, IInv, Moving
  <2>3. Moving'
    BY <1>1, <2>1, <2>2 DEF BackUp, CallFrame, IInv, Moving
  <2> QED
    BY <1>3, <1>5, <1>6, <1>8, <2>3 DEF BackUp, CallFrame, IInv, Busy, BeforeMoving,
       Installing, Dropping, Undoing, Restoring, Cleaning, NoNewPrimary, Between
<1>9. CASE pc' = "undo"
  <2>1. UNCHANGED <<target, backup, drop, at>>
    BY <1>9 DEF BackUp
  <2>2. Installed' = {}
    BY <1>4 DEF BackUp, IInv, Moving, Installed
  <2>3. Undoing'
    BY <2>1, <2>2 DEF BackUp, CallFrame, IInv, TypeOK, Moving, Undoing, UndoFailed
  <2>4. NoNewPrimary'
    BY <1>1, <2>1 DEF BackUp, CallFrame, IInv, Moving, Old, NoNewPrimary
  <2> QED
    BY <1>3, <1>5, <1>6, <1>9, <2>3, <2>4 DEF BackUp, CallFrame, IInv, Busy, BeforeMoving,
       Moving, Installing, Dropping, Restoring, Cleaning, Between
<1> QED
  BY <1>7, <1>8, <1>9 DEF BackUp

LEMMA BackedUpStep ==
  ASSUME IInv, BackedUp
  PROVE  IInv'
<1> USE ManagedFacts, ContentFacts
<1>1. call \in Calls /\ Busy
  BY DEF BackedUp, IInv, TypeOK, Running, Busy, Made
<1>2. TypeOK'
  BY DEF BackedUp, directory, CallFrame, IInv, TypeOK, readerVars, Steps
<1>3. Made' = Made /\ Installed' = Installed /\ Installed = {}
  BY DEF BackedUp, CallFrame, Made, Installed, IInv, Moving
<1>4. (Running /\ Staging)'
  BY <1>3 DEF BackedUp, directory, CallFrame, IInv, Running, Staging, Busy
<1>5. Old'
  BY <1>3 DEF BackedUp, directory, CallFrame, IInv, Old, Busy, UndoFailed, Matched
<1>6. \A t \in Targets : target[t] = NoFile
  <2> SUFFICES ASSUME NEW t \in Targets PROVE target[t] = NoFile
    OBVIOUS
  <2>1. PICK i \in 1..Len(Managed) : Managed[i] = t
    OBVIOUS
  <2>2. i < at
    BY DEF BackedUp, IInv, TypeOK
  <2> QED
    BY <2>1, <2>2 DEF BackedUp, IInv, Moving
<1>7. Installing'
  BY <1>3, <1>6 DEF BackedUp, directory, CallFrame, IInv, Moving, Installing, Running, Busy
<1> QED
  BY <1>2, <1>4, <1>5, <1>7 DEF BackedUp, CallFrame, IInv, Busy, BeforeMoving, Moving,
     Dropping, Undoing, Restoring, Cleaning, NoNewPrimary, Between

LEMMA InstallStep ==
  ASSUME IInv, NEW t \in Targets, Install(t)
  PROVE  IInv'
<1> USE ManagedFacts, ContentFacts
<1>1. call \in Calls /\ call \in Made /\ Busy
  BY DEF Install, IInv, TypeOK, Running, Busy, Made
<1>2. temp[call][t] = call /\ t \in files \ Installed
  BY <1>1 DEF Install, IInv, Staging
<1>3. Made' = Made
  BY DEF Install, CallFrame, Made
<1>4. UNCHANGED <<call, files, before, history, readerVars, backup, at, drop, outcome, faults>>
  BY DEF Install, CallFrame
<1>5. CASE pc' = "undo"
  <2>1. UNCHANGED <<target, temp, staged, installed>> /\ Installed' = Installed
    BY <1>5 DEF Install, Installed
  <2>2. TypeOK'
    BY <1>4, <1>5, <2>1 DEF IInv, TypeOK, readerVars, Steps
  <2>3. (Running /\ Staging)'
    BY <1>3, <1>4, <1>5, <2>1 DEF Install, IInv, Running, Staging, Busy
  <2>4. Old'
    BY <1>1, <1>3, <1>4, <2>1 DEF IInv, Old, UndoFailed, Matched
  <2>5. target[Primary] = NoFile
    BY <1>2 DEF Install, IInv, Installing
  <2>6. Undoing' /\ NoNewPrimary'
    BY <1>1, <1>4, <2>1, <2>5 DEF Install, IInv, Installing, Undoing, NoNewPrimary, UndoFailed
  <2> QED
    BY <1>5, <2>2, <2>3, <2>4, <2>6 DEF IInv, Busy, BeforeMoving, Moving, Installing, Dropping,
       Restoring, Cleaning, Between
<1>6. CASE pc' = "install"
  <2>1. /\ target' = [target EXCEPT ![t] = call] /\ TempBecomes(t, NoFile)
        /\ staged' = staged \ {t} /\ installed' = Append(installed, t) /\ pc' = pc
    BY <1>2, <1>6 DEF Install
  <2>2. installed' \in Seq(Targets) /\ Installed' = Installed \union {t}
    BY <2>1, InstalledGrows DEF IInv
  <2>3. /\ temp' \in [Calls -> [Targets -> Content]]
        /\ \A u \in Targets \ {t} : temp'[call][u] = temp[call][u]
        /\ \A c \in Calls \ {call} : temp'[c] = temp[c]
    BY <1>1, <2>1, TempBecomesStep DEF IInv, Content
  <2>4. /\ target' \in [Targets -> Content] /\ target'[t] = call
        /\ \A u \in Targets \ {t} : target'[u] = target[u]
    BY <1>1, <2>1 DEF IInv, TypeOK, Content
  <2>5. TypeOK'
    BY <1>4, <2>1, <2>2, <2>3, <2>4 DEF IInv, TypeOK, readerVars, Steps
  <2>6. Running'
    BY <1>3, <1>4, <2>1 DEF IInv, Running, Busy
  <2>7. Staging'
    BY <1>1, <1>3, <1>4, <1>6, <2>1, <2>2, <2>3 DEF Install, IInv, TypeOK, Staging, Busy
  <2>8. Old'
    BY <1>1, <1>3, <1>4, <2>4 DEF IInv, Old, UndoFailed, Matched
  <2>9. Primary \in Installed' => Installed' = files
    BY <1>2, <2>2 DEF Install, IInv, Installing
  <2>10. Installing'
    BY <1>2, <1>4, <2>2, <2>4, <2>9 DEF Install, IInv, Installing
  <2> QED
    BY <1>6, <2>5, <2>6, <2>7, <2>8, <2>10 DEF IInv, Busy, BeforeMoving, Moving, Dropping,
       Undoing, Restoring, Cleaning, NoNewPrimary, Between
<1> QED
  BY <1>5, <1>6 DEF Install

LEMMA InstalledAllStep ==
  ASSUME IInv, InstalledAll
  PROVE  IInv'
<1> USE ManagedFacts, ContentFacts
<1>1. call \in Calls /\ Busy /\ call \notin FileCalls
  BY DEF InstalledAll, IInv, TypeOK, Running, Busy, Made
<1>2. TypeOK'
  BY DEF InstalledAll, directory, CallFrame, IInv, TypeOK, readerVars, Steps
<1>3. Made' = Made /\ Installed' = Installed
  BY DEF InstalledAll, CallFrame, Made, Installed
<1>4. (Running /\ Staging)'
  BY <1>3 DEF InstalledAll, directory, CallFrame, IInv, Running, Staging, Busy
<1>5. Old'
  BY <1>3 DEF InstalledAll, directory, CallFrame, IInv, Old, Busy, UndoFailed, Matched
<1>6. Dropping'
  BY <1>1 DEF InstalledAll, directory, CallFrame, IInv, Installing, Dropping, Committed
<1> QED
  BY <1>2, <1>4, <1>5, <1>6 DEF InstalledAll, CallFrame, IInv, Busy, BeforeMoving, Moving,
     Installing, Undoing, Restoring, Cleaning, NoNewPrimary, Between

LEMMA DropBackupStep ==
  ASSUME IInv, NEW t \in Targets, DropBackup(t)
  PROVE  IInv'
<1> USE ManagedFacts, ContentFacts
<1>1. call \in Calls /\ Busy
  BY DEF DropBackup, IInv, TypeOK, Running, Busy, Made
<1>2. TypeOK'
  <2>1. backup[call][t] \in Content /\ NoFile \in Content
    BY <1>1 DEF IInv, TypeOK, Content
  <2>2. backup' \in [Calls -> [Targets -> Content]]
    BY <1>1, <2>1, BackupBecomesStep DEF DropBackup, IInv
  <2> QED
    BY <2>2 DEF DropBackup, Removal, CallFrame, IInv, TypeOK, readerVars, Faults
<1>3. Made' = Made /\ Installed' = Installed /\ (UndoFailed' <=> UndoFailed)
  BY DEF DropBackup, Removal, CallFrame, Made, Installed, UndoFailed
<1>4. (Running /\ Staging)'
  BY <1>3 DEF DropBackup, CallFrame, IInv, Running, Staging, Busy
<1>5. Old'
  BY <1>3 DEF DropBackup, CallFrame, IInv, Old, Busy, Matched
<1>6. Dropping'
  BY DEF DropBackup, CallFrame, IInv, Dropping, Committed
<1> QED
  BY <1>2, <1>4, <1>5, <1>6 DEF DropBackup, CallFrame, IInv, Busy, BeforeMoving, Moving,
     Installing, Undoing, Restoring, Cleaning, NoNewPrimary, Between

LEMMA DroppedAllStep ==
  ASSUME IInv, DroppedAll
  PROVE  IInv'
<1> USE ManagedFacts, ContentFacts
<1>1. TypeOK'
  BY DEF DroppedAll, directory, CallFrame, IInv, TypeOK, readerVars, Steps
<1>2. Made' = Made /\ Installed' = Installed
  BY DEF DroppedAll, CallFrame, Made, Installed
<1>3. (Running /\ Staging)'
  BY <1>2 DEF DroppedAll, directory, CallFrame, IInv, Running, Staging, Busy
<1>4. Old'
  BY <1>2 DEF DroppedAll, directory, CallFrame, IInv, Old, Busy, UndoFailed, Matched
<1>5. (Cleaning /\ NoNewPrimary)'
  BY DEF DroppedAll, directory, CallFrame, IInv, Dropping, Cleaning, Committed, NoNewPrimary
<1> QED
  BY <1>1, <1>3, <1>4, <1>5 DEF DroppedAll, CallFrame, IInv, Busy, BeforeMoving, Moving,
     Installing, Dropping, Undoing, Restoring, Between

LEMMA UndoStep ==
  ASSUME IInv, Undo
  PROVE  IInv'
<1> USE ManagedFacts, ContentFacts
<1>1. call \in Calls /\ call \in Made /\ Busy
  BY DEF Undo, IInv, TypeOK, Running, Busy, Made
<1> DEFINE t == installed[Len(installed)]
           front == SubSeq(installed, 1, Len(installed) - 1)
<1>2. /\ front \in Seq(Targets) /\ t \in Targets /\ t \in Installed
      /\ Installed' \subseteq Installed /\ Installed \subseteq Installed' \union {t}
  BY InstalledShrinks DEF Undo, IInv
<1>3. PICK left \in {NoFile, target[t]} :
        Removal(target[t], left, "undo") /\ target' = [target EXCEPT ![t] = left]
  BY DEF Undo
<1>4. /\ target' \in [Targets -> Content] /\ target'[t] = left
      /\ \A u \in Targets \ {t} : target'[u] = target[u]
  BY <1>2, <1>3 DEF IInv, TypeOK, Content
<1>5. /\ left # NoFile => UndoFailed'
      /\ UndoFailed => UndoFailed'
      /\ faults' \subseteq faults \union {"undo"}
  BY <1>3 DEF Removal, UndoFailed
<1>6. Made' = Made
  BY DEF Undo, CallFrame, Made
<1>7. UNCHANGED <<call, files, before, history, readerVars, temp, backup, pc, at, staged, drop, outcome>>
      /\ pc = "undo" /\ installed' = front
  BY DEF Undo, CallFrame
<1>8. TypeOK'
  BY <1>2, <1>4, <1>5, <1>7 DEF IInv, TypeOK, readerVars, Faults
<1>9. (Running /\ Staging)'
  BY <1>6, <1>7 DEF IInv, Running, Staging, Busy
<1>10. Old'
  BY <1>2, <1>3, <1>4, <1>5, <1>6, <1>7 DEF IInv, Old, Busy, Matched
<1>11. Undoing'
  <2>1. UndoFailed' \/ (left = NoFile /\ ~UndoFailed)
    BY <1>5
  <2>2. \A u \in drop' : backup'[call'][u] = before'[u]
    BY <1>7 DEF IInv, Undoing
  <2>3. \A u \in Targets : u \in drop' /\ u \notin Installed' => target'[u] = NoFile \/ UndoFailed'
    BY <1>2, <1>4, <1>7, <2>1 DEF IInv, Undoing
  <2>4. \A u \in Targets : u \notin drop' /\ u \in Installed' => before'[u] = NoFile
    BY <1>2, <1>7 DEF IInv, Undoing
  <2>5. \A u \in Targets : u \notin drop' /\ u \notin Installed' =>
          target'[u] = before'[u] \/ (UndoFailed' /\ before'[u] = NoFile)
    BY <1>2, <1>4, <1>5, <1>7 DEF IInv, Undoing
  <2>6. UndoFailed' \/ target'[Primary] = NoFile
        \/ \A u \in Targets : target'[u] \in {before'[u], NoFile}
    BY <1>2, <1>4, <1>7, <2>1 DEF IInv, Undoing
  <2> QED
    BY <2>2, <2>3, <2>4, <2>5, <2>6 DEF Undoing
<1>12. NoNewPrimary'
  BY <1>1, <1>2, <1>3, <1>4, <1>7 DEF IInv, NoNewPrimary
<1> QED
  BY <1>7, <1>8, <1>9, <1>10, <1>11, <1>12 DEF IInv, Busy, BeforeMoving, Moving, Installing,
     Dropping, Restoring, Cleaning, Between

LEMMA UndoneStep ==
  ASSUME IInv, Undone
  PROVE  IInv'
<1> USE ManagedFacts, ContentFacts
<1>1. call \in Calls /\ Busy
  BY DEF Undone, IInv, TypeOK, Running, Busy, Made
<1>2. TypeOK'
  BY DEF Undone, directory, CallFrame, IInv, TypeOK, readerVars, Steps
<1>3. Made' = Made /\ Installed' = Installed /\ Installed = {}
  BY DEF Undone, CallFrame, Made, Installed
<1>4. (Running /\ Staging)'
  BY <1>3 DEF Undone, directory, CallFrame, IInv, Running, Staging, Busy
<1>5. Old'
  BY <1>3 DEF Undone, directory, CallFrame, IInv, Old, Busy, UndoFailed, Matched
<1>6. UNCHANGED <<target, backup, drop, faults, before, call>> /\ at' = Len(Managed)
  BY DEF Undone, directory, CallFrame
<1>7. Restoring'
  <2>1. \A t \in drop' : backup'[call'][t] = before'[t]
    BY <1>6 DEF Undone, IInv, Undoing
  <2>2. \A t \in drop' : target'[t] = NoFile \/ UndoFailed'
    BY <1>3, <1>6 DEF Undone, IInv, TypeOK, Undoing, UndoFailed
  <2>3. ASSUME NEW t \in drop'
        PROVE  \E i \in DOMAIN Managed : i <= at' /\ Managed[i] = t
    <3>1. t \in Targets
      BY <1>6 DEF IInv, TypeOK
    <3>2. PICK i \in 1..Len(Managed) : Managed[i] = t
      BY <3>1
    <3> QED
      BY <1>6, <3>2
  <2>4. \A t \in Targets \ drop' : target'[t] = before'[t] \/ (UndoFailed' /\ before'[t] = NoFile)
    BY <1>3, <1>6 DEF Undone, IInv, Undoing, UndoFailed
  <2> QED
    BY <2>1, <2>2, <2>3, <2>4 DEF Restoring
<1>8. NoNewPrimary'
  BY <1>6 DEF Undone, IInv, NoNewPrimary
<1> QED
  BY <1>2, <1>4, <1>5, <1>7, <1>8 DEF Undone, CallFrame, IInv, Busy, BeforeMoving, Moving,
     Installing, Dropping, Undoing, Cleaning, Between

LEMMA RestoreStep ==
  ASSUME IInv, Restore
  PROVE  IInv'
<1> USE ManagedFacts, ContentFacts
<1>1. call \in Calls /\ call \in Made /\ Busy
  BY DEF Restore, IInv, TypeOK, Running, Busy, Made
<1> DEFINE t == Managed[at]
<1>2. Made' = Made /\ Installed' = Installed
  BY DEF Restore, CallFrame, Made, Installed
<1>3. UNCHANGED <<call, files, before, history, readerVars, temp, pc, staged, installed, outcome>>
      /\ pc = "restore" /\ at' = at - 1 /\ at > 0 /\ at \in Nat
  BY DEF Restore, CallFrame, IInv, TypeOK
<1>4. (Running /\ Staging)'
  BY <1>2, <1>3 DEF IInv, Running, Staging, Busy
<1>5. CASE t \in drop /\ target' = [target EXCEPT ![t] = backup[call][t]]
           /\ BackupBecomes(t, NoFile) /\ drop' = drop \ {t} /\ UNCHANGED faults
  <2>1. /\ backup' \in [Calls -> [Targets -> Content]] /\ t \in Targets
        /\ \A u \in Targets \ {t} : backup'[call][u] = backup[call][u]
    BY <1>1, <1>5, BackupBecomesStep DEF IInv, TypeOK, Content
  <2>2. backup[call][t] = before[t] /\ backup[call][t] \in Content
    BY <1>1, <1>3, <1>5, <2>1 DEF IInv, TypeOK, Restoring
  <2>3. /\ target' \in [Targets -> Content] /\ target'[t] = before[t]
        /\ \A u \in Targets \ {t} : target'[u] = target[u]
    BY <1>5, <2>1, <2>2 DEF IInv, TypeOK
  <2>4. TypeOK'
    BY <1>3, <1>5, <2>1, <2>3 DEF IInv, TypeOK, readerVars
  <2>5. Old'
    BY <1>2, <1>3, <1>5, <2>1, <2>3 DEF IInv, Old, Busy, UndoFailed, Matched
  <2>6. Restoring'
    <3>1. \A u \in drop' : backup'[call'][u] = before'[u]
      BY <1>3, <1>5, <2>1 DEF IInv, TypeOK, Restoring
    <3>2. ASSUME NEW u \in drop'
          PROVE  UndoFailed' \/ (target'[u] = NoFile
                                 /\ \E i \in DOMAIN Managed : i <= at' /\ Managed[i] = u)
      <4>1. u \in drop /\ u # t /\ u \in Targets
        BY <1>5 DEF IInv, TypeOK
      <4>2. CASE UndoFailed
        BY <1>5, <4>2 DEF UndoFailed
      <4>3. CASE ~UndoFailed
        <5>1. target[u] = NoFile /\ \E i \in DOMAIN Managed : i <= at /\ Managed[i] = u
          BY <1>3, <4>1, <4>3 DEF IInv, Restoring
        <5>2. PICK i \in DOMAIN Managed : i <= at /\ Managed[i] = u
          BY <5>1
        <5>3. i <= at'
          BY <1>3, <4>1, <5>2
        <5> QED
          BY <2>3, <4>1, <5>1, <5>2, <5>3
      <4> QED
        BY <4>2, <4>3
    <3>3. \A u \in Targets \ drop' : target'[u] = before'[u] \/ (UndoFailed' /\ before'[u] = NoFile)
      BY <1>3, <1>5, <2>3 DEF IInv, Restoring, UndoFailed
    <3> QED
      BY <3>1, <3>2, <3>3 DEF Restoring
  <2>7. NoNewPrimary'
    BY <1>1, <1>3, <2>1, <2>3 DEF IInv, Old, NoNewPrimary
  <2> QED
    BY <1>3, <1>4, <2>4, <2>5, <2>6, <2>7 DEF IInv, Busy, BeforeMoving, Moving, Installing,
       Dropping, Undoing, Cleaning, Between
<1>6. CASE faults' = faults \union {"undo"} /\ UNCHANGED <<target, backup, drop>>
  <2>1. UndoFailed'
    BY <1>6 DEF UndoFailed
  <2>2. TypeOK'
    BY <1>3, <1>6 DEF IInv, TypeOK, readerVars, Faults
  <2>3. Old'
    BY <1>2, <1>3, <1>6, <2>1 DEF IInv, Old, Busy
  <2>4. (Restoring /\ NoNewPrimary)'
    BY <1>3, <1>6, <2>1 DEF IInv, Restoring, NoNewPrimary
  <2> QED
    BY <1>3, <1>4, <2>2, <2>3, <2>4 DEF IInv, Busy, BeforeMoving, Moving, Installing,
       Dropping, Undoing, Cleaning, Between
<1>7. CASE t \notin drop /\ UNCHANGED <<target, backup, drop, faults>>
  <2>1. TypeOK'
    BY <1>3, <1>7 DEF IInv, TypeOK, readerVars
  <2>2. Old'
    BY <1>2, <1>3, <1>7 DEF IInv, Old, Busy, UndoFailed, Matched
  <2>3. \A u \in drop : \A i \in DOMAIN Managed : i <= at /\ Managed[i] = u => i <= at'
    BY <1>3, <1>7
  <2>4. (Restoring /\ NoNewPrimary)'
    BY <1>3, <1>7, <2>3 DEF IInv, Restoring, NoNewPrimary, UndoFailed
  <2> QED
    BY <1>3, <1>4, <2>1, <2>2, <2>4 DEF IInv, Busy, BeforeMoving, Moving, Installing,
       Dropping, Undoing, Cleaning, Between
<1> QED
  BY <1>5, <1>6, <1>7 DEF Restore

LEMMA RestoredStep ==
  ASSUME IInv, Restored
  PROVE  IInv'
<1> USE ManagedFacts, ContentFacts
<1>1. TypeOK'
  BY DEF Restored, Fail, directory, CallFrame, IInv, TypeOK, readerVars, Steps
<1>2. Made' = Made /\ Installed' = Installed
  BY DEF Restored, CallFrame, Made, Installed
<1>3. (Running /\ Staging)'
  BY <1>2 DEF Restored, Fail, directory, CallFrame, IInv, Running, Staging, Busy
<1>4. Old'
  BY <1>2 DEF Restored, directory, CallFrame, IInv, Old, Busy, UndoFailed, Matched
<1>5. UNCHANGED <<target, backup, drop, faults, before, call>> /\ pc' = "clean" /\ outcome' = "error"
  BY DEF Restored, Fail, directory, CallFrame
<1>6. (Cleaning /\ NoNewPrimary)'
  <2>1. ASSUME NEW t \in drop, ~UndoFailed
        PROVE  FALSE
    BY <2>1 DEF Restored, IInv, Restoring
  <2> QED
    BY <1>5, <2>1 DEF Restored, IInv, Restoring, Cleaning, NoNewPrimary, UndoFailed
<1> QED
  BY <1>1, <1>3, <1>4, <1>5, <1>6 DEF IInv, Busy, BeforeMoving, Moving, Installing, Dropping,
     Undoing, Restoring, Between

LEMMA CleanStep ==
  ASSUME IInv, NEW t \in Targets, Clean(t)
  PROVE  IInv'
<1> USE ManagedFacts, ContentFacts
<1>1. call \in Calls /\ call \in Made /\ Busy
  BY DEF Clean, IInv, TypeOK, Running, Busy, Made
<1>2. temp[call][t] \in Content /\ NoFile \in Content
  BY <1>1 DEF IInv, TypeOK, Content
<1>3. PICK left \in {NoFile, temp[call][t]} :
        Removal(temp[call][t], left, "remove") /\ TempBecomes(t, left)
  BY DEF Clean
<1>4. /\ temp' \in [Calls -> [Targets -> Content]]
      /\ \A u \in Targets \ {t} : temp'[call][u] = temp[call][u]
      /\ \A c \in Calls \ {call} : temp'[c] = temp[c]
  BY <1>1, <1>2, <1>3, TempBecomesStep DEF IInv
<1>5. TypeOK'
  BY <1>3, <1>4 DEF Clean, Removal, CallFrame, IInv, TypeOK, readerVars, Faults
<1>6. Made' = Made /\ Installed' = Installed /\ (UndoFailed' <=> UndoFailed)
  BY <1>3 DEF Clean, Removal, CallFrame, Made, Installed, UndoFailed
<1>7. Running'
  BY <1>6 DEF Clean, CallFrame, IInv, Running, Busy
<1>8. Staging'
  BY <1>1, <1>4, <1>6 DEF Clean, CallFrame, IInv, TypeOK, Staging, Busy
<1>9. Old'
  BY <1>6 DEF Clean, CallFrame, IInv, Old, Busy, Matched
<1>10. (Cleaning /\ NoNewPrimary)'
  BY <1>6 DEF Clean, CallFrame, IInv, Cleaning, Committed, NoNewPrimary
<1> QED
  BY <1>5, <1>7, <1>8, <1>9, <1>10 DEF Clean, CallFrame, IInv, Busy, BeforeMoving, Moving,
     Installing, Dropping, Undoing, Restoring, Between

\* Whether the call returns or dies, what it leaves is safe.
LEMMA EndStep ==
  ASSUME IInv, Return \/ Crash
  PROVE  IInv'
<1> USE ManagedFacts, ContentFacts
<1>1. /\ LocalsGone /\ UNCHANGED <<directory, outcome, before, history>>
      /\ UNCHANGED <<rat, found, seen>> /\ (UndoFailed' <=> UndoFailed)
  BY DEF Return, Crash, readerVars, UndoFailed
<1>2. TypeOK'
  <2>1. rpc' \in [Readers -> {"idle", "stat", "open", "done", "failed"}]
    BY DEF Return, Crash, readerVars, IInv, TypeOK
  <2>2. faults' \subseteq Faults
    BY DEF Return, Crash, IInv, TypeOK, Faults
  <2> QED
    BY <1>1, <2>1, <2>2 DEF LocalsGone, directory, IInv, TypeOK, Steps
<1>3. Made' = Made
  BY <1>1 DEF Made
<1>4. (Running /\ Staging)'
  BY <1>1, <1>3 DEF LocalsGone, directory, IInv, Running, Staging, Busy
<1>5. Old'
  BY <1>1, <1>3 DEF LocalsGone, directory, IInv, Old, Busy, Matched
<1>6. Between'
  <2>1. NothingLost /\ NeverPaired
    BY SafetyOfPhases
  <2>2. NothingLost'
    BY <1>1, <2>1 DEF NothingLost, directory
  <2>3. NeverPaired'
    BY <1>1, <2>1 DEF NeverPaired, directory, UndoFailed
  <2> QED
    BY <2>2, <2>3 DEF Between
<1> QED
  BY <1>1, <1>2, <1>4, <1>5, <1>6 DEF LocalsGone, IInv, Busy, BeforeMoving, Moving, Installing,
     Dropping, Undoing, Restoring, Cleaning, NoNewPrimary

\* Readers, and steps that change nothing.
LEMMA ReaderStep ==
  ASSUME IInv, NEW r \in Readers, Stat(r) \/ OpenFound(r)
  PROVE  IInv'
<1> USE ManagedFacts, ContentFacts
<1>1. UNCHANGED <<directory, callVars, faults>>
  BY DEF Stat, OpenFound, ReaderFrame
<1>2. TypeOK'
  <2> DEFINE n == rat[r]
             t == FileOf(n)
  <2>1. n \in 0..(Len(Managed) - 1) /\ t \in Targets
    BY DEF IInv, TypeOK, FileOf
  <2>2. target[t] \in Content /\ NoFile \in Content
    BY <2>1 DEF IInv, TypeOK, Content
  <2>3. rat' \in [Readers -> 0..(Len(Managed) - 1)]
    BY <2>1 DEF Stat, OpenFound, IInv, TypeOK
  <2>4. rpc' \in [Readers -> {"idle", "stat", "open", "done", "failed"}]
    BY DEF Stat, OpenFound, IInv, TypeOK
  <2>5. [found[r] EXCEPT ![t] = target[t]] \in [Targets -> Content]
    BY <2>2 DEF IInv, TypeOK
  <2>6. found' \in [Readers -> [Targets -> Content]]
    <3>1. found' = found \/ found' = [found EXCEPT ![r] = [found[r] EXCEPT ![t] = target[t]]]
      BY DEF Stat, OpenFound
    <3>2. found \in [Readers -> [Targets -> Content]]
      BY DEF IInv, TypeOK
    <3> HIDE DEF n, t
    <3> QED
      BY <2>5, <3>1, <3>2
  <2>7. ASSUME NEW content \in Content
        PROVE  [seen EXCEPT ![r][t] = content] \in [Readers -> [Targets -> Content]]
    <3>1. [seen[r] EXCEPT ![t] = content] \in [Targets -> Content]
      BY DEF IInv, TypeOK
    <3> QED
      BY <3>1 DEF IInv, TypeOK
  <2>8. \/ seen' = seen
        \/ \E content \in Content : seen' = [seen EXCEPT ![r][t] = content]
    BY <2>2 DEF Stat, OpenFound
  <2>9. seen' \in [Readers -> [Targets -> Content]]
    <3>1. CASE seen' = seen
      BY <3>1 DEF IInv, TypeOK
    <3>2. CASE \E content \in Content : seen' = [seen EXCEPT ![r][t] = content]
      BY <3>2, <2>7, Zenon
    <3> QED
      BY <2>8, <3>1, <3>2
  <2> QED
    BY <1>1, <2>3, <2>4, <2>6, <2>9 DEF directory, callVars, IInv, TypeOK
<1>3. Made' = Made /\ Installed' = Installed /\ (UndoFailed' <=> UndoFailed)
  BY <1>1 DEF callVars, Made, Installed, UndoFailed
<1>4. (Running /\ Staging)'
  BY <1>1, <1>3 DEF directory, callVars, IInv, Running, Staging, Busy
<1>5. Old'
  BY <1>1, <1>3 DEF directory, callVars, IInv, Old, Busy, Matched
<1>6. (BeforeMoving /\ Moving /\ Installing /\ Dropping)'
  BY <1>1, <1>3 DEF directory, callVars, IInv, BeforeMoving, Moving, Installing, Dropping, Committed
<1>7. (Undoing /\ Restoring /\ Cleaning /\ NoNewPrimary)'
  BY <1>1, <1>3 DEF directory, callVars, IInv, Undoing, Restoring, Cleaning, Committed, NoNewPrimary
<1>8. Between'
  BY <1>1, <1>3 DEF directory, callVars, IInv, Between, Busy, NothingLost, NeverPaired, UndoFailed
<1> QED
  BY <1>2, <1>4, <1>5, <1>6, <1>7, <1>8 DEF IInv

LEMMA NextInvariant ==
  ASSUME IInv, [Next]_vars
  PROVE  IInv'
<1>1. CASE UNCHANGED vars
  BY <1>1 DEF vars, directory, callVars, readerVars, IInv, TypeOK, Running, Staging, Old, Busy,
     UndoFailed, Made, Installed, Matched, BeforeMoving, Moving, Installing, Dropping, Undoing,
     Restoring, Cleaning, Committed, NoNewPrimary, Between, NothingLost, NeverPaired
<1>2. ASSUME NEW c \in Calls, NEW requested \in SUBSET Targets, Begin(c, requested)
      PROVE  IInv'
  BY <1>2, BeginStep
<1>3. ASSUME NEW t \in Targets,
             CreateTemp(t) \/ CopyTemp(t) \/ Install(t) \/ DropBackup(t) \/ Clean(t)
      PROVE  IInv'
  BY <1>3, CreateTempStep, CopyTempStep, InstallStep, DropBackupStep, CleanStep
<1>4. CASE StagedAll \/ ReplaceFile \/ BackUp \/ BackedUp \/ InstalledAll \/ DroppedAll
  BY <1>4, StagedAllStep, ReplaceFileStep, BackUpStep, BackedUpStep, InstalledAllStep, DroppedAllStep
<1>5. CASE Undo \/ Undone \/ Restore \/ Restored \/ Return \/ Crash
  BY <1>5, UndoStep, UndoneStep, RestoreStep, RestoredStep, EndStep
<1>6. ASSUME NEW r \in Readers, Stat(r) \/ OpenFound(r)
      PROVE  IInv'
  BY <1>6, ReaderStep
<1>7. CASE Terminated
  BY <1>1, <1>7 DEF Terminated
<1> QED
  BY <1>1, <1>2, <1>3, <1>4, <1>5, <1>6, <1>7 DEF Next, CallStep

-----------------------------------------------------------------------------
(* The theorems *)

\* The inductive invariant holds in every state.
THEOREM Invariant == Spec => []IInv
<1>1. Init => IInv
  BY InitInvariant
<1>2. IInv /\ [Next]_vars => IInv'
  BY NextInvariant
<1> QED
  BY <1>1, <1>2, PTL DEF Spec

\* The files, the call and the readers hold what their types allow
\* (source.go:540-563).
THEOREM TypeCorrect == Spec => []TypeOK
BY Invariant, PTL DEF IInv

\* A call that returns an error without a failure in its rollback has changed
\* nothing, and one that succeeds has replaced the bundle (source.go:686-736).
THEOREM Atomicity == Spec => []AllOrNothing
<1>1. IInv => AllOrNothing
  BY SafetyOfPhases
<1> QED
  BY <1>1, Invariant, PTL

\* A file that was there is under its name or a backup's until the new bundle is
\* installed, whatever fails and wherever the process dies (source.go:684-730).
THEOREM Preservation == Spec => []NothingLost
<1>1. IInv => NothingLost
  BY SafetyOfPhases
<1> QED
  BY <1>1, Invariant, PTL

\* No sidecar stays beside the primary of another bundle (source.go:703-717).
THEOREM Pairing == Spec => []NeverPaired
<1>1. IInv => NeverPaired
  BY SafetyOfPhases
<1> QED
  BY <1>1, Invariant, PTL

\* A new primary has all of its sidecars (source.go:718-730).
THEOREM Completeness == Spec => []PrimaryLast
<1>1. IInv => PrimaryLast
  BY SafetyOfPhases
<1> QED
  BY <1>1, Invariant, PTL

-----------------------------------------------------------------------------
(* What a call leaves beside the files.  Without a fault, a call that does   *)
(* not run has nothing; the one that does has what it still has to remove:   *)
(* its staged files and the one it is copying, and the backups to be dropped *)
(* or restored.                                                              *)

Moved == {"backup", "install", "undo", "restore", "drop"}

Unstaged(t) == pc = "copy" /\ temp[call][t] = Partial

TidyCall ==
  /\ \A t \in Targets : temp[call][t] # NoFile => t \in staged \/ Unstaged(t)
  /\ \A t \in Targets : backup[call][t] # NoFile => t \in drop /\ pc \in Moved
  /\ \A t, u \in Targets : Unstaged(t) /\ Unstaged(u) => t = u

TidyOthers == \A c \in Calls \ {call} : temp[c] = Nothing /\ backup[c] = Nothing

Tidy == faults = {} => TidyOthers /\ (Busy => TidyCall)

\* A step of the call that holds the lock, and what it may do to its own files.
LEMMA StepOfCall ==
  ASSUME IInv, CallStep, ~Return
  PROVE  /\ Busy /\ call \in Calls /\ call' = call
         /\ faults' = {} => faults = {}
         /\ \A c \in Calls \ {call} : temp'[c] = temp[c] /\ backup'[c] = backup[c]
<1> USE ManagedFacts, ContentFacts
<1>1. CallFrame /\ Busy
  BY DEF CallStep, CreateTemp, CopyTemp, Install, DropBackup, Clean, StagedAll, ReplaceFile, BackUp,
     BackedUp, InstalledAll, DroppedAll, Undo, Undone, Restore, Restored, Busy
<1>2. call \in Calls
  BY <1>1 DEF IInv, TypeOK, Running, Busy, Made
<1>3. faults \subseteq faults'
  BY DEF CallStep, CreateTemp, CopyTemp, Install, DropBackup, Clean, StagedAll, ReplaceFile, BackUp,
     BackedUp, InstalledAll, DroppedAll, Undo, Undone, Restore, Restored, Removal
<1>4. temp \in [Calls -> [Targets -> Content]] /\ backup \in [Calls -> [Targets -> Content]]
  BY DEF IInv, TypeOK
<1>5. temp' = temp \/ \E t, content : TempBecomes(t, content)
  BY DEF CallStep, CreateTemp, CopyTemp, Install, DropBackup, Clean, StagedAll, ReplaceFile, BackUp,
     BackedUp, InstalledAll, DroppedAll, Undo, Undone, Restore, Restored, directory
<1>6. backup' = backup \/ \E t, content : BackupBecomes(t, content)
  BY DEF CallStep, CreateTemp, CopyTemp, Install, DropBackup, Clean, StagedAll, ReplaceFile, BackUp,
     BackedUp, InstalledAll, DroppedAll, Undo, Undone, Restore, Restored, directory
<1>7. ASSUME NEW c \in Calls \ {call}
      PROVE  temp'[c] = temp[c] /\ backup'[c] = backup[c]
  BY <1>4, <1>5, <1>6, <1>7 DEF TempBecomes, BackupBecomes
<1> QED
  BY <1>1, <1>2, <1>3, <1>7 DEF CallFrame

\* Staging a file: it is partial, then staged; or it is removed.
LEMMA TidyStaging ==
  ASSUME IInv, IInv', TidyCall, faults' = {}, call \in Calls, NEW t \in Targets,
         CreateTemp(t) \/ CopyTemp(t) \/ Clean(t)
  PROVE  TidyCall'
<1> USE ManagedFacts, ContentFacts
<1>1. CallFrame /\ backup' = backup /\ drop' = drop
  BY DEF CreateTemp, CopyTemp, Clean
<1>2. \A u \in Targets : backup[call][u] = NoFile
  <2>1. pc \notin Moved
    BY DEF CreateTemp, CopyTemp, Clean, Moved
  <2> QED
    BY <2>1 DEF TidyCall
<1>3. /\ pc = "stage" => \A u \in Targets : temp[call][u] # Partial
      /\ \A u \in staged : temp[call][u] = call
  <2>1. Busy
    BY DEF CreateTemp, CopyTemp, Clean, Busy
  <2>2. \A u \in staged : temp[call][u] = call
    BY <2>1 DEF IInv, Staging
  <2>3. pc = "stage" => \A u \in Targets : ~Unstaged(u)
    BY DEF Unstaged
  <2> QED
    BY <2>2, <2>3 DEF TidyCall
<1>4. ASSUME NEW content \in Content, TempBecomes(t, content)
      PROVE  /\ temp'[call][t] = content
             /\ \A u \in Targets \ {t} : temp'[call][u] = temp[call][u]
  BY <1>4, TempBecomesStep DEF IInv
<1>5. Partial \in Content /\ NoFile \in Content /\ call \in Content
  BY DEF Content
<1>6. CASE CreateTemp(t)
  <2>1. CASE TempBecomes(t, Partial) /\ pc' = "copy"
    <3>1. /\ temp'[call][t] = Partial
          /\ \A u \in Targets \ {t} : temp'[call][u] = temp[call][u]
      BY <1>4, <1>5, <2>1
    <3>2. pc = "stage" /\ staged' = staged /\ call' = call
      BY <1>1, <1>6 DEF CreateTemp, CallFrame
    <3> QED
      BY <1>1, <1>2, <1>3, <2>1, <3>1, <3>2 DEF TidyCall, Unstaged
  <2>2. CASE Fail /\ UNCHANGED temp
    <3>1. pc = "stage" /\ staged' = staged /\ call' = call /\ pc' = "clean"
      BY <1>1, <1>6, <2>2 DEF CreateTemp, CallFrame, Fail
    <3> QED
      BY <1>1, <1>2, <1>3, <2>2, <3>1 DEF TidyCall, Unstaged
  <2> QED
    BY <1>6, <2>1, <2>2 DEF CreateTemp
<1>7. CASE CopyTemp(t)
  <2>1. pc = "copy" /\ temp[call][t] = Partial /\ call' = call /\ pc' \in {"stage", "clean"}
    BY <1>1, <1>7 DEF CopyTemp, CallFrame, Fail
  <2>2. \A u \in Targets : temp[call][u] = Partial => u = t
    BY <2>1 DEF TidyCall, Unstaged
  <2>3. CASE TempBecomes(t, call) /\ staged' = staged \union {t}
    <3>1. /\ temp'[call][t] = call
          /\ \A u \in Targets \ {t} : temp'[call][u] = temp[call][u]
      BY <1>4, <1>5, <2>3
    <3> QED
      BY <1>1, <1>2, <2>1, <2>2, <2>3, <3>1 DEF TidyCall, Unstaged
  <2>4. CASE staged' = staged /\ TempBecomes(t, NoFile)
    <3>1. /\ temp'[call][t] = NoFile
          /\ \A u \in Targets \ {t} : temp'[call][u] = temp[call][u]
      BY <1>4, <1>5, <2>4
    <3> QED
      BY <1>1, <1>2, <2>1, <2>2, <2>4, <3>1 DEF TidyCall, Unstaged
  <2>5. \/ TempBecomes(t, call) /\ staged' = staged \union {t}
        \/ staged' = staged /\ TempBecomes(t, NoFile)
    BY <1>7 DEF CopyTemp, Removal
  <2> QED
    BY <2>3, <2>4, <2>5
<1>8. CASE Clean(t)
  <2>1. pc = "clean" /\ pc' = pc /\ call' = call /\ staged' = staged \ {t} /\ TempBecomes(t, NoFile)
    BY <1>1, <1>8 DEF Clean, CallFrame, Removal
  <2>2. /\ temp'[call][t] = NoFile
        /\ \A u \in Targets \ {t} : temp'[call][u] = temp[call][u]
    BY <1>4, <1>5, <2>1
  <2> QED
    BY <1>1, <1>2, <2>1, <2>2 DEF TidyCall, Unstaged
<1> QED
  BY <1>6, <1>7, <1>8

\* Moving the old files away, and removing or restoring the backups.
LEMMA TidyMoving ==
  ASSUME IInv, IInv', TidyCall, faults' = {}, call \in Calls,
         BackUp \/ Restore \/ \E t \in Targets : DropBackup(t)
  PROVE  TidyCall'
<1> USE ManagedFacts, ContentFacts
<1>1. /\ call' = call /\ temp' = temp /\ staged' = staged
      /\ pc \in Moved /\ pc' \in Moved
  BY DEF BackUp, Restore, DropBackup, CallFrame, Moved
<1>2. \A u \in Targets : temp'[call'][u] # NoFile => u \in staged'
  BY <1>1 DEF TidyCall, Unstaged, Moved
<1>3. \A u \in Targets : ~Unstaged(u)'
  BY <1>1 DEF Unstaged, Moved
<1>4. ASSUME NEW t \in Targets, NEW content \in Content, BackupBecomes(t, content)
      PROVE  /\ backup'[call][t] = content
             /\ \A u \in Targets \ {t} : backup'[call][u] = backup[call][u]
  BY <1>4, BackupBecomesStep DEF IInv
<1>5. \A u \in Targets : backup'[call'][u] # NoFile => u \in drop'
  <2>1. CASE backup' = backup /\ drop' = drop
    BY <1>1, <2>1 DEF TidyCall
  <2>2. ASSUME NEW t \in Targets, BackupBecomes(t, target[t]), drop' = drop \union {t}
        PROVE  \A u \in Targets : backup'[call'][u] # NoFile => u \in drop'
    <3>1. target[t] \in Content
      BY DEF IInv, TypeOK
    <3>2. \A u \in Targets \ {t} : backup'[call][u] = backup[call][u]
      BY <1>4, <2>2, <3>1
    <3> QED
      BY <1>1, <2>2, <3>2 DEF TidyCall
  <2>3. ASSUME NEW t \in Targets, BackupBecomes(t, NoFile), drop' = drop \ {t}
        PROVE  \A u \in Targets : backup'[call'][u] # NoFile => u \in drop'
    <3>1. NoFile \in Content
      BY DEF Content
    <3>2. /\ backup'[call][t] = NoFile
          /\ \A u \in Targets \ {t} : backup'[call][u] = backup[call][u]
      BY <1>4, <2>3, <3>1
    <3> QED
      BY <1>1, <2>3, <3>2 DEF TidyCall
  <2>4. CASE BackUp
    <3>1. pc = "backup" /\ at <= Len(Managed) /\ at > 0 /\ at \in Nat
      BY <2>4 DEF BackUp, IInv, Moving, TypeOK
    <3>2. Managed[at] \in Targets
      BY <3>1
    <3> QED
      BY <2>1, <2>2, <2>4, <3>2 DEF BackUp
  <2>5. CASE Restore
    <3>1. faults' # faults \union {"undo"}
      OBVIOUS
    <3>2. Managed[at] \in drop => Managed[at] \in Targets
      BY DEF IInv, TypeOK
    <3> QED
      BY <2>1, <2>3, <2>5, <3>1, <3>2 DEF Restore
  <2>6. ASSUME NEW t \in Targets, DropBackup(t)
        PROVE  BackupBecomes(t, NoFile) /\ drop' = drop \ {t}
    BY <2>6 DEF DropBackup, Removal
  <2> QED
    BY <2>3, <2>4, <2>5, <2>6
<1> QED
  BY <1>1, <1>2, <1>3, <1>5 DEF TidyCall

\* The staged files get their names.
LEMMA TidyInstalling ==
  ASSUME IInv, IInv', TidyCall, faults' = {}, call \in Calls,
         ReplaceFile \/ \E t \in Targets : Install(t)
  PROVE  TidyCall'
<1> USE ManagedFacts, ContentFacts
<1>1. call' = call /\ backup' = backup /\ drop' = drop /\ pc # "copy" /\ pc' # "copy"
  BY DEF ReplaceFile, Install, CallFrame
<1>2. \A u \in Targets : ~Unstaged(u)'
  BY <1>1 DEF Unstaged
<1>3. \A u \in Targets : backup'[call'][u] # NoFile => u \in drop' /\ pc' \in Moved
  <2>1. CASE ReplaceFile
    BY <1>1, <2>1 DEF ReplaceFile, TidyCall, Moved
  <2>2. CASE \E t \in Targets : Install(t)
    BY <1>1, <2>2 DEF Install, TidyCall, Moved
  <2> QED
    BY <2>1, <2>2
<1>4. \A u \in Targets : temp[call][u] # NoFile => u \in staged
  BY <1>1 DEF TidyCall, Unstaged
<1>5. \A u \in Targets : temp'[call'][u] # NoFile => u \in staged'
  <2>1. CASE temp' = temp /\ staged' = staged
    BY <1>1, <1>4, <2>1
  <2>2. ASSUME NEW t \in Targets, TempBecomes(t, NoFile), staged \ {t} \subseteq staged'
        PROVE  \A u \in Targets : temp'[call'][u] # NoFile => u \in staged'
    <3>1. NoFile \in Content
      BY DEF Content
    <3>2. /\ temp'[call][t] = NoFile
          /\ \A u \in Targets \ {t} : temp'[call][u] = temp[call][u]
      BY <2>2, <3>1, TempBecomesStep DEF IInv
    <3> QED
      BY <1>1, <1>4, <2>2, <3>2
  <2>3. CASE ReplaceFile
    <3>1. staged \subseteq {Primary}
      BY <2>3 DEF ReplaceFile, IInv, Staging, Running, Busy
    <3> QED
      BY <2>1, <2>2, <2>3, <3>1 DEF ReplaceFile
  <2>4. CASE \E t \in Targets : Install(t)
    BY <2>1, <2>2, <2>4 DEF Install
  <2> QED
    BY <2>3, <2>4
<1> QED
  BY <1>2, <1>3, <1>5 DEF TidyCall

\* The steps from one phase to another, and the removal of what was installed.
LEMMA TidyPhases ==
  ASSUME IInv, IInv', TidyCall, faults' = {}, call \in Calls,
         StagedAll \/ BackedUp \/ InstalledAll \/ DroppedAll \/ Undo \/ Undone \/ Restored
  PROVE  TidyCall'
<1> USE ManagedFacts, ContentFacts
<1>1. /\ call' = call /\ temp' = temp /\ backup' = backup /\ staged' = staged /\ drop' = drop
      /\ pc # "copy" /\ pc' # "copy"
  BY DEF StagedAll, BackedUp, InstalledAll, DroppedAll, Undo, Undone, Restored, Fail, CallFrame,
     directory
<1>2. pc \in Moved => pc' \in Moved \/ drop = {}
  <2>1. CASE Restored
    <3>1. ~UndoFailed /\ at = 0 /\ pc = "restore"
      BY <2>1 DEF Restored, UndoFailed, CallFrame
    <3>2. \A t \in drop : \E i \in DOMAIN Managed : i <= at /\ Managed[i] = t
      BY <3>1 DEF IInv, Restoring
    <3> QED
      BY <3>1, <3>2
  <2> QED
    BY <2>1 DEF StagedAll, BackedUp, InstalledAll, DroppedAll, Undo, Undone, Moved
<1> QED
  BY <1>1, <1>2 DEF TidyCall, Unstaged

LEMMA TidyStep ==
  ASSUME IInv, IInv', Tidy, [Next]_vars
  PROVE  Tidy'
<1> USE ManagedFacts, ContentFacts
<1>1. CASE UNCHANGED vars
  BY <1>1 DEF vars, directory, callVars, Tidy, TidyOthers, TidyCall, Busy, Unstaged
<1>2. ASSUME NEW c \in Calls, NEW requested \in SUBSET Targets, Begin(c, requested)
      PROVE  Tidy'
  <2>1. call = NoCall /\ call \notin Calls /\ call' = c /\ pc' = "stage"
    BY <1>2 DEF Begin, IInv, Running, Busy
  <2>2. UNCHANGED <<temp, backup, faults>>
    BY <1>2 DEF Begin, directory
  <2>3. faults = {} => \A t \in Targets : temp[c][t] = NoFile /\ backup[c][t] = NoFile
    BY <2>1 DEF Tidy, TidyOthers, Nothing
  <2> QED
    BY <2>1, <2>2, <2>3 DEF Tidy, TidyOthers, TidyCall, Unstaged
<1>3. CASE CallStep /\ ~Return
  <2>1. /\ Busy /\ call \in Calls /\ call' = call
        /\ faults' = {} => faults = {}
        /\ \A c \in Calls \ {call} : temp'[c] = temp[c] /\ backup'[c] = backup[c]
    BY <1>3, StepOfCall
  <2>2. ASSUME faults' = {} PROVE TidyOthers'
    BY <2>1, <2>2 DEF Tidy, TidyOthers
  <2>3. ASSUME faults' = {} PROVE TidyCall'
    <3>1. TidyCall
      BY <2>1, <2>3 DEF Tidy
    <3> QED
      BY <1>3, <2>1, <2>3, <3>1, TidyStaging, TidyMoving, TidyInstalling, TidyPhases DEF CallStep
  <2> QED
    BY <2>2, <2>3 DEF Tidy
<1>4. CASE Return
  <2>1. pc = "clean" /\ staged = {} /\ call \in Calls /\ call' = NoCall /\ pc' = "idle"
    BY <1>4 DEF Return, LocalsGone, IInv, TypeOK, Running, Busy, Made
  <2>2. UNCHANGED <<temp, backup, faults>>
    BY <1>4 DEF Return, directory
  <2>3. ASSUME faults = {} PROVE temp[call] = Nothing /\ backup[call] = Nothing
    <3>1. \A t \in Targets : temp[call][t] = NoFile /\ backup[call][t] = NoFile
      BY <2>1, <2>3 DEF Tidy, TidyCall, Busy, Unstaged, Moved
    <3>2. temp[call] \in [Targets -> Content] /\ backup[call] \in [Targets -> Content]
      BY <2>1 DEF IInv, TypeOK
    <3> QED
      BY <3>1, <3>2 DEF Nothing
  <2>4. faults' = {} => TidyOthers'
    BY <2>1, <2>2, <2>3 DEF Tidy, TidyOthers
  <2> QED
    BY <2>1, <2>4 DEF Tidy, Busy
<1>5. CASE Crash
  BY <1>5 DEF Crash, Tidy
<1>6. CASE \E r \in Readers : Stat(r) \/ OpenFound(r)
  BY <1>6 DEF Stat, OpenFound, ReaderFrame, directory, callVars, Tidy, TidyOthers, TidyCall, Busy,
     Unstaged
<1>7. CASE Terminated
  BY <1>1, <1>7 DEF Terminated
<1> QED
  BY <1>1, <1>2, <1>3, <1>4, <1>5, <1>6, <1>7 DEF Next

\* Without a fault, nothing is left beside the files when no call runs.
\* (source.go:628-635, 651-666, 734-736)
THEOREM Tidiness == Spec => []NoLitter
<1>1. Init => Tidy
  BY DEF Init, Tidy, TidyOthers, Busy
<1>2. IInv /\ IInv' /\ Tidy /\ [Next]_vars => Tidy'
  BY TidyStep
<1>3. IInv /\ Tidy => NoLitter
  <2> SUFFICES ASSUME IInv, Tidy, pc = "idle", faults = {}
               PROVE  \A c \in Calls : temp[c] = Nothing /\ backup[c] = Nothing
    BY DEF NoLitter
  <2>1. call \notin Calls
    BY ContentFacts DEF IInv, Running, Busy
  <2> QED
    BY <2>1 DEF Tidy, TidyOthers
<1> QED
  BY <1>1, <1>2, <1>3, Invariant, PTL DEF Spec

\* A WriteFile moves nothing away: the one step of it that changes its target is
\* the rename.  (source.go:484)
THEOREM Replacement == Spec => WriteFileKeepsPrimary
<1>1. ASSUME IInv, [Next]_vars, call \in FileCalls, target[Primary] # NoFile
      PROVE  target'[Primary] # NoFile
  <2> USE ManagedFacts, ContentFacts
  <2>1. Busy /\ call \in Calls
    BY <1>1 DEF IInv, Running, Busy
  <2>2. pc \notin {"backup", "install", "undo", "restore"}
    BY <1>1 DEF IInv, Running
  <2>3. CASE ReplaceFile
    <3>1. staged = {Primary} /\ temp[call][Primary] = call
      BY <1>1, <2>1, <2>3 DEF ReplaceFile, IInv, Running, Staging, Busy
    <3> QED
      BY <1>1, <2>1, <2>3, <3>1 DEF ReplaceFile, IInv, TypeOK
  <2>4. CASE target' = target
    BY <1>1, <2>4
  <2>5. ReplaceFile \/ target' = target
    BY <1>1, <2>2 DEF Next, vars, CallStep, Begin, CreateTemp, CopyTemp, Install, DropBackup, Clean,
       StagedAll, BackUp, BackedUp, InstalledAll, DroppedAll, Undo, Undone, Restore, Restored,
       Return, Crash, Stat, OpenFound, ReaderFrame, Terminated, directory
  <2> QED
    BY <2>3, <2>4, <2>5
<1>2. IInv /\ [Next]_vars =>
        [(call \in FileCalls /\ target[Primary] # NoFile) => target'[Primary] # NoFile]_vars
  BY <1>1
<1> QED
  BY <1>2, Invariant, PTL DEF Spec, WriteFileKeepsPrimary

-----------------------------------------------------------------------------
(* What a reader without the lock sees.  In every state the sidecars beside  *)
(* the primary of a bundle follow it: each is gone, of the same bundle, or   *)
(* of a later one.  Once a reader has opened a primary, the files it may     *)
(* still find follow that one, and so do those that a rollback would bring   *)
(* back.                                                                     *)

Follows(a, b) == a \in {NoFile, b} \/ Newer(a, b)

Sound(f) ==
  f[Primary] \notin FileCalls \union {NoFile} => \A t \in Targets : Follows(f[t], f[Primary])

\* The running call is the latest, and what it has not written was there before.
Latest == Busy => history # <<>> /\ history[Len(history)] = call

Mine == Busy => \A t \in Targets : target[t] \in {NoFile, before[t], call}

\* The call may still bring the files back that it found.
Revertible ==
  pc \in {"backup", "undo", "restore"} \/ (pc = "install" /\ Primary \notin Installed)

Opened(r) == rpc[r] = "done" \/ (rpc[r] = "open" /\ rat[r] > 0)

Looking(r) ==
  /\ rpc[r] = "idle" => rat[r] = 0
  /\ rpc[r] = "stat" => rat[r] > 0
  /\ rpc[r] \in {"stat", "open"} => found[r][Primary] # NoFile
  /\ rpc[r] \in {"idle", "stat", "open"} /\ ~Opened(r) => seen[r] = Nothing

\* Nothing that is or may come back is older than the primary p.
NothingOlder(p) ==
  /\ \A t \in Targets : Follows(target[t], p)
  /\ Revertible => \A t \in Targets : Follows(before[t], p)

Reading(r) ==
  Opened(r) /\ seen[r][Primary] \notin FileCalls =>
    /\ seen[r][Primary] \in Made \union {Original}
    /\ \A t \in Targets : Follows(seen[r][t], seen[r][Primary])
    /\ NothingOlder(seen[r][Primary])

Fresh ==
  /\ Latest /\ Mine /\ Sound(target) /\ Sound(before)
  /\ \A r \in Readers : Looking(r) /\ Reading(r)

\* The order of the calls only grows.
LEMMA HistoryGrows ==
  ASSUME TypeOK, NEW c \in Calls, history' = Append(history, c)
  PROVE  /\ \A a, b : Follows(a, b) => Follows(a, b)'
         /\ Made' = Made \union {c}
         /\ history' # <<>> /\ history'[Len(history')] = c
<1>1. history \in Seq(Calls)
  BY DEF TypeOK
<1>2. /\ \A i \in DOMAIN history : i \in DOMAIN history' /\ history'[i] = history[i]
      /\ DOMAIN history' = DOMAIN history \union {Len(history) + 1}
      /\ history'[Len(history) + 1] = c /\ Len(history') = Len(history) + 1
  BY <1>1
<1>3. ASSUME NEW a, NEW b, Newer(a, b) PROVE Newer(a, b)'
  BY <1>2, <1>3 DEF Newer
<1>4. Made' = Made \union {c}
  BY <1>2 DEF Made
<1>5. history' # <<>>
  BY <1>1
<1> QED
  BY <1>2, <1>3, <1>4, <1>5 DEF Follows

LEMMA HistorySame ==
  ASSUME history' = history
  PROVE  /\ \A a, b : Follows(a, b)' <=> Follows(a, b)
         /\ Made' = Made
BY DEF Follows, Newer, Made

\* What the running call writes follows whatever there was.
LEMMA CallFollows ==
  ASSUME TypeOK, Latest, Busy, NEW p \in Made \union {Original}
  PROVE  Follows(call, p)
<1> USE ContentFacts
<1>1. /\ history \in Seq(Calls) /\ history # <<>> /\ history[Len(history)] = call
      /\ Len(history) \in DOMAIN history /\ call \in Calls
  BY DEF TypeOK, Latest
<1>2. CASE p = call
  BY <1>2 DEF Follows
<1>3. CASE p = Original
  BY <1>1, <1>3 DEF Follows, Newer
<1>4. CASE p \in Made /\ p # call
  <2>1. PICK j \in DOMAIN history : history[j] = p
    BY <1>4 DEF Made
  <2>2. j # Len(history) /\ Len(history) > j
    BY <1>1, <1>4, <2>1
  <2> QED
    BY <1>1, <2>1, <2>2 DEF Follows, Newer
<1> QED
  BY <1>2, <1>3, <1>4

\* What a step of the running call does to its targets: a file goes, stays, or
\* becomes the call's, or it is brought back.
CallMoves ==
  /\ Busy /\ call \in Calls /\ UNCHANGED <<call, before, history, readerVars>>
  /\ \A t \in Targets : \/ target'[t] \in {NoFile, target[t], call}
                        \/ Revertible /\ target'[t] = before[t]
  /\ Revertible' => Revertible \/ before = target

LEMMA MovesOfCall ==
  ASSUME IInv, IInv', CallStep, ~Return
  PROVE  CallMoves
<1> USE ManagedFacts, ContentFacts
<1>1. CallFrame /\ Busy /\ call \in Calls
  <2>1. CallFrame
    BY DEF CallStep, CreateTemp, CopyTemp, Install, DropBackup, Clean, StagedAll, ReplaceFile,
       BackUp, BackedUp, InstalledAll, DroppedAll, Undo, Undone, Restore, Restored
  <2> QED
    BY <2>1, StepOfCall
<1>2. target \in [Targets -> Content]
  BY DEF IInv, TypeOK
<1>3. ASSUME NEW t \in Targets
      PROVE  \/ target'[t] \in {NoFile, target[t], call}
             \/ Revertible /\ target'[t] = before[t]
  <2>1. CASE target' = target
    BY <2>1
  <2>2. CASE ReplaceFile
    <3>1. temp[call][Primary] = call
      BY <1>1, <2>2 DEF ReplaceFile, IInv, Running, Staging, Busy
    <3> QED
      BY <1>2, <2>2, <3>1 DEF ReplaceFile
  <2>3. CASE BackUp
    BY <1>2, <2>3 DEF BackUp
  <2>4. ASSUME NEW u \in Targets, Install(u)
        PROVE  target'[t] \in {NoFile, target[t], call}
    <3>1. temp[call][u] = call
      BY <1>1, <2>4 DEF Install, IInv, Staging
    <3> QED
      BY <1>2, <2>4, <3>1 DEF Install
  <2>5. CASE Undo
    BY <1>2, <2>5 DEF Undo
  <2>6. CASE Restore
    <3>1. Managed[at] \in drop => Managed[at] \in Targets /\ backup[call][Managed[at]] = before[Managed[at]]
      BY <2>6 DEF Restore, IInv, TypeOK, Restoring
    <3> QED
      BY <1>2, <2>6, <3>1 DEF Restore, Revertible
  <2> QED
    BY <2>1, <2>2, <2>3, <2>4, <2>5, <2>6 DEF CallStep, CreateTemp, CopyTemp, DropBackup, Clean,
       StagedAll, BackedUp, InstalledAll, DroppedAll, Undone, Restored, directory
<1>4. ASSUME Revertible', ~Revertible PROVE before = target
  <2>1. pc \notin {"backup", "undo", "restore"} /\ (pc = "install" => Primary \in Installed)
    BY <1>4 DEF Revertible
  <2>2. pc' \in {"backup", "undo", "restore", "install"}
    BY <1>4 DEF Revertible
  <2>3. CASE StagedAll
    BY <2>3 DEF StagedAll, IInv, BeforeMoving
  <2>4. ASSUME NEW u \in Targets, Install(u) PROVE FALSE
    <3>1. Primary \in Installed
      BY <2>1, <2>4 DEF Install
    <3>2. Installed = files
      BY <2>4, <3>1 DEF Install, IInv, Installing
    <3> QED
      BY <2>4, <3>2 DEF Install
  <2> QED
    BY <2>1, <2>2, <2>3, <2>4 DEF CallStep, CreateTemp, CopyTemp, DropBackup, Clean, ReplaceFile,
       BackUp, BackedUp, InstalledAll, DroppedAll, Undo, Undone, Restore, Restored, Fail
<1> QED
  BY <1>1, <1>3, <1>4 DEF CallMoves, CallFrame

LEMMA MovesAreMine ==
  ASSUME IInv, Fresh, CallMoves
  PROVE  (Latest /\ Mine)'
BY DEF CallMoves, Fresh, Latest, Mine, Busy, Revertible

\* Files that go, or stay, leave the others sound.
LEMMA FewerSound ==
  ASSUME NEW f, NEW g, Sound(f), Primary \in Targets, \A t \in Targets : g[t] \in {NoFile, f[t]}
  PROVE  Sound(g)
BY DEF Sound, Follows

LEMMA CallSound ==
  ASSUME IInv, IInv', Fresh, CallStep, ~Return, CallMoves
  PROVE  Sound(target)'
<1> USE ManagedFacts, ContentFacts
<1>1. UNCHANGED <<call, before, history>> /\ Busy /\ call \in Calls
  BY DEF CallMoves
<1>2. target \in [Targets -> Content] /\ target' \in [Targets -> Content]
  BY DEF IInv, TypeOK
<1>3. \A f : Sound(f) <=> /\ f[Primary] \notin FileCalls \union {NoFile}
                          => \A t \in Targets : Follows(f[t], f[Primary])
  BY DEF Sound
<1> SUFFICES Sound(target')
  BY <1>1, HistorySame DEF Sound
<1>4. CASE \A t \in Targets : target'[t] \in {NoFile, target[t]}
  BY <1>4, FewerSound DEF Fresh
<1>5. CASE ReplaceFile
  <2>1. temp[call][Primary] = call /\ call \in FileCalls
    BY <1>1, <1>5 DEF ReplaceFile, IInv, Running, Staging, Busy
  <2> QED
    BY <1>2, <1>4, <1>5, <2>1 DEF ReplaceFile, Sound
<1>6. ASSUME NEW u \in Targets, Install(u)
      PROVE  Sound(target')
  <2>1. CASE pc' = "install"
    <3>1. \A t \in Targets : target'[t] \in {call, NoFile}
      BY <1>1, <2>1 DEF IInv, Installing
    <3> QED
      BY <3>1 DEF Sound, Follows
  <2>2. CASE target' = target
    BY <1>4, <2>2
  <2> QED
    BY <1>6, <2>1, <2>2 DEF Install
<1>7. CASE Restore
  <2>1. \A t \in Targets : target[t] \in {NoFile, before[t], call}
    BY <1>1 DEF Fresh, Mine
  <2>2. target'[Primary] \in {NoFile, before[Primary]}
    <3>1. target'[Primary] # call
      BY <1>1, <1>7 DEF Restore, CallFrame, IInv, NoNewPrimary
    <3> QED
      BY <1>1, <2>1, <3>1 DEF CallMoves
  <2>3. \A t \in Targets : target'[t] \in {NoFile, before[t], call}
    BY <2>1 DEF CallMoves
  <2>4. SUFFICES ASSUME before[Primary] \notin FileCalls \union {NoFile},
                        target'[Primary] = before[Primary]
                 PROVE  \A t \in Targets : Follows(target'[t], before[Primary])
    BY <2>2 DEF Sound
  <2>5. before[Primary] \in Made \union {Original}
    BY <2>4 DEF IInv, Old
  <2>6. Follows(call, before[Primary])
    BY <1>1, <2>5, CallFollows DEF IInv, Fresh
  <2>7. \A t \in Targets : Follows(before[t], before[Primary])
    BY <2>4 DEF Fresh, Sound
  <2> QED
    BY <2>3, <2>6, <2>7 DEF Follows
<1>8. CASE BackUp \/ Undo
  <2>1. \A t \in Targets : target'[t] \in {NoFile, target[t]}
    BY <1>2, <1>8 DEF BackUp, Undo
  <2> QED
    BY <1>4, <2>1
<1>9. CASE target' = target
  BY <1>4, <1>9
<1> QED
  BY <1>5, <1>6, <1>7, <1>8, <1>9 DEF CallStep, CreateTemp, CopyTemp, DropBackup, Clean,
     StagedAll, BackedUp, InstalledAll, DroppedAll, Undone, Restored, directory

\* What a reader has opened is not overtaken by anything older.
LEMMA CallOlder ==
  ASSUME IInv, Fresh, CallMoves, NEW p \in Made \union {Original}, NothingOlder(p)
  PROVE  NothingOlder(p)'
<1>1. Follows(call, p)
  BY CallFollows DEF IInv, Fresh, CallMoves
<1>2. \A a, b : Follows(a, b)' <=> Follows(a, b)
  BY HistorySame DEF CallMoves
<1>3. \A t \in Targets : Follows(target'[t], p)
  <2>1. Follows(NoFile, p)
    BY DEF Follows
  <2> QED
    BY <1>1, <2>1 DEF CallMoves, NothingOlder
<1>4. Revertible' => \A t \in Targets : Follows(before[t], p)
  BY DEF CallMoves, NothingOlder
<1> QED
  BY <1>2, <1>3, <1>4 DEF CallMoves, NothingOlder

LEMMA CallFresh ==
  ASSUME IInv, IInv', Fresh, CallStep, ~Return
  PROVE  Fresh'
<1>1. CallMoves
  BY MovesOfCall
<1>2. UNCHANGED <<before, history, rpc, rat, found, seen>>
  BY <1>1 DEF CallMoves, readerVars
<1>3. (\A a, b : Follows(a, b)' <=> Follows(a, b)) /\ Made' = Made
  BY <1>2, HistorySame
<1>4. Sound(before)'
  BY <1>2, <1>3 DEF Fresh, Sound
<1>5. ASSUME NEW r \in Readers PROVE Looking(r)' /\ Reading(r)'
  <2>1. Looking(r)'
    BY <1>2 DEF Fresh, Looking, Opened
  <2>2. Opened(r)' <=> Opened(r)
    BY <1>2 DEF Opened
  <2>3. ASSUME Opened(r), seen[r][Primary] \notin FileCalls
        PROVE  /\ seen[r][Primary] \in Made \union {Original}
               /\ \A t \in Targets : Follows(seen[r][t], seen[r][Primary])
               /\ NothingOlder(seen[r][Primary])'
    <3>1. /\ seen[r][Primary] \in Made \union {Original}
          /\ \A t \in Targets : Follows(seen[r][t], seen[r][Primary])
          /\ NothingOlder(seen[r][Primary])
      BY <2>3 DEF Fresh, Reading
    <3>2. ASSUME NEW p \in Made \union {Original}, p = seen[r][Primary]
          PROVE  NothingOlder(p)'
      BY <1>1, <3>1, <3>2, CallOlder
    <3> QED
      BY <1>2, <3>1, <3>2 DEF NothingOlder
  <2> QED
    BY <1>2, <1>3, <2>1, <2>2, <2>3 DEF Reading
<1> QED
  BY <1>1, <1>4, <1>5, MovesAreMine, CallSound DEF Fresh

LEMMA BeginFresh ==
  ASSUME IInv, IInv', Fresh, NEW c \in Calls, NEW requested \in SUBSET Targets, Begin(c, requested)
  PROVE  Fresh'
<1>1. /\ history' = Append(history, c) /\ call' = c /\ pc' = "stage" /\ before' = target
      /\ target' = target /\ UNCHANGED <<rpc, rat, found, seen>>
  BY DEF Begin, directory, readerVars
<1>2. /\ \A a, b : Follows(a, b) => Follows(a, b)'
      /\ Made' = Made \union {c}
      /\ history' # <<>> /\ history'[Len(history')] = c
  BY <1>1, HistoryGrows DEF IInv
<1>3. (Latest /\ Mine)'
  BY <1>1, <1>2 DEF Latest, Mine
<1>4. Sound(target)' /\ Sound(before)'
  BY <1>1, <1>2 DEF Fresh, Sound
<1>5. ~Revertible'
  BY <1>1 DEF Revertible
<1>6. ASSUME NEW r \in Readers PROVE Looking(r)' /\ Reading(r)'
  <2>1. Looking(r)'
    BY <1>1 DEF Fresh, Looking, Opened
  <2>2. Opened(r)' <=> Opened(r)
    BY <1>1 DEF Opened
  <2> QED
    BY <1>1, <1>2, <1>5, <2>1, <2>2 DEF Fresh, Reading, NothingOlder
<1> QED
  BY <1>3, <1>4, <1>6 DEF Fresh

LEMMA EndFresh ==
  ASSUME IInv, IInv', Fresh, Return \/ Crash
  PROVE  Fresh'
<1>1. pc' = "idle" /\ UNCHANGED <<target, before, history, rat, found, seen>>
  BY DEF Return, Crash, LocalsGone, directory, readerVars
<1>2. (\A a, b : Follows(a, b)' <=> Follows(a, b)) /\ Made' = Made
  BY <1>1, HistorySame
<1>3. ASSUME NEW r \in Readers
      PROVE  rpc'[r] = rpc[r] \/ (rpc'[r] = "failed" /\ rpc[r] \in {"stat", "open"})
  BY DEF Return, Crash, readerVars
<1>4. (Latest /\ Mine)' /\ ~Revertible'
  BY <1>1 DEF Latest, Mine, Busy, Revertible
<1>5. Sound(target)' /\ Sound(before)'
  BY <1>1, <1>2 DEF Fresh, Sound
<1>6. ASSUME NEW r \in Readers PROVE Looking(r)' /\ Reading(r)'
  <2>1. Looking(r)'
    BY <1>1, <1>3 DEF Fresh, Looking, Opened
  <2>2. Opened(r)' => Opened(r)
    BY <1>1, <1>3 DEF Opened
  <2> QED
    BY <1>1, <1>2, <1>4, <2>1, <2>2 DEF Fresh, Reading, NothingOlder
<1> QED
  BY <1>4, <1>5, <1>6 DEF Fresh

\* A primary that a reader opens is not older than what is beside it, or what
\* may come back.
LEMMA OpenedPrimary ==
  ASSUME IInv, Fresh, target[Primary] \notin FileCalls \union {NoFile}
  PROVE  target[Primary] \in Made \union {Original} /\ NothingOlder(target[Primary])
<1> USE ManagedFacts, ContentFacts
<1>1. target[Primary] \in Made \union {Original}
  BY DEF IInv, Old
<1>2. \A t \in Targets : Follows(target[t], target[Primary])
  BY DEF Fresh, Sound
<1>3. ASSUME Revertible PROVE \A t \in Targets : Follows(before[t], target[Primary])
  <2>1. target[Primary] # call
    <3>1. CASE pc = "backup"
      BY <3>1 DEF IInv, Moving, Old, Busy
    <3>2. CASE pc = "install" /\ Primary \notin Installed
      BY <3>2 DEF IInv, Installing
    <3>3. CASE pc \in {"undo", "restore"}
      BY <3>3 DEF IInv, NoNewPrimary
    <3> QED
      BY <1>3, <3>1, <3>2, <3>3 DEF Revertible
  <2>2. target[Primary] = before[Primary]
    BY <1>3, <2>1 DEF Fresh, Mine, Revertible, Busy
  <2> QED
    BY <2>2 DEF Fresh, Sound
<1> QED
  BY <1>1, <1>2, <1>3 DEF NothingOlder

\* A step of one reader, who looks at the primary first.
LEMMA ReaderFresh ==
  ASSUME IInv, IInv', Fresh, NEW r \in Readers, Stat(r) \/ OpenFound(r)
  PROVE  Fresh'
<1> USE ManagedFacts, ContentFacts
<1> DEFINE n == rat[r]
           t == FileOf(n)
<1>1. UNCHANGED <<target, call, pc, installed, before, history>>
  BY DEF Stat, OpenFound, ReaderFrame, directory, callVars
<1>2. (\A a, b : Follows(a, b)' <=> Follows(a, b)) /\ Made' = Made
  BY <1>1, HistorySame
<1>3. (Latest /\ Mine)' /\ Sound(target)' /\ Sound(before)' /\ (Revertible' <=> Revertible)
  BY <1>1, <1>2 DEF Fresh, Latest, Mine, Busy, Sound, Revertible, Installed
<1>4. \A p : NothingOlder(p)' <=> NothingOlder(p)
  BY <1>1, <1>2, <1>3 DEF NothingOlder
<1>5. ASSUME NEW o \in Readers, o # r PROVE Looking(o)' /\ Reading(o)'
  <2>1. rpc'[o] = rpc[o] /\ rat'[o] = rat[o] /\ found'[o] = found[o] /\ seen'[o] = seen[o]
    BY <1>5 DEF Stat, OpenFound, IInv, TypeOK
  <2> QED
    BY <1>2, <1>4, <2>1 DEF Fresh, Looking, Reading, Opened
<1>6. n \in 0..(Len(Managed) - 1) /\ (n # 0 => t \in Targets \ {Primary}) /\ (n = 0 => t = Primary)
  <2>1. n \in 0..(Len(Managed) - 1)
    BY DEF IInv, TypeOK
  <2>2. ASSUME n # 0 PROVE t \in Targets \ {Primary}
    <3>1. n \in 1..Len(Managed) /\ n # Len(Managed) /\ t = Managed[n]
      BY <2>1, <2>2 DEF FileOf
    <3>2. Managed[n] # Managed[Len(Managed)]
      BY <3>1, ManagedAssumption
    <3> QED
      BY <3>1, <3>2 DEF Primary
  <2> QED
    BY <2>1, <2>2 DEF FileOf
<1>7. CASE Stat(r)
  <2>1. /\ rpc[r] \in {"idle", "stat"} /\ seen' = seen
        /\ found'[r] = [found[r] EXCEPT ![t] = target[t]]
        /\ rpc'[r] = IF n = 0 /\ target[t] = NoFile THEN "failed"
                     ELSE IF n + 1 = Len(Managed) THEN "open" ELSE "stat"
        /\ rat'[r] = IF n + 1 = Len(Managed) THEN 0 ELSE n + 1
    <3> HIDE DEF t
    <3> QED
      BY <1>7 DEF Stat, IInv, TypeOK, t
  <2>2. Looking(r)
    BY DEF Fresh
  <2>3. rpc'[r] \in {"stat", "open"} => found'[r][Primary] # NoFile
    <3>1. found[r] \in [Targets -> Content]
      BY DEF IInv, TypeOK
    <3>2. CASE n = 0
      BY <1>6, <2>1, <3>1, <3>2
    <3>3. CASE n # 0
      <4>1. rpc[r] = "stat"
        BY <2>1, <2>2, <3>3 DEF Looking
      <4>2. found'[r][Primary] = found[r][Primary]
        BY <1>6, <2>1, <3>1, <3>3
      <4> QED
        BY <2>2, <4>1, <4>2 DEF Looking
    <3> QED
      BY <3>2, <3>3
  <2>4. ~Opened(r)' /\ seen'[r] = Nothing
    BY <2>1, <2>2 DEF Looking, Opened
  <2>5. (rpc'[r] = "stat" => rat'[r] > 0) /\ rpc'[r] # "idle"
    BY <1>6, <2>1
  <2> QED
    BY <1>3, <1>5, <2>3, <2>4, <2>5 DEF Fresh, Looking, Reading, Opened, Nothing
<1>8. CASE OpenFound(r)
  <2>1. rpc[r] = "open" /\ found' = found /\ Looking(r) /\ Reading(r) /\ found[r][Primary] # NoFile
    BY <1>8 DEF OpenFound, Fresh, Looking
  <2>2. CASE rpc'[r] = "failed"
    BY <1>3, <1>5, <2>1, <2>2 DEF Fresh, Looking, Reading, Opened
  <2>3. CASE rpc'[r] # "failed"
    <3> DEFINE content == IF found[r][t] = NoFile THEN NoFile ELSE target[t]
    <3>1. /\ seen'[r] = [seen[r] EXCEPT ![t] = content]
          /\ rat'[r] = IF n + 1 = Len(Managed) THEN 0 ELSE n + 1
          /\ rpc'[r] = IF n + 1 = Len(Managed) THEN "done" ELSE "open"
          /\ found[r][t] = NoFile \/ target[t] # NoFile
      <4>1. /\ seen \in [Readers -> [Targets -> Content]]
            /\ rat \in [Readers -> 0..(Len(Managed) - 1)]
            /\ rpc \in [Readers -> {"idle", "stat", "open", "done", "failed"}]
        BY DEF IInv, TypeOK
      <4>2. rpc'[r] # "failed" => rpc' # [rpc EXCEPT ![r] = "failed"]
        BY <4>1
      <4>3. /\ found[r][t] = NoFile \/ target[t] # NoFile
            /\ seen' = [seen EXCEPT ![r][t] = content]
            /\ rat' = [rat EXCEPT ![r] = IF n + 1 = Len(Managed) THEN 0 ELSE n + 1]
            /\ rpc' = [rpc EXCEPT ![r] = IF n + 1 = Len(Managed) THEN "done" ELSE "open"]
        BY <1>8, <2>3, <4>2 DEF OpenFound
      <4> HIDE DEF t, n, content
      <4> QED
        BY <4>1, <4>3
    <3>2. seen[r] \in [Targets -> Content] /\ t \in Targets
      BY <1>6 DEF IInv, TypeOK
    <3>3. Opened(r)' /\ Looking(r)'
      BY <1>6, <2>1, <3>1 DEF Opened, Looking
    <3> DEFINE p == seen'[r][Primary]
    <3>4. ASSUME p \notin FileCalls
          PROVE  /\ p \in Made \union {Original}
                 /\ NothingOlder(p)
                 /\ \A u \in Targets : Follows(seen'[r][u], p)
      <4>1. CASE n = 0
        <5>1. p = target[Primary] /\ p # NoFile
          BY <1>6, <2>1, <3>1, <3>2, <4>1
        <5>2. p \in Made \union {Original} /\ NothingOlder(p)
          BY <3>4, <5>1, OpenedPrimary
        <5>3. ~Opened(r)
          BY <2>1, <4>1 DEF Opened
        <5>4. seen[r] = Nothing
          BY <2>1, <5>3 DEF Looking
        <5>5. \A u \in Targets : seen'[r][u] \in {p, NoFile}
          BY <1>6, <3>1, <3>2, <4>1, <5>4 DEF Nothing
        <5> QED
          BY <5>2, <5>5 DEF Follows
      <4>2. CASE n # 0
        <5>1. Opened(r) /\ p = seen[r][Primary]
          BY <1>6, <2>1, <3>1, <3>2, <4>2 DEF Opened
        <5>2. /\ p \in Made \union {Original} /\ NothingOlder(p)
              /\ \A u \in Targets : Follows(seen[r][u], p)
          BY <2>1, <3>4, <5>1 DEF Reading
        <5>3. Follows(content, p)
          <6> HIDE DEF p, t
          <6>1. Follows(target[t], p) /\ Follows(NoFile, p)
            BY <3>2, <5>2 DEF NothingOlder, Follows
          <6> QED
            BY <6>1
        <5> HIDE DEF content, p, t
        <5>4. \A u \in Targets : seen'[r][u] \in {seen[r][u], content}
          BY <3>1, <3>2
        <5>5. \A u \in Targets : Follows(seen'[r][u], p)
          BY <5>2, <5>3, <5>4
        <5> QED
          BY <5>2, <5>5
      <4> QED
        BY <4>1, <4>2
    <3>5. Reading(r)'
      BY <1>2, <1>4, <3>4 DEF Reading
    <3> QED
      BY <1>3, <1>5, <3>3, <3>5 DEF Fresh
  <2> QED
    BY <2>2, <2>3
<1> QED
  BY <1>7, <1>8

LEMMA FreshStep ==
  ASSUME IInv, IInv', Fresh, [Next]_vars
  PROVE  Fresh'
<1>1. CASE UNCHANGED vars
  <2>1. (\A a, b : Follows(a, b)' <=> Follows(a, b)) /\ Made' = Made
    BY <1>1, HistorySame DEF vars, callVars
  <2>2. UNCHANGED <<target, call, pc, installed, before, history, rpc, rat, found, seen>>
    BY <1>1 DEF vars, callVars, directory, readerVars
  <2> QED
    BY <2>1, <2>2 DEF Fresh, Latest, Mine, Sound, Looking, Reading, Opened, NothingOlder,
       Revertible, Installed, Busy
<1>2. ASSUME NEW c \in Calls, NEW requested \in SUBSET Targets, Begin(c, requested)
      PROVE  Fresh'
  BY <1>2, BeginFresh
<1>3. CASE CallStep /\ ~Return
  BY <1>3, CallFresh
<1>4. CASE Return \/ Crash
  BY <1>4, EndFresh
<1>5. ASSUME NEW r \in Readers, Stat(r) \/ OpenFound(r)
      PROVE  Fresh'
  BY <1>5, ReaderFresh
<1>6. CASE Terminated
  BY <1>1, <1>6 DEF Terminated
<1> QED
  BY <1>1, <1>2, <1>3, <1>4, <1>5, <1>6 DEF Next

LEMMA FreshInit ==
  ASSUME Init
  PROVE  Fresh
<1> USE ManagedFacts, ContentFacts
<1>1. PICK S \in SUBSET Targets : target = [t \in Targets |-> IF t \in S THEN Original ELSE NoFile]
  BY DEF Init
<1>2. Sound(target) /\ Sound(before)
  BY <1>1 DEF Init, Sound, Follows
<1>3. Latest /\ Mine
  BY DEF Init, Latest, Mine, Busy
<1>4. \A r \in Readers : Looking(r) /\ Reading(r)
  BY DEF Init, Looking, Reading, Opened
<1> QED
  BY <1>2, <1>3, <1>4 DEF Fresh

\* A sidecar that a reader reads is of the bundle of its primary or of a later
\* one, however the calls, their rollbacks and crashes fall between its steps.
\* (source.go:346-384, application/engine.go:530-541)
THEOREM ReadersSeeNothingStale == Spec => []NoStaleSidecarRead
<1>1. Init => Fresh
  BY FreshInit
<1>2. IInv /\ IInv' /\ Fresh /\ [Next]_vars => Fresh'
  BY FreshStep
<1>3. IInv /\ Fresh => NoStaleSidecarRead
  <2> SUFFICES ASSUME Fresh, NEW r \in Readers, rpc[r] = "done", seen[r][Primary] \notin FileCalls,
                      NEW t \in Targets, seen[r][t] \in Calls \union {Original}
               PROVE  seen[r][t] = seen[r][Primary] \/ Newer(seen[r][t], seen[r][Primary])
    BY DEF NoStaleSidecarRead
  <2>1. Follows(seen[r][t], seen[r][Primary])
    BY DEF Fresh, Reading, Opened
  <2> QED
    BY <2>1, ContentFacts DEF Follows
<1> QED
  BY <1>1, <1>2, <1>3, Invariant, PTL DEF Spec

-----------------------------------------------------------------------------
(* A call releases writeMu: whatever fails it has a step, and each one is one *)
(* fewer of those it has left.                                               *)

\* Nothing is copied that was not created.
Copying == pc = "copy" => \E t \in Targets : temp[call][t] = Partial

LEMMA CopyingStep == ASSUME IInv, Copying, [Next]_vars PROVE Copying'
<1>1. ASSUME NEW t \in Targets, CreateTemp(t) PROVE Copying'
  <2>1. call \in Calls /\ call' = call /\ t \in Targets
    BY <1>1, ContentFacts DEF CreateTemp, CallFrame, IInv, TypeOK, Running, Busy, Made
  <2> QED
    BY <1>1, <2>1 DEF CreateTemp, Fail, TempBecomes, Copying, IInv, TypeOK
<1>2. ASSUME pc' # "copy" \/ UNCHANGED <<pc, call, temp>> PROVE Copying'
  BY <1>2 DEF Copying
<1>3. CASE Crash \/ \E c \in Calls, requested \in SUBSET Targets : Begin(c, requested)
  BY <1>2, <1>3 DEF Crash, LocalsGone, Begin
<1>4. CASE Terminated \/ UNCHANGED vars \/ \E r \in Readers : Stat(r) \/ OpenFound(r)
  BY <1>2, <1>4 DEF Terminated, vars, Stat, OpenFound, ReaderFrame, callVars, directory
<1>5. ASSUME NEW t \in Targets, CopyTemp(t) \/ Install(t) \/ DropBackup(t) \/ Clean(t) PROVE Copying'
  BY <1>2, <1>5 DEF CopyTemp, Install, DropBackup, Clean, Fail
<1>6. CASE StagedAll \/ ReplaceFile \/ BackUp \/ BackedUp \/ InstalledAll \/ DroppedAll \/ Undo
             \/ Undone \/ Restore \/ Restored \/ Return
  BY <1>2, <1>6 DEF StagedAll, ReplaceFile, BackUp, BackedUp, InstalledAll, DroppedAll, Undo, Undone,
     Restore, Restored, Return, LocalsGone, Fail
<1> QED
  BY <1>1, <1>3, <1>4, <1>5, <1>6 DEF Next, CallStep

LEMMA CopyingInvariant == Spec => [](IInv /\ Copying)
<1>1. Init => Copying
  BY DEF Init, Copying
<1> QED
  BY <1>1, CopyingStep, Invariant, PTL DEF Spec

\* The conditions of the steps of the call that holds the lock.
CallCanGoOn ==
  \/ pc = "stage" /\ (staged = files \/ \E t \in Targets : t \in files \ staged)
  \/ pc = "copy" /\ \E t \in Targets : temp[call][t] = Partial
  \/ pc = "replace"
  \/ pc = "backup"
  \/ pc = "install" /\ Installed = files
  \/ /\ pc = "install"
     /\ \E t \in Targets : t \in files \ Installed /\ (t = Primary => Installed = files \ {Primary})
  \/ pc = "drop" /\ (drop = {} \/ \E t \in Targets : t \in drop)
  \/ pc = "undo" \/ pc = "restore"
  \/ pc = "clean" /\ (staged = {} \/ \E t \in Targets : t \in staged)

LEMMA CallCan == ASSUME IInv, Copying, Busy PROVE CallCanGoOn
<1> USE ManagedFacts
<1>1. CASE pc \in {"stage", "copy", "clean", "drop"}
  BY <1>1 DEF CallCanGoOn, Copying, IInv, TypeOK, Staging
<1>2. CASE pc = "install"
  <2>1. Installed \subseteq files /\ files \subseteq Targets /\ Primary \in files
    BY <1>2 DEF IInv, TypeOK, Running, Busy, Installing
  <2>2. CASE \E t \in files \ Installed : t # Primary
    BY <1>2, <2>1, <2>2 DEF CallCanGoOn
  <2>3. CASE ~\E t \in files \ Installed : t # Primary
    <3>1. CASE Primary \in Installed
      BY <1>2, <2>1, <2>3, <3>1 DEF CallCanGoOn
    <3>2. CASE Primary \notin Installed
      <4>1. Installed = files \ {Primary}
        BY <2>1, <2>3, <3>2
      <4> QED
        BY <1>2, <2>1, <3>2, <4>1 DEF CallCanGoOn
    <3> QED
      BY <3>1, <3>2
  <2> QED
    BY <2>2, <2>3
<1> QED
  BY <1>1, <1>2 DEF CallCanGoOn, Busy, IInv, TypeOK, Steps

\* The steps the call has left, at most: it stages each file in two, moves and
\* installs them, and undoes all of that when it must.
CallLeft ==
  LET n == Len(Managed)
      s == Cardinality(staged)
  IN CASE pc = "stage"   -> 4 * Cardinality(files) - 2 * s + 2 * n + 6
       [] pc = "copy"    -> 4 * Cardinality(files) - 2 * s + 2 * n + 5
       [] pc = "replace" -> s + 2
       [] pc = "backup"  -> (n + 1 - at) + 2 * s + n + 5
       [] pc = "install" -> 2 * s + Len(installed) + n + 4
       [] pc = "drop"    -> Cardinality(drop) + s + 2
       [] pc = "undo"    -> Len(installed) + n + s + 3
       [] pc = "restore" -> at + s + 2
       [] pc = "clean"   -> s + 1
       [] pc = "idle"    -> 0

LEMMA TargetsFinite ==
  /\ IsFiniteSet(Targets)
  /\ \A S \in SUBSET Targets : /\ IsFiniteSet(S)
                               /\ Cardinality(S) \in Nat /\ Cardinality(S) <= Len(Managed)
<1>1. IsFiniteSet(1..Len(Managed)) /\ Cardinality(1..Len(Managed)) = Len(Managed)
  BY ManagedFacts, FS_Interval
<1>2. Managed \in Surjection(1..Len(Managed), Targets)
  BY ManagedFacts, ManagedAssumption DEF Surjection
<1>3. IsFiniteSet(Targets) /\ Cardinality(Targets) <= Len(Managed)
  BY <1>1, <1>2, FS_Surjection
<1>4. ASSUME NEW S \in SUBSET Targets
      PROVE  IsFiniteSet(S) /\ Cardinality(S) \in Nat /\ Cardinality(S) <= Len(Managed)
  BY <1>3, <1>4, FS_Subset, FS_CardinalityType, ManagedFacts
<1> QED
  BY <1>3, <1>4

\* What a step of the call may find.
LEMMA Sizes ==
  ASSUME IInv
  PROVE  /\ Len(Managed) \in Nat /\ Cardinality(files) \in Nat /\ Cardinality(staged) \in Nat
         /\ Cardinality(drop) \in Nat /\ Len(installed) \in Nat
         /\ Cardinality(staged) <= Cardinality(files) /\ Cardinality(files) <= Len(Managed)
         /\ Cardinality(drop) <= Len(Managed)
         /\ at \in Nat /\ at <= Len(Managed) + 1
<1>1. files \subseteq Targets /\ staged \subseteq files /\ drop \subseteq Targets
      /\ installed \in Seq(Targets) /\ at \in 0..(Len(Managed) + 1)
  BY DEF IInv, TypeOK, Staging
<1>2. Cardinality(staged) <= Cardinality(files)
  BY <1>1, TargetsFinite, FS_Subset
<1> QED
  BY <1>1, <1>2, TargetsFinite, ManagedFacts

LEMMA StagingStepCounts ==
  ASSUME IInv, NEW t \in Targets, CreateTemp(t) \/ CopyTemp(t)
  PROVE  CallLeft' < CallLeft
<1> USE Sizes
<1>1. CASE CreateTemp(t)
  BY <1>1 DEF CreateTemp, Fail, CallFrame, CallLeft
<1>2. CASE CopyTemp(t)
  <2>1. t \notin staged /\ t \in files /\ IsFiniteSet(staged) /\ staged \union {t} \subseteq files
    BY <1>2, ContentFacts, TargetsFinite DEF CopyTemp, IInv, TypeOK, Staging, Running, Busy, Made
  <2>2. Cardinality(staged \union {t}) = Cardinality(staged) + 1
        /\ Cardinality(staged \union {t}) <= Cardinality(files)
    BY <2>1, TargetsFinite, FS_AddElement, FS_Subset DEF IInv, TypeOK
  <2>3. /\ files' = files /\ pc = "copy"
        /\ \/ pc' \in {"stage", "clean"} /\ Cardinality(staged') = Cardinality(staged) + 1
           \/ pc' = "clean" /\ Cardinality(staged') = Cardinality(staged)
        /\ Cardinality(staged') <= Cardinality(files)
    BY <1>2, <2>2 DEF CopyTemp, Fail, CallFrame
  <2> DEFINE n == Len(Managed)
             s == Cardinality(staged)
             f == Cardinality(files)
  <2>4. CallLeft = 4 * f - 2 * s + 2 * n + 5 /\ f' = f /\ n \in Nat /\ s \in Nat /\ f \in Nat
    BY <2>3 DEF CallLeft
  <2>5. /\ pc' = "stage" => CallLeft' = 4 * f' - 2 * s' + 2 * n + 6
        /\ pc' = "clean" => CallLeft' = s' + 1
    BY DEF CallLeft
  <2>6. s' \in {s, s + 1} /\ s' <= f
    BY <2>3
  <2>7. pc' = "stage" => s' = s + 1
    BY <2>3
  <2>8. pc' \in {"stage", "clean"}
    BY <2>3
  <2> HIDE DEF n, s, f
  <2> QED
    BY <2>4, <2>5, <2>6, <2>7, <2>8
<1> QED
  BY <1>1, <1>2

LEMMA InstallStepCounts ==
  ASSUME IInv, NEW t \in Targets, Install(t)
  PROVE  CallLeft' < CallLeft
<1> USE Sizes
<1>1. CASE pc' = "undo"
  BY <1>1 DEF Install, CallFrame, CallLeft
<1>2. CASE pc' = pc
  <2>1. t \in staged /\ IsFiniteSet(staged) /\ installed \in Seq(Targets)
    BY TargetsFinite DEF Install, IInv, TypeOK, Staging
  <2>2. Cardinality(staged \ {t}) = Cardinality(staged) - 1
    BY <2>1, FS_RemoveElement
  <2>3. Len(Append(installed, t)) = Len(installed) + 1
    BY <2>1
  <2>4. pc = "install" /\ pc' = "install" /\ Cardinality(staged') = Cardinality(staged) - 1
        /\ Len(installed') = Len(installed) + 1
    BY <1>2, <2>2, <2>3 DEF Install
  <2> QED
    BY <2>4 DEF CallLeft
<1> QED
  BY <1>1, <1>2 DEF Install

LEMMA RemovingStepCounts ==
  ASSUME IInv, NEW t \in Targets, DropBackup(t) \/ Clean(t)
  PROVE  CallLeft' < CallLeft
<1> USE Sizes
<1>1. CASE DropBackup(t)
  <2>1. Cardinality(drop') = Cardinality(drop) - 1
    BY <1>1, TargetsFinite, FS_RemoveElement DEF DropBackup, IInv, TypeOK
  <2> QED
    BY <1>1, <2>1 DEF DropBackup, CallLeft
<1>2. CASE Clean(t)
  <2>1. Cardinality(staged') = Cardinality(staged) - 1
    BY <1>2, TargetsFinite, FS_RemoveElement DEF Clean, IInv, TypeOK
  <2> QED
    BY <1>2, <2>1 DEF Clean, CallLeft
<1> QED
  BY <1>1, <1>2

LEMMA FrontLength ==
  ASSUME NEW S, NEW s \in Seq(S), s # <<>>
  PROVE  Len(SubSeq(s, 1, Len(s) - 1)) = Len(s) - 1
<1>1. Len(s) \in Nat /\ Len(s) > 0 /\ DOMAIN s = 1..Len(s)
  BY EmptySeq
<1> QED
  BY <1>1, SubSeqProperties

LEMMA PhaseStepCounts ==
  ASSUME IInv,
         StagedAll \/ ReplaceFile \/ BackUp \/ BackedUp \/ InstalledAll \/ DroppedAll \/ Undo
           \/ Undone \/ Restore \/ Restored \/ Return
  PROVE  CallLeft' < CallLeft
<1> USE Sizes
<1>1. CASE StagedAll
  BY <1>1 DEF StagedAll, Fail, CallFrame, CallLeft
<1>2. CASE ReplaceFile
  <2>1. CASE staged' = {}
    <3>1. Cardinality(staged') = 0
      BY <2>1, FS_EmptySet
    <3> QED
      BY <1>2, <3>1 DEF ReplaceFile, CallLeft
  <2>2. CASE staged' = staged
    BY <1>2, <2>2 DEF ReplaceFile, CallLeft
  <2> QED
    BY <1>2, <2>1, <2>2 DEF ReplaceFile
<1>3. CASE BackUp
  <2>1. installed = <<>> /\ Len(installed) = 0
    BY <1>3 DEF BackUp, IInv, Moving
  <2>2. pc = "backup" /\ staged' = staged /\ installed' = installed /\ at <= Len(Managed)
        /\ ((pc' = "backup" /\ at' = at + 1) \/ pc' = "undo")
    BY <1>3 DEF BackUp
  <2> DEFINE n == Len(Managed)
             s == Cardinality(staged)
  <2>3. CallLeft = (n + 1 - at) + 2 * s + n + 5 /\ n \in Nat /\ s \in Nat /\ at \in Nat /\ at <= n
    BY <2>2 DEF CallLeft
  <2>4. /\ pc' = "backup" => CallLeft' = (n + 1 - at') + 2 * s + n + 5
        /\ pc' = "undo" => CallLeft' = 0 + n + s + 3
    BY <2>1, <2>2 DEF CallLeft
  <2> HIDE DEF n, s
  <2> QED
    BY <2>2, <2>3, <2>4
<1>4. CASE BackedUp
  <2>1. installed = <<>> /\ Len(installed) = 0
    BY <1>4 DEF BackedUp, IInv, Moving
  <2> QED
    BY <1>4, <2>1 DEF BackedUp, CallLeft
<1>5. CASE InstalledAll \/ DroppedAll
  BY <1>5 DEF InstalledAll, DroppedAll, CallLeft
<1>6. CASE Undo
  <2>1. installed \in Seq(Targets) /\ installed # <<>>
    BY <1>6 DEF Undo, IInv, TypeOK
  <2>2. Len(SubSeq(installed, 1, Len(installed) - 1)) = Len(installed) - 1
    BY <2>1, FrontLength
  <2>3. Len(installed') = Len(installed) - 1
    BY <1>6, <2>2 DEF Undo
  <2> QED
    BY <1>6, <2>3 DEF Undo, CallLeft
<1>7. CASE Undone
  BY <1>7 DEF Undone, CallLeft
<1>8. CASE Restore
  BY <1>8 DEF Restore, CallLeft
<1>9. CASE Restored \/ Return
  BY <1>9 DEF Restored, Return, LocalsGone, Fail, CallLeft
<1> QED
  BY <1>1, <1>2, <1>3, <1>4, <1>5, <1>6, <1>7, <1>8, <1>9

\* What a step does for the call that holds the lock: it takes six steps for each
\* managed file and six more, at most; each of its own is one of them, and the
\* readers, who take no lock, hold up no call.
LockGoesOn ==
  /\ \A c \in Calls, requested \in SUBSET Targets :
       Begin(c, requested) => CallLeft' <= 6 * Len(Managed) + 6
  /\ CallStep => CallLeft' < CallLeft
  /\ \A r \in Readers : Stat(r) \/ OpenFound(r) => CallLeft' = CallLeft

\* A call that has taken writeMu gives it back, whichever of its steps fail: it is
\* never stuck, and it ends after a bounded number of steps (source.go:513-743).
THEOREM LockIsReleased ==
  /\ Spec => [](Busy => CallCanGoOn)
  /\ Spec => [][LockGoesOn]_vars
<1>1. IInv /\ Copying => (Busy => CallCanGoOn)
  BY CallCan
<1>2. ASSUME IInv, Next PROVE LockGoesOn
  <2>1. ASSUME NEW c \in Calls, NEW requested \in SUBSET Targets, Begin(c, requested)
        PROVE  CallLeft' <= 6 * Len(Managed) + 6
    <3>1. Cardinality(staged') = 0 /\ Cardinality(files') \in Nat
          /\ Cardinality(files') <= Len(Managed) /\ pc' = "stage" /\ Len(Managed) \in Nat
      BY <2>1, TargetsFinite, ManagedFacts, FS_EmptySet DEF Begin
    <3> QED
      BY <3>1 DEF CallLeft
  <2>2. CallStep => CallLeft' < CallLeft
    BY <1>2, StagingStepCounts, InstallStepCounts, RemovingStepCounts, PhaseStepCounts DEF CallStep
  <2>3. ASSUME NEW r \in Readers, Stat(r) \/ OpenFound(r) PROVE CallLeft' = CallLeft
    BY <2>3 DEF Stat, OpenFound, ReaderFrame, callVars, CallLeft
  <2> QED
    BY <2>1, <2>2, <2>3 DEF LockGoesOn
<1>3. IInv /\ [Next]_vars => [LockGoesOn]_vars
  BY <1>2
<1>4. Spec => [](Busy => CallCanGoOn)
  BY <1>1, CopyingInvariant, PTL
<1>5. Spec => [][LockGoesOn]_vars
  BY <1>3, Invariant, PTL DEF Spec
<1> QED
  BY <1>4, <1>5
=============================================================================
