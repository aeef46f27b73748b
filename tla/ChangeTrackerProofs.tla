------------------------- MODULE ChangeTrackerProofs -------------------------
(***************************************************************************)
(* Proofs about ChangeTracker, for any files, contents and writers, and    *)
(* any number of writes and edits.  The inductive invariant IInv says what *)
(* the tracker knows of a file at each point of a write, of a checkpoint   *)
(* and of a rollback.                                                      *)
(***************************************************************************)
EXTENDS ChangeTracker, TLAPS

RollingBack == ctl \in {"restoring", "finished"}

(* Unless a write was abandoned, the one the run awaits is the only one.   *)
WritersInv ==
  /\ \A w \in Writers : step[w] # "idle" => job[w] \in Job
  /\ live # None => step[live] # "idle" /\ ctl = "tools"
  /\ ~abandonedOnce => \A w \in Writers : step[w] # "idle" => live = w

RollbackInv ==
  /\ ctl # "restoring" => restoring = None
  /\ restoring # None => restoring \in TrackedIn(snapshot) \ pending
  /\ pending \subseteq TrackedIn(snapshot)
  /\ ctl # "restoring" => pending = {}
  /\ ~RollingBack => conflicts = {}

(* What is remembered as the old content of a file is what it had before   *)
(* the run, unless the run created the file.                               *)
IsOld(content, p) == content = original[p] \/ original[p] = Absent

(* A write of the run to the file p is on disk and not yet recorded.       *)
Recording(p) == \E w \in Writers : step[w] = "record" /\ job[w].path = p

(* Along the write of w to p.                                              *)
WriteInv(w, p) ==
  /\ step[w] = "read" => MustRead(p)
  /\ step[w] \in {"write", "record"} => IsOld(job[w].before, p)
  /\ step[w] = "record" => p \in touched /\ disk[p] = job[w].content

(* The tracker knows the files that only the run has changed.              *)
TrackedInv(p) ==
  /\ files[p] # None => p \in touched /\ IsOld(files[p].before, p)
  /\ p \in touched /\ ~Recording(p) => files[p] # None /\ files[p].after = disk[p]
  /\ \A w \in Writers : step[w] # "idle" /\ job[w].path = p => WriteInv(w, p)

(* A rollback has restored the files it is past, and no others.            *)
RestoredInv(p) ==
  /\ p \in touched <=> snapshot[p] # None
  /\ snapshot[p] # None =>
       /\ IsOld(snapshot[p].before, p)
       /\ disk[p] = IF p \in pending \/ restoring = p
                    THEN snapshot[p].after ELSE snapshot[p].before
  /\ p \notin conflicts

FileInv(p) ==
  /\ p \notin touched => disk[p] = original[p]
  /\ ~RollingBack => TrackedInv(p)
  /\ RollingBack => RestoredInv(p)

OwnInv == ~abandonedOnce => \A p \in Paths \ (edited \cup damaged) : FileInv(p)

(* An edit is on disk until the run overwrites it.  A rollback does so     *)
(* only if the edit made what the run had written.                         *)
EditInv ==
  \A p \in Paths \ raced :
    lastEdit[p] # None =>
      \/ disk[p] = lastEdit[p] /\ (restoring = p => lastEdit[p] = snapshot[p].after)
      \/ RollingBack /\ snapshot[p] # None /\ lastEdit[p] = snapshot[p].after

CleanInv ==
  ctl \in {"tools", "saving"} /\ ~lateMark =>
    /\ ~dirty => saved = files
    /\ ctl = "saving" => snapshot = files

IInv == TypeOK /\ WritersInv /\ RollbackInv /\ OwnInv /\ EditInv /\ CleanInv
-----------------------------------------------------------------------------
LEMMA InitInv == Init => IInv
<1> SUFFICES ASSUME Init PROVE IInv
  OBVIOUS
<1>1. TypeOK
  <2>1. /\ NothingTracked \in TrackedMap
        /\ files = NothingTracked /\ snapshot = NothingTracked /\ saved = NothingTracked
    BY DEF Init, TrackedMap, NothingTracked
  <2>2. /\ step \in [Writers -> {"idle"}]
        /\ job \in [Writers -> {None}]
        /\ lastEdit \in [Paths -> {None}]
        /\ disk \in [Paths -> State] /\ original = disk
        /\ live = None /\ restoring = None /\ ctl = "tools"
    BY DEF Init
  <2>3. /\ dirty \in BOOLEAN /\ abandonedOnce \in BOOLEAN /\ lateMark \in BOOLEAN
    BY DEF Init
  <2>4. /\ {pending, conflicts, touched, edited, raced, damaged} \subseteq {{}}
        /\ writes \in 0..MaxWrites /\ edits \in 0..MaxEdits
    BY DistinctAssumption DEF Init
  <2>5. QED
    BY <2>1, <2>2, <2>3, <2>4 DEF TypeOK
<1>2. WritersInv /\ RollbackInv /\ CleanInv
  BY DEF Init, WritersInv, RollbackInv, CleanInv, RollingBack, TrackedIn, NothingTracked
<1>3. OwnInv /\ EditInv
  BY DEF Init, OwnInv, FileInv, TrackedInv, RestoredInv, EditInv, RollingBack, NothingTracked
<1>4. QED
  BY <1>1, <1>2, <1>3 DEF IInv

-----------------------------------------------------------------------------
(* The steps of a write.                                                   *)

LEMMA BeginKeeps ==
  ASSUME IInv, NEW w \in Writers, NEW p \in Paths, NEW c \in Contents, BeginWrite(w, p, c)
  PROVE  IInv'
<1> USE DEF IInv
<1>1. /\ files[p] # None => files[p] \in Entry
      /\ OldContent(p) \in State \cup {None}
  BY NoneAssumption DEF TypeOK, TrackedMap, OldContent, Entry
<1>2. PICK b \in State :
        /\ job' = [job EXCEPT ![w] = [path |-> p, content |-> c, before |-> b]]
        /\ \/ MustRead(p) /\ step' = [step EXCEPT ![w] = "read"]
           \/ ~MustRead(p) /\ step' = [step EXCEPT ![w] = "write"] /\ b = OldContent(p)
  BY <1>1 DEF BeginWrite, MustRead, State
<1>3. [path |-> p, content |-> c, before |-> b] \in Job
  BY DEF Job
<1>4. TypeOK'
  <2>1. writes' \in 0..MaxWrites
    BY DistinctAssumption DEF BeginWrite, TypeOK
  <2>2. live' \in Writers /\ job' \in [Writers -> Job \cup {None}]
    BY <1>2, <1>3 DEF BeginWrite, TypeOK
  <2>3. step' \in [Writers -> {"idle", "read", "write", "record"}]
    BY <1>2 DEF TypeOK
  <2>4. UNCHANGED <<trackerVars, disk, runVars, edits, history>>
    BY DEF BeginWrite
  <2>5. QED
    BY <2>1, <2>2, <2>3, <2>4 DEF TypeOK, trackerVars, runVars, history
<1>5. WritersInv'
  BY <1>2, <1>3, DistinctAssumption DEF BeginWrite, TypeOK, WritersInv, trackerVars, runVars,
       history
<1>6. RollbackInv'
  BY DEF BeginWrite, RollbackInv, RollingBack, TrackedIn, runVars
<1>7. OwnInv'
  BY <1>1, <1>2, DistinctAssumption DEF BeginWrite, TypeOK, WritersInv, OwnInv, FileInv,
       TrackedInv, WriteInv, IsOld, Recording, RollingBack, OldContent, MustRead, trackerVars,
       runVars, history
<1>8. EditInv' /\ CleanInv'
  BY DEF BeginWrite, EditInv, CleanInv, RollingBack, trackerVars, runVars, history
<1>9. QED
  BY <1>4, <1>5, <1>6, <1>7, <1>8

LEMMA ReadKeeps ==
  ASSUME IInv, NEW w \in Writers, ReadOld(w)
  PROVE  IInv'
<1> USE DEF IInv
<1>1. job[w] \in Job /\ disk[job[w].path] \in State
  BY DEF ReadOld, WritersInv, TypeOK, Job
<1>2. /\ job'[w] = [path |-> job[w].path, content |-> job[w].content,
                    before |-> disk[job[w].path]]
      /\ \A v \in Writers \ {w} : job'[v] = job[v]
      /\ job' \in [Writers -> Job \cup {None}]
  BY <1>1 DEF ReadOld, TypeOK, Job
<1>3. TypeOK'
  BY <1>2 DEF ReadOld, TypeOK, trackerVars, runVars, history
<1>4. /\ step' = [step EXCEPT ![w] = "write"] /\ step[w] = "read"
      /\ UNCHANGED <<trackerVars, disk, live, writes, runVars, edits, history>>
  BY DEF ReadOld
<1>5. WritersInv'
  <2>1. job'[w] \in Job /\ \A v \in Writers \ {w} : job'[v] = job[v] /\ step'[v] = step[v]
    BY <1>1, <1>2, <1>4 DEF TypeOK, Job
  <2>2. step'[w] = "write" /\ UNCHANGED <<live, ctl, abandonedOnce>>
    BY <1>4 DEF TypeOK, runVars, history
  <2>3. QED
    BY <1>4, <2>1, <2>2 DEF WritersInv, TypeOK
<1>6. RollbackInv'
  BY <1>4 DEF RollbackInv, RollingBack, TrackedIn, runVars
<1>7. OwnInv'
  <2> SUFFICES ASSUME ~abandonedOnce, NEW p \in Paths \ (edited \cup damaged)
               PROVE  FileInv(p)'
    BY <1>4 DEF OwnInv, history
  <2>1. FileInv(p) /\ Recording(p)' = Recording(p)
    BY <1>1, <1>2, <1>4 DEF OwnInv, Recording, TypeOK
  <2>2. job[w].path = p /\ ~RollingBack => IsOld(disk[p], p)
    <3> SUFFICES ASSUME job[w].path = p, ~RollingBack PROVE IsOld(disk[p], p)
      OBVIOUS
    <3>1. MustRead(p) /\ ~Recording(p)
      BY <1>4, <2>1 DEF FileInv, TrackedInv, WriteInv, Recording, WritersInv
    <3>2. files[p] = None \/ files[p].before = Absent
      BY <3>1, DistinctAssumption DEF MustRead, OldContent, TypeOK, TrackedMap, Entry, State
    <3>3. QED
      BY <2>1, <3>1, <3>2 DEF FileInv, TrackedInv, IsOld
  <2>3. RollingBack' = RollingBack
    BY <1>4 DEF RollingBack, runVars
  <2>4. TrackedInv(p) /\ ~RollingBack => TrackedInv(p)'
    <3> SUFFICES ASSUME TrackedInv(p), ~RollingBack PROVE TrackedInv(p)'
      OBVIOUS
    <3>1. /\ files[p] # None => p \in touched /\ IsOld(files[p].before, p)
          /\ p \in touched /\ ~Recording(p) => files[p] # None /\ files[p].after = disk[p]
      BY DEF TrackedInv
    <3>2. ASSUME NEW v \in Writers \ {w}, step'[v] # "idle", job'[v].path = p
          PROVE  WriteInv(v, p)'
      <4>1. step'[v] = step[v] /\ job'[v] = job[v] /\ WriteInv(v, p)
        BY <1>2, <1>4, <3>2 DEF TypeOK, TrackedInv
      <4>2. QED
        BY <1>4, <4>1 DEF WriteInv, IsOld, MustRead, OldContent, trackerVars, history
    <3>3. ASSUME job'[w].path = p PROVE WriteInv(w, p)'
      <4>1. step'[w] = "write" /\ job'[w].before = disk[p] /\ IsOld(disk[p], p)
        BY <1>1, <1>2, <1>4, <2>2, <3>3 DEF TypeOK, Job
      <4>2. QED
        BY <1>4, <4>1 DEF WriteInv, IsOld, history
    <3>4. QED
      BY <1>4, <2>1, <3>1, <3>2, <3>3 DEF TrackedInv, IsOld, trackerVars, history
  <2>5. RestoredInv(p) => RestoredInv(p)'
    BY <1>4 DEF RestoredInv, IsOld, runVars, history
  <2>6. QED
    BY <1>4, <2>1, <2>3, <2>4, <2>5 DEF FileInv, history
<1>8. EditInv' /\ CleanInv'
  BY <1>4 DEF EditInv, CleanInv, RollingBack, trackerVars, runVars, history
<1>9. QED
  BY <1>3, <1>5, <1>6, <1>7, <1>8

LEMMA WriteKeeps ==
  ASSUME IInv, NEW w \in Writers, WriteDisk(w)
  PROVE  IInv'
<1> USE DEF IInv
<1>1. job[w] \in Job
  BY DEF WriteDisk, WritersInv
<1>2. TypeOK' /\ WritersInv' /\ RollbackInv' /\ CleanInv'
  BY <1>1 DEF WriteDisk, TypeOK, WritersInv, RollbackInv, CleanInv, RollingBack, TrackedIn,
       trackerVars, runVars, Job, State
<1>3. OwnInv'
  <2> SUFFICES ASSUME ~abandonedOnce, NEW p \in Paths \ (edited \cup damaged)
               PROVE  FileInv(p)'
    BY DEF WriteDisk, OwnInv
  <2>1. /\ FileInv(p) /\ live = w /\ ~RollingBack /\ ~RollingBack'
        /\ \A v \in Writers \ {w} : step[v] = "idle"
    BY DistinctAssumption DEF WriteDisk, WritersInv, OwnInv, RollingBack, runVars, TypeOK
  <2>2. CASE job[w].path # p
    BY <1>1, <2>1, <2>2 DEF WriteDisk, TypeOK, FileInv, TrackedInv, WriteInv, IsOld, Recording,
         MustRead, OldContent, trackerVars, Job
  <2>3. CASE job[w].path = p
    <3>1. /\ disk'[p] = job[w].content /\ p \in touched' /\ original'[p] = original[p]
          /\ step'[w] = "record" /\ \A v \in Writers \ {w} : step'[v] = "idle"
          /\ UNCHANGED <<files, job>>
      BY <2>1, <2>3 DEF WriteDisk, TypeOK, FileInv, trackerVars
    <3>2. IsOld(job[w].before, p) /\ (files[p] # None => IsOld(files[p].before, p))
      BY <2>1, <2>3 DEF WriteDisk, FileInv, TrackedInv, WriteInv
    <3>3. QED
      BY <2>1, <2>3, <3>1, <3>2 DEF FileInv, TrackedInv, WriteInv, IsOld, Recording
  <2>4. QED
    BY <2>2, <2>3
<1>4. EditInv'
  BY <1>1 DEF WriteDisk, TypeOK, EditInv, RollingBack, trackerVars, runVars, Job
<1>5. QED
  BY <1>2, <1>3, <1>4

LEMMA RecordKeeps ==
  ASSUME IInv, NEW w \in Writers, RecordWrite(w)
  PROVE  IInv'
<1> USE DEF IInv
<1>1. job[w] \in Job /\ Recorded(job[w]) \in Entry
  BY DEF RecordWrite, WritersInv, Recorded, Job, Entry
<1>2. TypeOK' /\ WritersInv' /\ RollbackInv' /\ CleanInv'
  BY <1>1 DEF RecordWrite, RecordedDirty, TypeOK, TrackedMap, WritersInv, RollbackInv, CleanInv,
       RollingBack, TrackedIn, runVars
<1>3. OwnInv'
  BY <1>1, NoneAssumption DEF RecordWrite, Recorded, TypeOK, TrackedMap, WritersInv, OwnInv,
       FileInv, TrackedInv, RestoredInv, WriteInv, IsOld, Recording, RollingBack, OldContent,
       MustRead, runVars, Job
<1>4. EditInv'
  BY DEF RecordWrite, EditInv, RollingBack, runVars
<1>5. QED
  BY <1>2, <1>3, <1>4

LEMMA WriteFailsKeeps ==
  ASSUME IInv, NEW w \in Writers, WriteFails(w)
  PROVE  IInv'
<1> USE DEF IInv
<1>1. job[w] \in Job
  BY DEF WriteFails, WritersInv
<1>2. TypeOK' /\ WritersInv' /\ RollbackInv' /\ CleanInv'
  BY <1>1 DEF WriteFails, TypeOK, WritersInv, RollbackInv, CleanInv, RollingBack, TrackedIn,
       trackerVars, runVars, Job, State
<1>3. OwnInv'
  BY <1>1 DEF WriteFails, TypeOK, WritersInv, OwnInv, FileInv, TrackedInv, RestoredInv, WriteInv,
       IsOld, Recording, RollingBack, OldContent, MustRead, trackerVars, runVars, Job
<1>4. EditInv'
  BY <1>1 DEF WriteFails, TypeOK, EditInv, RollingBack, trackerVars, runVars, Job
<1>5. QED
  BY <1>2, <1>3, <1>4

LEMMA AbandonKeeps == ASSUME IInv, Abandon PROVE IInv'
BY DEF IInv, Abandon, TypeOK, WritersInv, RollbackInv, OwnInv, FileInv, EditInv, CleanInv,
     RollingBack, TrackedIn, trackerVars, runVars

-----------------------------------------------------------------------------
(* The steps of the run.                                                   *)

LEMMA CheckpointKeeps ==
  ASSUME IInv, StartCheckpoint \/ SaveReturns \/ SaveThrows
  PROVE  IInv'
<1> USE DEF IInv
<1>1. TypeOK' /\ WritersInv' /\ RollbackInv'
  BY DEF StartCheckpoint, SaveReturns, SaveThrows, TypeOK, WritersInv, RollbackInv, RollingBack,
       TrackedIn, trackerVars, writerVars, history
<1>2. OwnInv'
  BY DEF StartCheckpoint, SaveReturns, SaveThrows, OwnInv, FileInv, TrackedInv, WriteInv, IsOld,
       Recording, RollingBack, OldContent, MustRead, trackerVars, writerVars, history
<1>3. EditInv' /\ CleanInv'
  BY DistinctAssumption DEF StartCheckpoint, SaveReturns, SaveThrows, RollbackInv, EditInv,
       CleanInv, RollingBack, trackerVars, writerVars, history
<1>4. QED
  BY <1>1, <1>2, <1>3

LEMMA StartRollbackKeeps == ASSUME IInv, StartRollback PROVE IInv'
<1> USE DEF IInv
<1>1. TypeOK' /\ WritersInv' /\ RollbackInv' /\ CleanInv'
  BY DEF StartRollback, TypeOK, TrackedMap, WritersInv, RollbackInv, CleanInv, RollingBack,
       TrackedIn, trackerVars, writerVars, history
<1>2. OwnInv'
  BY DistinctAssumption DEF StartRollback, TypeOK, WritersInv, RollbackInv, OwnInv, FileInv,
       TrackedInv, RestoredInv, IsOld, Recording, RollingBack, TrackedIn, trackerVars,
       writerVars, history
<1>3. EditInv'
  BY DistinctAssumption DEF StartRollback, RollbackInv, EditInv, RollingBack, trackerVars,
       writerVars, history
<1>4. QED
  BY <1>1, <1>2, <1>3

LEMMA RestoreKeeps ==
  ASSUME IInv, (\E p \in Paths : RestoreCheck(p)) \/ RestoreWrite \/ RestoreFails
  PROVE  IInv'
<1> USE DEF IInv
<1>1. ASSUME NEW p \in Paths, RestoreCheck(p) PROVE IInv'
  <2>1. TypeOK' /\ WritersInv' /\ RollbackInv' /\ CleanInv'
    BY <1>1 DEF RestoreCheck, TypeOK, WritersInv, RollbackInv, CleanInv, RollingBack, TrackedIn,
         trackerVars, writerVars, history
  <2>2. OwnInv'
    BY <1>1, DistinctAssumption DEF RestoreCheck, Unchanged, TypeOK, RollbackInv, OwnInv,
         FileInv, RestoredInv, IsOld, RollingBack, TrackedIn, trackerVars, writerVars, history
  <2>3. EditInv'
    BY <1>1 DEF RestoreCheck, Unchanged, EditInv, RollingBack, trackerVars, writerVars, history
  <2>4. QED
    BY <2>1, <2>2, <2>3
<1>2. CASE RestoreWrite
  <2>1. restoring \in Paths /\ snapshot[restoring] \in Entry
    BY <1>2, NoneAssumption DEF RestoreWrite, RollbackInv, TrackedIn, TypeOK, TrackedMap
  <2>2. TypeOK' /\ WritersInv' /\ RollbackInv' /\ CleanInv'
    BY <1>2, <2>1 DEF RestoreWrite, TypeOK, WritersInv, RollbackInv, CleanInv, RollingBack,
         TrackedIn, trackerVars, writerVars, history, Entry
  <2>3. OwnInv'
    <3> SUFFICES ASSUME ~abandonedOnce, NEW p \in Paths \ (edited \cup damaged)
                 PROVE  FileInv(p)'
      BY <1>2 DEF RestoreWrite, OwnInv, history
    <3>1. RestoredInv(p) /\ RollingBack' /\ (p \notin touched => disk[p] = original[p])
      BY <1>2, <2>1, DistinctAssumption DEF RestoreWrite, OwnInv, FileInv, RollbackInv,
           RollingBack
    <3>2. restoring' = None /\ disk' = [disk EXCEPT ![restoring] = snapshot[restoring].before]
      BY <1>2 DEF RestoreWrite
    <3>3. UNCHANGED <<touched, original, snapshot, pending, conflicts>>
      BY <1>2 DEF RestoreWrite, history
    <3>4. restoring \notin pending /\ snapshot[restoring] # None /\ p # None
      BY <1>2, DistinctAssumption DEF RestoreWrite, RollbackInv, TrackedIn
    <3>5. p \notin touched => disk'[p] = disk[p]
      BY <3>1, <3>2, <3>4 DEF RestoredInv, TypeOK
    <3>6. snapshot[p] # None /\ p \notin pending => disk'[p] = snapshot[p].before
      BY <3>1, <3>2 DEF RestoredInv, TypeOK
    <3>7. snapshot[p] # None /\ p \in pending => disk'[p] = snapshot[p].after
      BY <3>1, <3>2, <3>4 DEF RestoredInv, TypeOK
    <3>8. RestoredInv(p)'
      BY <3>1, <3>2, <3>3, <3>4, <3>6, <3>7 DEF RestoredInv, IsOld
    <3>9. QED
      BY <3>1, <3>3, <3>5, <3>8 DEF FileInv, RollingBack
  <2>4. EditInv'
    BY <1>2, <2>1, DistinctAssumption, NoneAssumption DEF RestoreWrite, TypeOK, RollbackInv,
         EditInv, RollingBack, TrackedIn, trackerVars, writerVars, history
  <2>5. QED
    BY <2>2, <2>3, <2>4
<1>3. CASE RestoreFails
  <2>1. restoring \in Paths
    BY <1>3 DEF RestoreFails, TypeOK
  <2>2. TypeOK' /\ WritersInv' /\ RollbackInv' /\ CleanInv'
    BY <1>3, <2>1 DEF RestoreFails, TypeOK, WritersInv, RollbackInv, CleanInv, RollingBack,
         TrackedIn, trackerVars, writerVars
  <2>3. EditInv'
    BY <1>3, DistinctAssumption DEF RestoreFails, EditInv, RollingBack
  <2>4. OwnInv'
    BY <1>3, <2>1, DistinctAssumption DEF RestoreFails, TypeOK, RollbackInv, OwnInv, FileInv,
         RestoredInv, IsOld, RollingBack, TrackedIn, trackerVars, writerVars
  <2>5. QED
    BY <2>2, <2>4, <2>3
<1>4. QED
  BY <1>1, <1>2, <1>3

LEMMA FinishKeeps == ASSUME IInv, FinishRollback PROVE IInv'
<1> USE DEF IInv
<1>1. TypeOK' /\ WritersInv' /\ RollbackInv' /\ CleanInv'
  BY DEF FinishRollback, TypeOK, TrackedMap, NothingTracked, WritersInv, RollbackInv, CleanInv,
       RollingBack, TrackedIn, trackerVars, writerVars, history
<1>2. OwnInv' /\ EditInv'
  BY DEF FinishRollback, OwnInv, FileInv, RestoredInv, IsOld, EditInv, RollingBack, trackerVars,
       writerVars, history
<1>3. QED
  BY <1>1, <1>2

LEMMA EditKeeps ==
  ASSUME IInv, NEW p \in Paths, NEW c \in State, UserEdit(p, c)
  PROVE  IInv'
<1> USE DEF IInv
<1>1. TypeOK' /\ WritersInv' /\ RollbackInv' /\ CleanInv'
  BY DistinctAssumption DEF UserEdit, TypeOK, WritersInv, RollbackInv, CleanInv, RollingBack,
       TrackedIn, trackerVars, writerVars, runVars
<1>2. OwnInv'
  BY DEF UserEdit, TypeOK, OwnInv, FileInv, TrackedInv, RestoredInv, WriteInv, IsOld, Recording,
       RollingBack, OldContent, MustRead, trackerVars, writerVars, runVars
<1>3. EditInv'
  BY DEF UserEdit, TypeOK, EditInv, RollingBack, trackerVars, writerVars, runVars
<1>4. QED
  BY <1>1, <1>2, <1>3

LEMMA StutterKeeps == ASSUME IInv, UNCHANGED vars PROVE IInv'
BY DEF IInv, vars, trackerVars, writerVars, runVars, history, TypeOK, WritersInv, RollbackInv,
     OwnInv, FileInv, TrackedInv, RestoredInv, WriteInv, IsOld, Recording, EditInv, CleanInv,
     RollingBack, TrackedIn, OldContent, MustRead

LEMMA Invariance == Spec => []IInv
<1>1. IInv /\ [Next]_vars => IInv'
  BY BeginKeeps, ReadKeeps, WriteKeeps, RecordKeeps, WriteFailsKeeps, AbandonKeeps,
     CheckpointKeeps, StartRollbackKeeps, RestoreKeeps, FinishKeeps, EditKeeps, StutterKeeps
     DEF Next, Finished
<1>2. QED
  BY InitInv, <1>1, PTL DEF Spec

-----------------------------------------------------------------------------
(* The variables of the tracker, of its writers and of the run keep their  *)
(* types in every behaviour.                                               *)
THEOREM TypeCorrect == Spec => []TypeOK
<1>1. IInv => TypeOK
  BY DEF IInv
<1>2. QED
  BY Invariance, <1>1, PTL

(* A rollback gives back every file that only the run has changed.         *)
(* (rollbackAll, and the ?? in writeFile)                                  *)
THEOREM RollbackRestores == Spec => []RestoresFiles
<1>1. IInv => RestoresFiles
  BY DistinctAssumption DEF IInv, RestoresFiles, OwnFiles, TypeOK, RollbackInv, OwnInv, FileInv,
       RestoredInv, IsOld, RollingBack, TrackedIn
<1>2. QED
  BY Invariance, <1>1, PTL

(* A rollback blames no file that only the run has written (rollbackFile). *)
THEOREM ConflictsAreReal == Spec => []NoFalseConflict
<1>1. IInv => NoFalseConflict
  BY DEF IInv, NoFalseConflict, TypeOK, RollbackInv, OwnInv, FileInv, RestoredInv, RollingBack
<1>2. QED
  BY Invariance, <1>1, PTL

(* A rollback does not overwrite an edit that it could have seen, although *)
(* abandoned writes go on beside it (rollbackFile).                        *)
THEOREM EditsSurvive == Spec => []UserWorkSurvives
<1>1. IInv => UserWorkSurvives
  BY DEF IInv, UserWorkSurvives, TypeOK, EditInv, TrackedIn
<1>2. QED
  BY Invariance, <1>1, PTL

(* What a tracker that is not dirty holds has been saved (checkpoint).     *)
THEOREM CheckpointsComplete == Spec => []CleanIsSaved
<1>1. IInv => CleanIsSaved
  BY DEF IInv, CleanIsSaved, CleanInv
<1>2. QED
  BY Invariance, <1>1, PTL
=============================================================================
