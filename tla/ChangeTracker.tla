---------------------------- MODULE ChangeTracker ----------------------------
(***************************************************************************)
(* The change tracker of one run (src/src/runtime/change-tracker.ts) and   *)
(* the change runtime that drives it (agent/runtime/change-runtime.ts):    *)
(* tracked writes, checkpoints, and the rollback of a run that failed.     *)
(*                                                                         *)
(* A tracked write is four steps, because writeFile awaits between looking *)
(* up the tracked file, reading the old content, writing the new one and   *)
(* recording both.  The run awaits one write at a time, but a write whose  *)
(* tool timed out or was aborted goes on by itself (an abandoned write),   *)
(* and the user may edit the same files at any moment.                     *)
(*                                                                         *)
(* Contents stand for their hashes: SHA-256 is taken to be injective.      *)
(***************************************************************************)
EXTENDS Naturals, FiniteSets

CONSTANTS
  Paths,         \* workspace files
  Contents,      \* contents a file may have
  Absent,        \* the file does not exist; beforeContent undefined
  Writers,       \* tool executions that may be inside writeFile
  None,          \* no writer, no path, no tracked entry, no edit
  MaxWrites,     \* bound: tracked writes begun by the run
  MaxEdits,      \* bound: edits by the user
  MayAbandon     \* whether a write can be abandoned

ASSUME DistinctAssumption ==
  /\ Absent \notin Contents
  /\ None \notin Writers \cup Paths \cup Contents \cup {Absent}
  /\ MaxWrites \in Nat
  /\ MaxEdits \in Nat
  /\ MayAbandon \in BOOLEAN

State == Contents \cup {Absent}
Entry == [before: State, after: Contents]

Job == [path: Paths, content: Contents, before: State]

ASSUME NoneAssumption == None \notin Entry \cup Job

VARIABLES
  files,      \* the Map of tracked files
  dirty,
  disk,       \* the workspace
  step,       \* where each writer is in writeFile
  job,        \* its path and content, and the old content it determined
  live,       \* the writer the run awaits
  ctl,        \* the run: "tools", "saving", "failed", "restoring", "finished"
  snapshot,   \* the change set a checkpoint or a rollback works on
  pending,    \* files the rollback has still to look at
  restoring,  \* the file whose content it found unchanged and now restores
  conflicts,
  saved,      \* the last change set the checkpoint store holds
  writes,     \* writes begun
  edits,      \* edits made
  (* history, read by properties only *)
  original,   \* content of each file before the run first changed it
  touched,    \* files the run has changed on disk
  edited,     \* files the user has changed since the run started
  raced,      \* files edited between the rollback's check and its write
  lastEdit,   \* a user edit nothing of the run has overwritten since
  damaged,    \* files a failing write truncated, or a failing restore left
  abandonedOnce, \* some write was abandoned
  lateMark    \* a write was recorded while a checkpoint was being saved

trackerVars == <<files, dirty>>
writerVars  == <<step, job, live, writes>>
runVars     == <<ctl, snapshot, pending, restoring, conflicts, saved>>
history     == <<original, touched, edited, raced, lastEdit, damaged, abandonedOnce, lateMark>>
vars == <<trackerVars, disk, writerVars, runVars, edits, history>>

TrackedMap == [Paths -> Entry \cup {None}]
NothingTracked == [p \in Paths |-> None]
TrackedIn(map) == {p \in Paths : map[p] # None}

TypeOK ==
  /\ files \in TrackedMap
  /\ dirty \in BOOLEAN
  /\ disk \in [Paths -> State]
  /\ step \in [Writers -> {"idle", "read", "write", "record"}]
  /\ job \in [Writers -> Job \cup {None}]
  /\ live \in Writers \cup {None}
  /\ ctl \in {"tools", "saving", "failed", "restoring", "finished"}
  /\ snapshot \in TrackedMap
  /\ pending \subseteq Paths
  /\ restoring \in Paths \cup {None}
  /\ conflicts \subseteq Paths
  /\ saved \in TrackedMap
  /\ writes \in 0..MaxWrites
  /\ edits \in 0..MaxEdits
  /\ original \in [Paths -> State]
  /\ touched \subseteq Paths
  /\ edited \subseteq Paths
  /\ raced \subseteq Paths
  /\ lastEdit \in [Paths -> State \cup {None}]
  /\ damaged \subseteq Paths
  /\ abandonedOnce \in BOOLEAN
  /\ lateMark \in BOOLEAN

Init ==
  /\ files = NothingTracked
  /\ dirty = FALSE
  /\ disk \in [Paths -> State]
  /\ step = [w \in Writers |-> "idle"]
  /\ job = [w \in Writers |-> None]
  /\ live = None
  /\ ctl = "tools"
  /\ snapshot = NothingTracked
  /\ pending = {}
  /\ restoring = None
  /\ conflicts = {}
  /\ saved = NothingTracked
  /\ writes = 0
  /\ edits = 0
  /\ original = disk
  /\ touched = {}
  /\ edited = {}
  /\ raced = {}
  /\ lastEdit = [p \in Paths |-> None]
  /\ damaged = {}
  /\ abandonedOnce = FALSE
  /\ lateMark = FALSE

-----------------------------------------------------------------------------
(* writeFile, from one await to the next.                                  *)

OldContent(p) == IF files[p] = None THEN None ELSE files[p].before

MustRead_Always(p) == TRUE

MustRead_IfCreated(p) == OldContent(p) = Absent

(* existing?.beforeContent ?? ...: a tracked file that the run created has *)
(* no old content to reuse, so its current content is read.                *)
MustRead(p) == OldContent(p) \in {None, Absent}

BeginWrite(w, p, c) ==
  /\ ctl = "tools"
  /\ live = None
  /\ step[w] = "idle"
  /\ writes < MaxWrites
  /\ writes' = writes + 1
  /\ live' = w
  /\ IF MustRead(p)
     THEN /\ step' = [step EXCEPT ![w] = "read"]
          /\ job' = [job EXCEPT ![w] = [path |-> p, content |-> c, before |-> Absent]]
     ELSE /\ step' = [step EXCEPT ![w] = "write"]
          /\ job' = [job EXCEPT ![w] = [path |-> p, content |-> c, before |-> OldContent(p)]]
  /\ UNCHANGED <<trackerVars, disk, runVars, edits, history>>

ReadOld(w) ==
  /\ step[w] = "read"
  /\ step' = [step EXCEPT ![w] = "write"]
  /\ job' = [job EXCEPT ![w].before = disk[job[w].path]]
  /\ UNCHANGED <<trackerVars, disk, live, writes, runVars, edits, history>>

(* The new content reaches the disk.                                       *)
WriteDisk(w) ==
  LET p == job[w].path IN
  /\ step[w] = "write"
  /\ step' = [step EXCEPT ![w] = "record"]
  /\ disk' = [disk EXCEPT ![p] = job[w].content]
  /\ original' = IF p \in touched THEN original ELSE [original EXCEPT ![p] = disk[p]]
  /\ touched' = touched \cup {p}
  /\ lastEdit' = [lastEdit EXCEPT ![p] = None]
  /\ UNCHANGED <<trackerVars, job, live, writes, runVars, edits, edited, raced, damaged,
                 abandonedOnce, lateMark>>

(* files.set and dirty = true; the tool gets its result.                   *)
RecordedDirty_KeepsFlag == dirty

RecordedDirty == TRUE

Recorded_KeepsAfter(j) ==
  [before |-> j.before,
   after |-> IF files[j.path] = None THEN j.content ELSE files[j.path].after]

Recorded(j) == [before |-> j.before, after |-> j.content]

RecordWrite(w) ==
  LET j == job[w] IN
  /\ step[w] = "record"
  /\ step' = [step EXCEPT ![w] = "idle"]
  /\ files' = [files EXCEPT ![j.path] = Recorded(j)]
  /\ dirty' = RecordedDirty
  /\ live' = IF live = w THEN None ELSE live
  /\ lateMark' = (lateMark \/ ctl = "saving")
  /\ UNCHANGED <<disk, job, writes, runVars, edits, original, touched, edited, raced,
                 lastEdit, damaged, abandonedOnce>>

(* The read, the mkdir or the write throws.  A write that had already      *)
(* truncated the file leaves some other content behind, untracked.         *)
WriteFails(w) ==
  LET p == job[w].path IN
  /\ step[w] \in {"read", "write"}
  /\ step' = [step EXCEPT ![w] = "idle"]
  /\ live' = IF live = w THEN None ELSE live
  /\ \/ UNCHANGED <<disk, damaged, lastEdit>>
     \/ /\ step[w] = "write"
        /\ \E left \in Contents : disk' = [disk EXCEPT ![p] = left]
        /\ damaged' = damaged \cup {p}
        /\ lastEdit' = [lastEdit EXCEPT ![p] = None]
  /\ UNCHANGED <<trackerVars, job, writes, runVars, edits, original, touched, edited,
                 raced, abandonedOnce, lateMark>>

(* The tool runner stops waiting: timeout or abort.                        *)
Abandon ==
  /\ MayAbandon
  /\ live # None
  /\ live' = None
  /\ abandonedOnce' = TRUE
  /\ UNCHANGED <<trackerVars, disk, step, job, writes, runVars, edits, original, touched,
                 edited, raced, lastEdit, damaged, lateMark>>

-----------------------------------------------------------------------------
(* checkpoint                                                              *)

StartCheckpoint ==
  /\ ctl = "tools"
  /\ live = None
  /\ dirty
  /\ TrackedIn(files) # {}
  /\ ctl' = "saving"
  /\ snapshot' = files
  /\ UNCHANGED <<trackerVars, disk, writerVars, pending, restoring, conflicts, saved,
                 edits, history>>

SaveReturns ==
  /\ ctl = "saving"
  /\ ctl' = "tools"
  /\ saved' = snapshot
  /\ dirty' = FALSE
  /\ UNCHANGED <<files, disk, writerVars, snapshot, pending, restoring, conflicts, edits,
                 history>>

(* checkpointStore.save throws: the run fails, the files stay dirty.       *)
SaveThrows ==
  /\ ctl = "saving"
  /\ ctl' = "failed"
  /\ UNCHANGED <<trackerVars, disk, writerVars, snapshot, pending, restoring, conflicts, saved,
                 edits, history>>

-----------------------------------------------------------------------------
(* rollbackAll                                                             *)

(* The run has failed; its cumulative change set is rolled back, file by   *)
(* file.  The code goes through the files in reverse order of their first  *)
(* write; since each file occurs once, any order is allowed here.          *)
StartRollback ==
  /\ ctl \in {"tools", "failed"}
  /\ live = None
  /\ snapshot' = files
  /\ pending' = TrackedIn(files)
  /\ ctl' = IF TrackedIn(files) = {} THEN "finished" ELSE "restoring"
  /\ UNCHANGED <<trackerVars, disk, writerVars, restoring, conflicts, saved, edits, history>>

Unchanged_Unchecked(p) == TRUE

Unchanged(p) == disk[p] = snapshot[p].after

(* rollbackFile reads the file and compares its hash with afterHash.       *)
RestoreCheck(p) ==
  /\ ctl = "restoring"
  /\ restoring = None
  /\ p \in pending
  /\ pending' = pending \ {p}
  /\ \/ Unchanged(p) /\ restoring' = p /\ UNCHANGED conflicts
     \/ ~Unchanged(p) /\ conflicts' = conflicts \cup {p} /\ UNCHANGED restoring
  /\ UNCHANGED <<trackerVars, disk, writerVars, ctl, snapshot, saved, edits, history>>

(* ... and writes beforeContent, or removes a file that had none.          *)
RestoreWrite ==
  LET p == restoring IN
  /\ p # None
  /\ restoring' = None
  /\ disk' = [disk EXCEPT ![p] = snapshot[p].before]
  /\ UNCHANGED <<trackerVars, writerVars, ctl, snapshot, pending, conflicts, saved, edits,
                 history>>

(* The read, rm, mkdir or write throws: reported as a conflict.            *)
RestoreFails ==
  /\ restoring # None
  /\ restoring' = None
  /\ conflicts' = conflicts \cup {restoring}
  /\ damaged' = damaged \cup {restoring}
  /\ UNCHANGED <<trackerVars, disk, writerVars, ctl, snapshot, pending, saved, edits,
                 original, touched, edited, raced, lastEdit, abandonedOnce, lateMark>>

FinishRollback ==
  /\ ctl = "restoring"
  /\ pending = {}
  /\ restoring = None
  /\ ctl' = "finished"
  /\ \/ conflicts = {} /\ files' = NothingTracked /\ dirty' = FALSE
     \/ conflicts # {} /\ UNCHANGED trackerVars
  /\ UNCHANGED <<disk, writerVars, snapshot, pending, restoring, conflicts, saved, edits,
                 history>>

-----------------------------------------------------------------------------
(* The user edits, creates or deletes a workspace file.                    *)
UserEdit(p, c) ==
  /\ edits < MaxEdits
  /\ edits' = edits + 1
  /\ disk[p] # c
  /\ disk' = [disk EXCEPT ![p] = c]
  /\ edited' = edited \cup {p}
  /\ raced' = IF restoring = p THEN raced \cup {p} ELSE raced
  /\ lastEdit' = [lastEdit EXCEPT ![p] = c]
  /\ UNCHANGED <<trackerVars, writerVars, runVars, original, touched, damaged,
                 abandonedOnce, lateMark>>

Finished ==
  /\ ctl = "finished"
  /\ UNCHANGED vars

Next ==
  \/ \E w \in Writers :
       \/ \E p \in Paths, c \in Contents : BeginWrite(w, p, c)
       \/ ReadOld(w) \/ WriteDisk(w) \/ RecordWrite(w) \/ WriteFails(w)
  \/ Abandon
  \/ StartCheckpoint \/ SaveReturns \/ SaveThrows
  \/ StartRollback \/ (\E p \in Paths : RestoreCheck(p))
  \/ RestoreWrite \/ RestoreFails \/ FinishRollback
  \/ \E p \in Paths, c \in State : UserEdit(p, c)
  \/ Finished

Spec == Init /\ [][Next]_vars

-----------------------------------------------------------------------------
(* Properties.                                                             *)

(* The files whose content nobody but the writes of the run has changed.   *)
OwnFiles == touched \ (edited \cup damaged)

(* However often a run has written a file, with whatever checkpoints and   *)
(* failed saves in between, its rollback gives back the content the file   *)
(* had before the run; a file the tracker knows as created is gone.  The   *)
(* exception is a file the run created and wrote again (RestoresFirstState *)
(* below).  (rollbackAll, and the ?? in writeFile)                         *)
RestoresFiles ==
  ctl = "finished" /\ ~abandonedOnce =>
    \A p \in OwnFiles :
      original[p] # Absent \/ snapshot[p].before = Absent => disk[p] = original[p]

(* Rollback blames no file that only the run has written: a conflict means *)
(* an edit, or a failed read or write.                                     *)
NoFalseConflict ==
  conflicts # {} /\ ~abandonedOnce => conflicts \subseteq edited \cup damaged

(* A user edit that is on disk when rollback looks at the file survives    *)
(* it, unless it is the very content the run wrote.                        *)
UserWorkSurvives ==
  ctl = "finished" =>
    \A p \in TrackedIn(snapshot) \ raced :
      lastEdit[p] \notin {None, snapshot[p].after} => disk[p] = lastEdit[p]

(* While the run works, a tracker that is not dirty has nothing a          *)
(* checkpoint has not saved; a write recorded during a save is the         *)
(* exception, since checkpoint clears the flag after the save.             *)
CleanIsSaved ==
  ctl = "tools" /\ ~dirty /\ ~lateMark => saved = files

-----------------------------------------------------------------------------
(* What comments and tests of the repository claim, and the code does not  *)
(* do in every case.                                                       *)

(* "Restores every file to its state before the first write in this run."  *)
(* (src/src/runtime/change-tracker.ts:89)                                  *)
RestoresFirstState ==
  ctl = "finished" /\ ~abandonedOnce => \A p \in OwnFiles : disk[p] = original[p]
=============================================================================
