---------------------------- MODULE AgentRunProofs ----------------------------
(***************************************************************************)
(* Proofs about AgentRun, for every number of iterations, repair attempts, *)
(* tool calls and verification commands.  The inductive invariant IInv is  *)
(* the conjunction of a type invariant and of what links the program       *)
(* counter to the rest of the state; every safety property of AgentRun and *)
(* the refinement of RunContract follow from it.                           *)
(***************************************************************************)
EXTENDS AgentRun, TLAPS

(* Where a counter is about to be decremented it is positive. *)
CountersInv ==
  /\ pc \in {"beforeTool", "tool", "afterTool"} => calls > 0
  /\ pc = "verify" => commandsLeft > 0

(* Nothing of the outcome is decided while the run works. *)
PendingInv ==
  /\ pc \in Working => stopReason \in {"completed", "max_iterations"}
  /\ pc \in Working \cup {"rollback"} => rollback = "not_required"
  /\ pc \in Working => late \subseteq {"working"}
  /\ pc = "rollback" => NeedsRollback(stopReason)

(* What finalizeRun has established on its way. *)
OutcomeInv ==
  /\ pc \in {"save", "afterRun", "done"} => taskStatus = FinalStatus(stopReason)
  /\ terminal = IF pc = "done" THEN <<TerminalKind(stopReason)>> ELSE <<>>
  /\ pc = "done" => ~registered

(* The cause of an abort, and what became of it. *)
AbortInv ==
  /\ aborted <=> abortedDuring # "never"
  /\ pc \in Working => abortedDuring # "finalization"
  /\ abortedDuring = "work" =>
       IF pc \in Working THEN pc # "verify" /\ stage = "agent"
                         ELSE stopReason = "aborted"
  /\ stopReason = "aborted" => abortedDuring \in {"work", "verification"}

(* Changes on disk are tracked until a rollback has undone or reported them. *)
ChangesInv ==
  disk = "changed" /\ "finalizing" \notin late =>
    /\ tracked
    /\ pc \in {"save", "afterRun", "done"} /\ NeedsRollback(stopReason)
         => rollback \in {"partial", "failed"}

(* The round that decides sees all writes but those of abandoned tools. *)
VerifiedInv ==
  /\ pc = "verify" => (unverified => late # {})
  /\ pc \notin Working /\ stopReason = "completed" /\ input.verify
       => verdict = "passed" /\ (unverified => late # {})

IInv == TypeOK /\ CountersInv /\ PendingInv /\ OutcomeInv /\ AbortInv
          /\ ChangesInv /\ VerifiedInv
-----------------------------------------------------------------------------
(* The continuations: LoopOrLeave, LeaveLoop, BeginRound and EndRound each  *)
(* lead to another iteration, to a running verification command, or to the  *)
(* end of the work.                                                         *)

Repeats ==
  /\ CanContinue
  /\ pc' = "build"
  /\ iteration' = iteration + 1
  /\ stage' \in {"agent", "repair"}
  /\ repairAttempt' \in 0..MaxRepairAttempts
  /\ taskStatus' \in TaskStatus
  /\ stopReason' = stopReason

Verifies ==
  /\ stage = "repair" \/ ~aborted
  /\ pc' = "verify"
  /\ commandsLeft' > 0
  /\ taskStatus' \in TaskStatus
  /\ stopReason' \in {"completed", "max_iterations"}
  /\ unverified' = FALSE
  /\ UNCHANGED <<iteration, stage, repairAttempt>>

(* An early abort is not forgotten, nor is an abort made up; and success    *)
(* is the verdict of a round that saw every write.                          *)
Stops(reason) ==
  /\ Settle(reason)
  /\ reason = "aborted" => aborted
  /\ aborted /\ stage = "agent" /\ pc # "verify" => reason = "aborted"
  /\ reason = "completed" /\ input.verify
       => verdict' = "passed" /\ (unverified' => pc = "verify" /\ unverified)
  /\ UNCHANGED <<iteration, stage, repairAttempt>>

Continues ==
  /\ verdict' \in {"none", "passed", "failed"}
  /\ Repeats \/ Verifies \/ \E reason \in StopReason : Stops(reason)

RoundTypesKept == RoundType' /\ unverified' \in BOOLEAN

LEMMA EndRoundContinues ==
  ASSUME TypeOK, NEW failed \in BOOLEAN, EndRound(failed),
         pc = "verify" \/ stage = "repair" \/ ~aborted,
         unverified' => pc = "verify" /\ unverified
  PROVE  Continues
<1>1. CASE failed /\ repairAttempt < MaxRepairAttempts /\ CanContinue
  <2>1. /\ iteration' = iteration + 1
        /\ stage' = "repair"
        /\ pc' = "build"
        /\ repairAttempt' = repairAttempt + 1
        /\ taskStatus' = "repairing"
        /\ stopReason' = stopReason
        /\ verdict' \in {"failed", "passed"}
    BY <1>1 DEF EndRound, NextIteration, IterationAfter
  <2>2. repairAttempt + 1 \in 0..MaxRepairAttempts
    BY <1>1, BoundsAssumption DEF TypeOK, ControlType
  <2>3. QED
    BY <1>1, <2>1, <2>2 DEF Continues, Repeats, TaskStatus
<1>2. CASE ~(failed /\ repairAttempt < MaxRepairAttempts /\ CanContinue)
  <2>1. /\ Settle(VerdictReason(failed))
        /\ verdict' = IF failed THEN "failed" ELSE "passed"
        /\ UNCHANGED <<iteration, stage, repairAttempt>>
    BY <1>2 DEF EndRound
  <2>2. /\ VerdictReason(failed) \in StopReason \ {"aborted"}
        /\ VerdictReason(failed) = "completed" => ~failed
    BY DEF VerdictReason, StopReason
  <2>3. Stops(VerdictReason(failed))
    BY <2>1, <2>2 DEF Stops
  <2>4. verdict' \in {"failed", "passed"}
    BY <2>1
  <2>5. QED
    BY <2>2, <2>3, <2>4 DEF Continues
<1>3. QED
  BY <1>1, <1>2

LEMMA BeginRoundContinues ==
  ASSUME TypeOK, NEW reason \in {"completed", "max_iterations"},
         NEW status \in TaskStatus, BeginRound(reason, status),
         stage = "repair" \/ ~aborted
  PROVE  Continues /\ RoundTypesKept
<1>1. input.allowed \in 0..MaxCommands /\ input.denied \in BOOLEAN
  BY DEF TypeOK, ControlType, RunInput
<1>2. RoundTypesKept
  BY <1>1 DEF BeginRound, RoundTypesKept, RoundType
<1>3. CASE input.allowed = 0
  <2>1. EndRound(input.denied) /\ ~unverified'
    BY <1>3 DEF BeginRound
  <2>2. QED
    BY <1>1, <1>2, <2>1, EndRoundContinues
<1>4. CASE input.allowed > 0
  BY <1>1, <1>2, <1>4 DEF BeginRound, Continues, Verifies, TypeOK, HistoryType
<1>5. QED
  BY <1>1, <1>3, <1>4, BoundsAssumption

LEMMA LeaveLoopContinues ==
  ASSUME TypeOK, PendingInv, pc \in Working, LeaveLoop
  PROVE  Continues /\ RoundTypesKept
<1>1. /\ stopReason \in {"completed", "max_iterations"}
      /\ LoopReason \in {"aborted", "completed", "max_iterations"}
      /\ LoopReason = "aborted" <=> aborted
  BY DEF PendingInv, LoopReason
<1>2. CASE LoopReason = "aborted" \/ ~input.verify
  <2>1. /\ Settle(LoopReason)
        /\ UNCHANGED <<iteration, stage, repairAttempt, roundVars, verdict, unverified>>
    BY <1>2 DEF LeaveLoop
  <2>2. Stops(LoopReason)
    BY <1>1, <1>2, <2>1 DEF Stops
  <2>3. QED
    BY <1>1, <1>2, <2>1, <2>2 DEF Continues, StopReason, TypeOK, HistoryType,
         RoundType, RoundTypesKept, roundVars
<1>3. CASE LoopReason # "aborted" /\ input.verify
  <2>1. BeginRound(LoopReason, "verifying")
    BY <1>3 DEF LeaveLoop
  <2>2. QED
    BY <1>1, <1>3, <2>1, BeginRoundContinues DEF TaskStatus
<1>4. QED
  BY <1>2, <1>3

LEMMA LoopOrLeaveContinues ==
  ASSUME TypeOK, PendingInv, pc \in Working,
         NEW status \in TaskStatus, LoopOrLeave(status)
  PROVE  Continues /\ RoundTypesKept
<1>1. CASE CanContinue
  <2>1. /\ NextIteration("agent")
        /\ taskStatus' = status
        /\ UNCHANGED <<stopReason, repairAttempt, roundVars, verdict, unverified>>
    BY <1>1 DEF LoopOrLeave
  <2>2. QED
    BY <1>1, <2>1 DEF NextIteration, IterationAfter, Continues, Repeats,
         TypeOK, ControlType, HistoryType, RoundType, RoundTypesKept, roundVars
<1>2. CASE ~CanContinue
  BY <1>2, LeaveLoopContinues DEF LoopOrLeave
<1>3. QED
  BY <1>1, <1>2

(* Whatever the continuation, the invariant holds where the run arrives.    *)
LEMMA ContinuationKeeps ==
  ASSUME IInv, pc \in Working, Continues, RoundTypesKept,
         UNCHANGED <<input, rollback, issues, tracked, disk, lifeVars, envVars, calls>>,
         dirty' \in BOOLEAN, answered' \in BOOLEAN
  PROVE  IInv'
<1> USE DEF IInv
<1>1. ChangeType' /\ LifeType' /\ EnvType' /\ HistoryType' /\ RoundType'
  BY DEF Continues, RoundTypesKept, TypeOK, ChangeType, LifeType, EnvType, HistoryType,
       lifeVars, envVars
<1>2. /\ input' \in RunInput
      /\ rollback' \in RollbackStatus
      /\ issues' \subseteq {"rollback", "memory", "middleware"}
      /\ calls' \in 0..MaxToolCalls
  BY DEF TypeOK, ControlType, OutcomeType
<1>3. /\ rollback = "not_required"
      /\ late \subseteq {"working"}
      /\ terminal = <<>>
      /\ stopReason \in {"completed", "max_iterations"}
      /\ disk = "changed" => tracked
      /\ aborted \in BOOLEAN
      /\ abortedDuring \in {"never", "work", "verification", "finalization"}
  BY DEF TypeOK, EnvType, PendingInv, OutcomeInv, ChangesInv, Working, Preparing, Looping
<1>4. CASE Repeats
  <2>1. ControlType' /\ OutcomeType'
    BY <1>2, <1>4, BoundsAssumption DEF Repeats, CanContinue, TypeOK, ControlType,
         OutcomeType, Location, Working, Looping
  <2>2. CountersInv' /\ PendingInv' /\ OutcomeInv' /\ ChangesInv' /\ VerifiedInv'
    BY <1>3, <1>4 DEF Repeats, CountersInv, PendingInv, OutcomeInv, ChangesInv, VerifiedInv,
         lifeVars, envVars, Working, Looping
  <2>3. AbortInv'
    BY <1>3, <1>4 DEF Repeats, CanContinue, AbortInv, envVars, Working, Looping
  <2>4. QED
    BY <1>1, <1>2, <2>1, <2>2, <2>3 DEF TypeOK
<1>5. CASE Verifies
  <2>1. ControlType' /\ OutcomeType'
    BY <1>2, <1>5 DEF Verifies, TypeOK, ControlType, OutcomeType, Location, Working, StopReason
  <2>2. CountersInv' /\ PendingInv' /\ OutcomeInv' /\ ChangesInv' /\ VerifiedInv'
    BY <1>3, <1>5 DEF Verifies, CountersInv, PendingInv, OutcomeInv, ChangesInv, VerifiedInv,
         lifeVars, envVars, Working
  <2>3. AbortInv'
    BY <1>3, <1>5 DEF Verifies, AbortInv, envVars, Working
  <2>4. QED
    BY <1>1, <1>2, <2>1, <2>2, <2>3 DEF TypeOK
<1>6. ASSUME NEW reason \in StopReason, Stops(reason)
      PROVE  IInv'
  <2>1. /\ stopReason' = reason
        /\ \/ /\ NeedsRollback(reason) /\ tracked
              /\ pc' = "rollback"
              /\ taskStatus' = taskStatus
           \/ /\ ~(NeedsRollback(reason) /\ tracked)
              /\ pc' = "save"
              /\ taskStatus' = FinalStatus(reason)
    BY <1>6 DEF Stops, Settle
  <2>2. NeedsRollback(stopReason)' <=> NeedsRollback(reason)
    BY <2>1 DEF NeedsRollback
  <2>3. ControlType' /\ OutcomeType'
    BY <1>2, <1>6, <2>1 DEF Stops, TypeOK, ControlType, OutcomeType, Location, Finalizing,
         FinalStatus, TaskStatus
  <2>4. CountersInv' /\ PendingInv' /\ OutcomeInv' /\ ChangesInv'
    BY <1>3, <2>1, <2>2 DEF CountersInv, PendingInv, OutcomeInv, ChangesInv,
         lifeVars, envVars, Working, Preparing, Looping, FinalStatus
  <2>5. AbortInv'
    BY <1>3, <1>6, <2>1 DEF Stops, AbortInv, envVars, Working, Preparing, Looping
  <2>6. VerifiedInv'
    BY <1>6, <2>1 DEF Stops, VerifiedInv, envVars
  <2>7. QED
    BY <1>1, <1>2, <2>3, <2>4, <2>5, <2>6 DEF TypeOK
<1>7. QED
  BY <1>4, <1>5, <1>6 DEF Continues

-----------------------------------------------------------------------------
(* The other steps.                                                         *)

(* A step from one await of the preparation or of the loop to another, of   *)
(* which nothing but the program counter and the calls matters.             *)
LEMMA MoveKeeps ==
  ASSUME IInv, pc \in Working \ {"verify"}, pc' \in Working \ {"verify"},
         calls' \in 0..MaxToolCalls,
         pc' \in {"beforeTool", "tool", "afterTool"} => calls' > 0,
         taskStatus' \in TaskStatus, registered' \in BOOLEAN,
         abandoned' \in Nat, answered' \in BOOLEAN,
         UNCHANGED <<input, iteration, stage, repairAttempt, stopReason, rollback, issues,
                     roundVars, changeVars, terminal, aborted, abortedDuring, late,
                     verdict, unverified>>
  PROVE  IInv'
<1> USE DEF IInv
<1>1. TypeOK'
  BY DEF TypeOK, ControlType, OutcomeType, RoundType, ChangeType, LifeType, EnvType,
       HistoryType, roundVars, changeVars, Location
<1>2. CountersInv' /\ PendingInv' /\ OutcomeInv'
  BY DEF CountersInv, PendingInv, OutcomeInv, Working, Preparing, Looping
<1>3. AbortInv'
  BY DEF AbortInv
<1>4. ChangesInv' /\ VerifiedInv'
  BY DEF ChangesInv, VerifiedInv, changeVars, Working, Preparing, Looping
<1>5. QED
  BY <1>1, <1>2, <1>3, <1>4

(* A write of the running tool, or one of an abandoned tool, in any phase.  *)
LEMMA WriteKeeps ==
  ASSUME IInv, TrackedWrite \/ FailedWrite,
         \/ pc = "tool" /\ late' = late
         \/ late' = late \cup {IF pc \in Working THEN "working" ELSE "finalizing"},
         UNCHANGED <<control, outcomeVars, roundVars, lifeVars, aborted, abortedDuring,
                     abandoned, answered, verdict, calls>>
  PROVE  IInv'
<1> USE DEF IInv
<1>1. /\ ChangeType'
      /\ unverified'
      /\ disk' = "changed" => tracked'
  BY DEF TrackedWrite, FailedWrite, TypeOK, ChangeType
<1>2. late \subseteq late' /\ late' \subseteq {"working", "finalizing"}
  BY DEF TypeOK, EnvType
<1>3. TypeOK'
  BY <1>1, <1>2 DEF TypeOK, ControlType, OutcomeType, RoundType, LifeType, EnvType,
       HistoryType, control, outcomeVars, roundVars, lifeVars
<1>4. CountersInv' /\ PendingInv' /\ OutcomeInv'
  BY DEF CountersInv, PendingInv, OutcomeInv, NeedsRollback, TerminalKind, FinalStatus,
       control, outcomeVars, roundVars, lifeVars, Working, Looping
<1>5. AbortInv'
  BY DEF AbortInv, control, outcomeVars
<1>6. ChangesInv'
  BY <1>1, <1>2 DEF ChangesInv, control, outcomeVars, Working, Preparing, Looping
<1>7. VerifiedInv'
  BY <1>1, <1>2 DEF VerifiedInv, control, outcomeVars, Working, Preparing, Looping
<1>8. QED
  BY <1>3, <1>4, <1>5, <1>6, <1>7

(* The steps that decide what the run does next.                            *)
LEMMA DecidingSteps ==
  ASSUME IInv,
         \/ ContextPrepared \/ ModelAnswers \/ CheckpointReturns \/ Throws
         \/ CommandExits /\ commandsLeft = 1
  PROVE  /\ pc \in Working /\ Continues /\ RoundTypesKept
         /\ UNCHANGED <<input, rollback, issues, tracked, disk, lifeVars, envVars, calls>>
         /\ dirty' \in BOOLEAN /\ answered' \in BOOLEAN
<1> USE DEF IInv, TypeOK
<1>1. CASE ContextPrepared
  <2>1. LoopOrLeave("executing") /\ pc \in Working /\ "executing" \in TaskStatus
    BY <1>1 DEF ContextPrepared, Working, Preparing, TaskStatus
  <2>2. QED
    BY <1>1, <2>1, LoopOrLeaveContinues DEF ContextPrepared, ChangeType, HistoryType, changeVars
<1>2. CASE ModelAnswers
  <2>1. LeaveLoop /\ pc \in Working
    BY <1>2 DEF ModelAnswers, Working, Looping
  <2>2. QED
    BY <1>2, <2>1, LeaveLoopContinues DEF ModelAnswers, ChangeType, changeVars
<1>3. CASE CheckpointReturns
  <2>1. /\ pc \in Working
        /\ dirty' \in BOOLEAN /\ answered' \in BOOLEAN
        /\ UNCHANGED <<input, rollback, issues, tracked, disk, lifeVars, envVars, calls>>
    BY <1>3 DEF CheckpointReturns, Working, Looping, HistoryType
  <2>2. CASE stage = "agent" /\ LoopOrLeave(taskStatus)
    BY <2>1, <2>2, LoopOrLeaveContinues DEF OutcomeType
  <2>3. CASE stage = "repair" /\ BeginRound(stopReason, taskStatus)
    <3>1. stopReason \in {"completed", "max_iterations"}
      BY <2>1 DEF PendingInv
    <3>2. QED
      BY <2>1, <2>3, <3>1, BeginRoundContinues DEF OutcomeType
  <2>4. QED
    BY <1>3, <2>2, <2>3 DEF CheckpointReturns
<1>4. CASE Throws
  <2>1. /\ pc \in Working
        /\ Settle(FailReason)
        /\ UNCHANGED <<input, iteration, stage, repairAttempt, rollback, issues, roundVars,
                       changeVars, lifeVars, envVars, historyVars, calls>>
    BY <1>4 DEF Throws, Working
  <2>2. FailReason \in {"aborted", "error"} /\ (FailReason = "aborted" <=> aborted)
    BY DEF FailReason
  <2>3. Stops(FailReason)
    BY <2>1, <2>2 DEF Stops
  <2>4. Continues
    BY <2>1, <2>2, <2>3 DEF Continues, StopReason, HistoryType, historyVars
  <2>5. RoundTypesKept /\ dirty' \in BOOLEAN /\ answered' \in BOOLEAN
    BY <2>1 DEF RoundTypesKept, RoundType, roundVars, HistoryType, historyVars, ChangeType,
         changeVars
  <2>6. QED
    BY <2>1, <2>4, <2>5 DEF changeVars
<1>5. CASE CommandExits /\ commandsLeft = 1
  <2>1. /\ pc = "verify"
        /\ commandsLeft' \in 0..MaxCommands
        /\ killed' = FALSE
        /\ UNCHANGED <<input, rollback, issues, changeVars, lifeVars, envVars, answered,
                       unverified, calls>>
    BY <1>5, BoundsAssumption DEF CommandExits
  <2>2. PICK failed \in BOOLEAN :
          /\ roundFailed' = failed
          /\ (commandsLeft = 1 /\ EndRound(failed)) \/ commandsLeft > 1
    BY <1>5 DEF CommandExits, RoundType, CommandPassed
  <2>3. EndRound(failed)
    BY <1>5, <2>2
  <2>4. RoundTypesKept
    BY <2>1, <2>2 DEF RoundTypesKept, RoundType, HistoryType
  <2>5. QED
    BY <2>1, <2>3, <2>4, EndRoundContinues DEF Working, ChangeType, HistoryType, changeVars
<1>6. QED
  BY <1>1, <1>2, <1>3, <1>4, <1>5

LEMMA RunStepKeeps == ASSUME IInv, RunStep PROVE IInv'
<1> USE DEF IInv, TypeOK
<1>1. CASE Start
  BY <1>1, MoveKeeps DEF Start, Working, Preparing, OutcomeType, EnvType, HistoryType,
       outcomeVars, lifeVars, envVars, historyVars
<1>2. CASE BeforeRunReturns
  BY <1>2, MoveKeeps DEF BeforeRunReturns, Working, Preparing, TaskStatus, LifeType, EnvType,
       HistoryType, lifeVars, envVars, historyVars
<1>3. CASE WorkspacePrepared
  BY <1>3, MoveKeeps DEF WorkspacePrepared, Working, Preparing, OutcomeType, LifeType, EnvType,
       HistoryType, outcomeVars, lifeVars, envVars, historyVars
<1>4. CASE \/ ContextPrepared \/ ModelAnswers \/ CheckpointReturns \/ Throws
           \/ CommandExits /\ commandsLeft = 1
  BY <1>4, DecidingSteps, ContinuationKeeps
<1>5. CASE RequestBuilt
  BY <1>5, MoveKeeps DEF RequestBuilt, Working, Looping, OutcomeType, LifeType, EnvType,
       HistoryType, outcomeVars, lifeVars, envVars, historyVars
<1>6. CASE ModelRequestsTools
  <2>1. PICK n \in 0..MaxToolCalls :
          /\ calls' = n
          /\ pc' = IF n > 0 THEN "beforeTool" ELSE "checkpoint"
    BY <1>6 DEF ModelRequestsTools
  <2>2. n \in Nat
    BY BoundsAssumption
  <2>3. QED
    BY <1>6, <2>1, <2>2, MoveKeeps DEF ModelRequestsTools, Working, Looping, OutcomeType,
         LifeType, EnvType, HistoryType, outcomeVars, lifeVars, envVars
<1>7. CASE BeforeToolReturns
  BY <1>7, MoveKeeps DEF BeforeToolReturns, CountersInv, Working, Looping, OutcomeType, LifeType,
       EnvType, HistoryType, outcomeVars, lifeVars, envVars, historyVars
<1>8. CASE ToolWrites
  BY <1>8, WriteKeeps DEF ToolWrites, envVars
<1>9. CASE ToolSettles
  BY <1>9, MoveKeeps DEF ToolSettles, CountersInv, Working, Looping, OutcomeType, LifeType,
       EnvType, HistoryType, outcomeVars, lifeVars, historyVars
<1>10. CASE AfterToolReturns
  <2>1. calls > 0 /\ calls \in 0..MaxToolCalls
    BY <1>10 DEF AfterToolReturns, CountersInv
  <2>2. calls - 1 \in 0..MaxToolCalls
    BY <2>1, BoundsAssumption
  <2>3. QED
    BY <1>10, <2>1, <2>2, MoveKeeps, BoundsAssumption DEF AfterToolReturns, Working, Looping,
         OutcomeType, LifeType, EnvType, HistoryType, outcomeVars, lifeVars, envVars, historyVars
<1>11. CASE CommandExits /\ commandsLeft # 1
  <2>1. /\ pc = "verify"
        /\ commandsLeft > 1
        /\ commandsLeft' = commandsLeft - 1
        /\ killed' = FALSE
        /\ roundFailed' \in BOOLEAN
        /\ UNCHANGED <<control, stopReason, taskStatus, verdict>>
        /\ UNCHANGED <<input, rollback, issues, changeVars, lifeVars, envVars, answered,
                       unverified, calls>>
    BY <1>11 DEF CommandExits, RoundType, CommandPassed
  <2>2. commandsLeft' \in 0..MaxCommands /\ commandsLeft' > 0
    BY <2>1, BoundsAssumption DEF RoundType
  <2>3. RoundType'
    BY <2>1, <2>2 DEF RoundType
  <2>4. TypeOK'
    BY <2>1, <2>3 DEF ControlType, OutcomeType, ChangeType, LifeType, EnvType, HistoryType,
         control, changeVars, lifeVars, envVars
  <2>5. CountersInv' /\ PendingInv' /\ OutcomeInv'
    BY <2>1, <2>2 DEF CountersInv, PendingInv, OutcomeInv, control, lifeVars, envVars, Working
  <2>6. AbortInv' /\ ChangesInv' /\ VerifiedInv'
    BY <2>1 DEF AbortInv, ChangesInv, VerifiedInv, control, changeVars, envVars, Working
  <2>7. QED
    BY <2>4, <2>5, <2>6
<1>12. QED
  BY <1>1, <1>2, <1>3, <1>4, <1>5, <1>6, <1>7, <1>8, <1>9, <1>10, <1>11 DEF RunStep

(* A step of finalizeRun from one of its awaits to the next.                *)
LEMMA FinalizeStepKeeps == ASSUME IInv, FinalizeStep PROVE IInv'
<1> USE DEF IInv, TypeOK
<1>1. CASE RollbackReturns
  <2>1. /\ pc = "rollback" /\ pc' = "save"
        /\ taskStatus' = FinalStatus(stopReason)
        /\ UNCHANGED <<input, iteration, stage, repairAttempt, stopReason, issues, roundVars,
                       lifeVars, envVars, historyVars, calls>>
    BY <1>1 DEF RollbackReturns
  <2>2. /\ ChangeType'
        /\ rollback' \in RollbackStatus
        /\ disk' = "changed" /\ "finalizing" \notin late =>
             tracked' /\ rollback' \in {"partial", "failed"}
    BY <1>1, <2>1 DEF RollbackReturns, DiskAfterRollback, ChangeType, RollbackStatus,
         ChangesInv, changeVars
  <2>3. TypeOK'
    BY <2>1, <2>2 DEF ControlType, OutcomeType, RoundType, LifeType, EnvType, HistoryType,
         roundVars, lifeVars, envVars, historyVars, Location, Finalizing, FinalStatus, TaskStatus
  <2>4. CountersInv' /\ PendingInv' /\ OutcomeInv'
    BY <2>1 DEF CountersInv, PendingInv, OutcomeInv, FinalStatus, lifeVars, Working, Preparing,
         Looping
  <2>5. AbortInv' /\ ChangesInv' /\ VerifiedInv'
    BY <2>1, <2>2 DEF AbortInv, ChangesInv, VerifiedInv, envVars, historyVars, Working,
         Preparing, Looping
  <2>6. QED
    BY <2>3, <2>4, <2>5
<1>2. CASE RollbackThrows
  <2>1. TypeOK'
    BY <1>2 DEF RollbackThrows, ControlType, OutcomeType, RoundType, ChangeType, LifeType,
         EnvType, HistoryType, roundVars, changeVars, lifeVars, envVars, historyVars, Location,
         Finalizing, FinalStatus, TaskStatus, RollbackStatus
  <2>2. CountersInv' /\ PendingInv' /\ OutcomeInv'
    BY <1>2 DEF RollbackThrows, CountersInv, PendingInv, OutcomeInv, FinalStatus, lifeVars,
         Working, Preparing, Looping
  <2>3. AbortInv' /\ ChangesInv' /\ VerifiedInv'
    BY <1>2 DEF RollbackThrows, AbortInv, ChangesInv, VerifiedInv, changeVars, envVars,
         historyVars, Working, Preparing, Looping
  <2>4. QED
    BY <2>1, <2>2, <2>3
<1>3. CASE SaveSettles
  <2>1. TypeOK'
    BY <1>3 DEF SaveSettles, ControlType, OutcomeType, RoundType, ChangeType, LifeType,
         EnvType, HistoryType, roundVars, changeVars, lifeVars, envVars, historyVars, Location,
         Finalizing
  <2>2. CountersInv' /\ PendingInv' /\ OutcomeInv'
    BY <1>3 DEF SaveSettles, CountersInv, PendingInv, OutcomeInv, FinalStatus, lifeVars,
         Working, Preparing, Looping
  <2>3. AbortInv' /\ ChangesInv' /\ VerifiedInv'
    BY <1>3 DEF SaveSettles, AbortInv, ChangesInv, VerifiedInv, NeedsRollback, changeVars,
         envVars, historyVars, Working, Preparing, Looping
  <2>4. QED
    BY <2>1, <2>2, <2>3
<1>4. CASE AfterRunSettles
  <2>1. terminal' = <<TerminalKind(stopReason)>>
    BY <1>4 DEF AfterRunSettles, OutcomeInv
  <2>2. LifeType'
    <3>1. Append(terminal, TerminalKind(stopReason)) \in Seq({"failed", "stopped"})
      BY DEF TerminalKind, LifeType
    <3>2. QED
      BY <1>4, <3>1 DEF AfterRunSettles, LifeType
  <2>3. TypeOK'
    BY <1>4, <2>2 DEF AfterRunSettles, ControlType, OutcomeType, RoundType, ChangeType,
         EnvType, HistoryType, roundVars, changeVars, envVars, historyVars, Location
  <2>4. CountersInv' /\ PendingInv' /\ OutcomeInv'
    BY <1>4, <2>1 DEF AfterRunSettles, CountersInv, PendingInv, OutcomeInv, FinalStatus,
         TerminalKind, Working, Preparing, Looping
  <2>5. AbortInv' /\ ChangesInv' /\ VerifiedInv'
    BY <1>4 DEF AfterRunSettles, AbortInv, ChangesInv, VerifiedInv, NeedsRollback, changeVars,
         envVars, historyVars, Working, Preparing, Looping
  <2>6. QED
    BY <2>3, <2>4, <2>5
<1>5. QED
  BY <1>1, <1>2, <1>3, <1>4 DEF FinalizeStep

(* The environment may act in every phase.                                  *)
LEMMA EnvironmentKeeps == ASSUME IInv, Environment PROVE IInv'
<1> USE DEF IInv, TypeOK
<1>1. CASE Abort
  <2>1. /\ killed' \in BOOLEAN
        /\ abortedDuring' \in {"work", "verification", "finalization"}
        /\ abortedDuring' = "finalization" => pc \in Finalizing
        /\ abortedDuring' = "work" => pc \in Working /\ pc # "verify" /\ stage = "agent"
        /\ abortedDuring = "never"
    BY <1>1 DEF Abort, AbortInv, ControlType, Location
  <2>2. TypeOK'
    BY <1>1, <2>1 DEF Abort, ControlType, OutcomeType, RoundType, ChangeType, LifeType,
         EnvType, HistoryType, control, outcomeVars, changeVars, lifeVars, historyVars
  <2>3. CountersInv' /\ PendingInv' /\ OutcomeInv' /\ ChangesInv' /\ VerifiedInv'
    BY <1>1 DEF Abort, CountersInv, PendingInv, OutcomeInv, ChangesInv, VerifiedInv,
         FinalStatus, TerminalKind, NeedsRollback, control, outcomeVars, changeVars, lifeVars,
         historyVars
  <2>4. AbortInv'
    BY <1>1, <2>1 DEF Abort, AbortInv, control, outcomeVars, Working, Preparing, Looping,
         Finalizing
  <2>5. QED
    BY <2>2, <2>3, <2>4
<1>2. CASE LateWrite
  BY <1>2, WriteKeeps DEF LateWrite
<1>3. CASE AbandonedEnds
  <2>1. TypeOK'
    BY <1>3 DEF AbandonedEnds, ControlType, OutcomeType, RoundType, ChangeType, LifeType,
         EnvType, HistoryType, control, outcomeVars, roundVars, changeVars, lifeVars, historyVars
  <2>2. CountersInv' /\ PendingInv' /\ OutcomeInv'
    BY <1>3 DEF AbandonedEnds, CountersInv, PendingInv, OutcomeInv, FinalStatus, TerminalKind,
         NeedsRollback, control, outcomeVars, roundVars, lifeVars
  <2>3. AbortInv' /\ ChangesInv' /\ VerifiedInv'
    BY <1>3 DEF AbandonedEnds, AbortInv, ChangesInv, VerifiedInv, NeedsRollback, control,
         outcomeVars, changeVars, historyVars
  <2>4. QED
    BY <2>1, <2>2, <2>3
<1>4. QED
  BY <1>1, <1>2, <1>3 DEF Environment

LEMMA StutterKeeps == ASSUME IInv, UNCHANGED vars PROVE IInv'
<1> USE DEF IInv, vars, control, outcomeVars, roundVars, changeVars, lifeVars, envVars, historyVars
<1>1. TypeOK'
  BY DEF TypeOK, ControlType, OutcomeType, RoundType, ChangeType, LifeType, EnvType, HistoryType
<1>2. CountersInv' /\ PendingInv' /\ OutcomeInv'
  BY DEF CountersInv, PendingInv, OutcomeInv, FinalStatus, TerminalKind, NeedsRollback
<1>3. AbortInv' /\ ChangesInv' /\ VerifiedInv'
  BY DEF AbortInv, ChangesInv, VerifiedInv, NeedsRollback
<1>4. QED
  BY <1>1, <1>2, <1>3

LEMMA InitEstablishes == Init => IInv
<1> SUFFICES ASSUME Init PROVE IInv
  OBVIOUS
<1> USE DEF Init
<1>1. TypeOK
  <2>1. ControlType
    BY BoundsAssumption DEF ControlType, Location, Working
  <2>2. OutcomeType /\ ChangeType /\ EnvType /\ HistoryType
    BY DEF OutcomeType, ChangeType, EnvType, HistoryType, StopReason, TaskStatus, RollbackStatus
  <2>3. commandsLeft \in 0..MaxCommands /\ calls \in 0..MaxToolCalls
    BY BoundsAssumption
  <2>4. roundFailed \in BOOLEAN /\ killed \in BOOLEAN /\ registered \in BOOLEAN
    OBVIOUS
  <2>5. terminal \in Seq({"failed", "stopped"})
    OBVIOUS
  <2>6. QED
    BY <2>1, <2>2, <2>3, <2>4, <2>5 DEF TypeOK, RoundType, LifeType
<1>2. CountersInv /\ PendingInv /\ OutcomeInv
  BY DEF CountersInv, PendingInv, OutcomeInv
<1>3. AbortInv /\ ChangesInv /\ VerifiedInv
  BY DEF AbortInv, ChangesInv, VerifiedInv, Working
<1>4. QED
  BY <1>1, <1>2, <1>3 DEF IInv

(* The inductive invariant holds in every reachable state of a run.         *)
THEOREM Invariance == Spec => []IInv
<1>1. IInv /\ [Next]_vars => IInv'
  BY RunStepKeeps, FinalizeStepKeeps, EnvironmentKeeps, StutterKeeps DEF Next, Done
<1>2. QED
  BY <1>1, InitEstablishes, PTL DEF Spec

-----------------------------------------------------------------------------
(* The properties of AgentRun.                                              *)

(* Every variable of a run has its type: the counters of iterations and     *)
(* repair attempts never exceed their limits (canContinue in run-state.ts,  *)
(* the loop of verifyAndRepair).                                            *)
THEOREM TypeCorrect == Spec => []TypeOK
<1>1. IInv => TypeOK
  BY DEF IInv
<1>2. QED
  BY <1>1, Invariance, PTL

(* finalizeRun publishes one terminal event sequence, at the end, that      *)
(* agrees with the stop reason and the task status.                         *)
THEOREM TerminalCorrect == Spec => []OneConsistentTerminal
<1>1. IInv => OneConsistentTerminal
  BY DEF IInv, OutcomeInv, OneConsistentTerminal, TerminalKind, FinalStatus, TypeOK, OutcomeType,
       StopReason
<1>2. QED
  BY <1>1, Invariance, PTL

(* An unsuccessful run that wants rollback leaves tracked changes behind    *)
(* only if its result reports the rollback as partial or failed.            *)
THEOREM LeftoversReported == Spec => []FailedRunLeavesNothing
<1>1. IInv => FailedRunLeavesNothing
  BY DEF IInv, ChangesInv, FailedRunLeavesNothing, NeedsRollback
<1>2. QED
  BY <1>1, Invariance, PTL

(* Without verification the loop is left by an answer, an abort, an error,  *)
(* or with its iterations used up, and no repair attempt is ever begun.     *)
AnsweredInv ==
  ~input.verify =>
    IF pc \in Working THEN pc # "verify" /\ stage = "agent"
                      ELSE stopReason = "completed" => answered

(* How a step of a run without verification ends the work.                  *)
LEMMA UnverifiedWork ==
  ASSUME IInv, AnsweredInv, ~input.verify, pc \in Working, RunStep
  PROVE  /\ input' = input
         /\ \/ pc' \in Working \ {"verify"} /\ stage' = "agent"
            \/ pc' \notin Working /\ (stopReason' = "completed" => answered')
<1> USE DEF AnsweredInv
<1>1. stopReason \in {"completed", "max_iterations"} /\ pc # "verify" /\ stage = "agent"
  BY DEF IInv, PendingInv
<1>2. ASSUME NEW reason \in StopReason, Settle(reason)
      PROVE  pc' \notin Working /\ stopReason' = reason
  BY <1>2 DEF Settle, Working, Preparing, Looping
<1>3. ASSUME NEW status \in TaskStatus, LoopOrLeave(status)
      PROVE  \/ pc' = "build" /\ stage' = "agent"
             \/ pc' \notin Working /\ stopReason' # "completed"
  <2>1. CASE CanContinue
    BY <1>3, <2>1 DEF LoopOrLeave, NextIteration
  <2>2. CASE ~CanContinue
    <3>1. LoopReason \in {"aborted", "max_iterations"}
      BY <1>1, <2>2, BoundsAssumption DEF CanContinue, LoopReason, IInv, TypeOK, ControlType,
           EnvType
    <3>2. Settle(LoopReason)
      BY <1>3, <2>2 DEF LoopOrLeave, LeaveLoop
    <3>3. QED
      BY <1>2, <3>1, <3>2 DEF StopReason
  <2>3. QED
    BY <2>1, <2>2
<1>4. CASE ContextPrepared
  <2>1. LoopOrLeave("executing") /\ "executing" \in TaskStatus /\ input' = input
    BY <1>4 DEF ContextPrepared, TaskStatus
  <2>2. QED
    BY <1>3, <2>1 DEF Working, Looping
<1>5. CASE CheckpointReturns
  <2>1. LoopOrLeave(taskStatus) /\ taskStatus \in TaskStatus /\ input' = input
    BY <1>1, <1>5 DEF CheckpointReturns, IInv, TypeOK, OutcomeType
  <2>2. QED
    BY <1>3, <2>1 DEF Working, Looping
<1>6. CASE ModelAnswers
  <2>1. Settle(LoopReason) /\ answered' /\ input' = input
    BY <1>6 DEF ModelAnswers, LeaveLoop
  <2>2. LoopReason \in StopReason
    BY <1>1 DEF LoopReason, StopReason
  <2>3. QED
    BY <1>2, <2>1, <2>2
<1>7. CASE Throws
  <2>1. Settle(FailReason) /\ input' = input
    BY <1>7 DEF Throws
  <2>2. FailReason \in StopReason \ {"completed"}
    BY DEF FailReason, StopReason
  <2>3. QED
    BY <1>2, <2>1, <2>2
<1>8. CASE Start \/ BeforeRunReturns \/ WorkspacePrepared \/ RequestBuilt
  BY <1>1, <1>8 DEF Start, BeforeRunReturns, WorkspacePrepared, RequestBuilt, Working,
       Preparing, Looping
<1>9. CASE \/ ModelRequestsTools \/ BeforeToolReturns \/ ToolWrites \/ ToolSettles
           \/ AfterToolReturns
  BY <1>1, <1>9 DEF ModelRequestsTools, BeforeToolReturns, ToolWrites, ToolSettles,
       AfterToolReturns, control, Working, Looping
<1>10. CASE CommandExits
  BY <1>1, <1>10 DEF CommandExits
<1>11. QED
  BY <1>4, <1>5, <1>6, <1>7, <1>8, <1>9, <1>10 DEF RunStep

(* Success means, with verification on, a passing round that saw every      *)
(* write but those of abandoned tools, and without it, an answer of the     *)
(* model.                                                                   *)
THEOREM SuccessEarned == Spec => []SuccessIsEarned
<1>1. Init => AnsweredInv
  BY DEF Init, AnsweredInv, Working
<1>2. IInv /\ AnsweredInv /\ [Next]_vars => AnsweredInv'
  <2> SUFFICES ASSUME IInv, AnsweredInv, [Next]_vars PROVE AnsweredInv'
    OBVIOUS
  <2>1. CASE RunStep
    <3>1. CASE ~input.verify /\ pc \in Working
      BY <2>1, <3>1, UnverifiedWork DEF AnsweredInv
    <3>2. pc \in Working /\ input' = input
      BY <2>1 DEF RunStep, Start, BeforeRunReturns, WorkspacePrepared, ContextPrepared,
           RequestBuilt, ModelAnswers, ModelRequestsTools, BeforeToolReturns, ToolWrites,
           ToolSettles, AfterToolReturns, CheckpointReturns, CommandExits, Throws, control,
           Working, Preparing, Looping
    <3>3. QED
      BY <3>1, <3>2 DEF AnsweredInv
  <2>2. CASE FinalizeStep
    BY <2>2 DEF FinalizeStep, RollbackReturns, RollbackThrows, SaveSettles, AfterRunSettles,
         historyVars, AnsweredInv, Working, Preparing, Looping
  <2>3. CASE Environment
    BY <2>3 DEF Environment, Abort, LateWrite, AbandonedEnds, control, outcomeVars,
         historyVars, AnsweredInv
  <2>4. CASE UNCHANGED vars
    BY <2>4 DEF vars, control, outcomeVars, historyVars, AnsweredInv
  <2>5. QED
    BY <2>1, <2>2, <2>3, <2>4 DEF Next, Done
<1>3. IInv /\ AnsweredInv => SuccessIsEarned
  BY DEF IInv, VerifiedInv, AnsweredInv, SuccessIsEarned, Working, Preparing, Looping
<1>4. QED
  BY <1>1, <1>2, <1>3, Invariance, PTL DEF Spec

(* A signal that fires before verification makes the run a cancelled one,   *)
(* and no run is cancelled without a signal that fired while it worked.     *)
THEOREM AbortCorrect == Spec => []CancellationIsAborted
<1>1. IInv => CancellationIsAborted
  BY DEF IInv, AbortInv, CancellationIsAborted, Working, Preparing, Looping
<1>2. QED
  BY <1>1, Invariance, PTL

(* After an abort no iteration begins and no tool starts to execute.        *)
THEOREM AbortStopsWork == Spec => NothingStartsAfterAbort
<1>1. ASSUME IInv, [Next]_vars, aborted
      PROVE  iteration' = iteration /\ (pc' = "tool" => pc = "tool")
  <2> USE <1>1
  <2>1. ~CanContinue
    BY DEF CanContinue
  <2>2. ASSUME NEW failed, EndRound(failed)
        PROVE  iteration' = iteration /\ pc' # "tool"
    BY <2>1, <2>2 DEF EndRound, Settle
  <2>3. ASSUME NEW reason, NEW status, BeginRound(reason, status)
        PROVE  iteration' = iteration /\ pc' # "tool"
    BY <2>2, <2>3 DEF BeginRound
  <2>4. ASSUME LeaveLoop
        PROVE  iteration' = iteration /\ pc' # "tool"
    BY <2>3, <2>4 DEF LeaveLoop, Settle
  <2>5. ASSUME NEW status, LoopOrLeave(status)
        PROVE  iteration' = iteration /\ pc' # "tool"
    BY <2>1, <2>4, <2>5 DEF LoopOrLeave
  <2>6. CASE RunStep
    <3>1. CASE Start \/ BeforeRunReturns \/ WorkspacePrepared \/ RequestBuilt
      BY <3>1 DEF Start, BeforeRunReturns, WorkspacePrepared, RequestBuilt
    <3>2. CASE ContextPrepared \/ ModelAnswers \/ CheckpointReturns
      BY <2>3, <2>4, <2>5, <3>2 DEF ContextPrepared, ModelAnswers, CheckpointReturns
    <3>3. CASE ModelRequestsTools \/ BeforeToolReturns \/ ToolWrites \/ ToolSettles
                 \/ AfterToolReturns
      BY <3>3 DEF ModelRequestsTools, BeforeToolReturns, ToolWrites, ToolSettles,
           AfterToolReturns, control
    <3>4. CASE CommandExits \/ Throws
      BY <2>2, <3>4 DEF CommandExits, Throws, Settle, control
    <3>5. QED
      BY <2>6, <3>1, <3>2, <3>3, <3>4 DEF RunStep
  <2>7. CASE FinalizeStep
    BY <2>7 DEF FinalizeStep, RollbackReturns, RollbackThrows, SaveSettles, AfterRunSettles
  <2>8. CASE Environment
    BY <2>8 DEF Environment, Abort, LateWrite, AbandonedEnds, control
  <2>9. CASE UNCHANGED vars
    BY <2>9 DEF vars, control
  <2>10. QED
    BY <2>6, <2>7, <2>8, <2>9 DEF Next, Done
<1>2. QED
  BY <1>1, Invariance, PTL DEF Spec, NothingStartsAfterAbort

-----------------------------------------------------------------------------
(* A run implements RunContract: each of its steps is, seen from outside,   *)
(* a step of the contract or no step at all.                                *)

LEMMA ContractInit == Init => Contract!Init
BY DEF Init, Contract!Init, RunInput, Working

LEMMA ContractStep == ASSUME IInv, [Next]_vars
                      PROVE  [Contract!Next]_(Contract!contractVars)
<1> USE DEF IInv, TypeOK
<1>1. CASE \/ ContextPrepared \/ ModelAnswers \/ CheckpointReturns \/ Throws
           \/ CommandExits /\ commandsLeft = 1
  <2>1. pc \in Working /\ Continues /\ UNCHANGED <<input, rollback, disk, lifeVars, envVars>>
    BY <1>1, DecidingSteps
  <2>2. CASE Repeats \/ Verifies
    BY <2>1, <2>2 DEF Repeats, Verifies, Contract!contractVars, lifeVars, envVars, Working,
         Looping
  <2>3. ASSUME NEW reason \in StopReason, Stops(reason)
        PROVE  Contract!Settle
    <3>1. stopReason' = reason /\ pc' \in {"rollback", "save"}
      BY <2>3 DEF Stops, Settle
    <3>2. QED
      BY <2>1, <3>1 DEF Contract!Settle, Contract!Outcome, StopReason, lifeVars, envVars,
           Working, Preparing, Looping
  <2>4. QED
    BY <2>1, <2>2, <2>3 DEF Continues, Contract!Next
<1>2. CASE \/ Start \/ BeforeRunReturns \/ WorkspacePrepared \/ RequestBuilt
           \/ ModelRequestsTools \/ BeforeToolReturns \/ ToolSettles \/ AfterToolReturns
  <2>1. /\ pc \in Working /\ pc' \in Working
        /\ UNCHANGED <<input, rollback, disk, terminal, late>>
    BY <1>2 DEF Start, BeforeRunReturns, WorkspacePrepared, RequestBuilt, ModelRequestsTools,
         BeforeToolReturns, ToolSettles, AfterToolReturns, outcomeVars, changeVars, lifeVars,
         envVars, Working, Preparing, Looping
  <2>2. QED
    BY <2>1 DEF Contract!contractVars
<1>3. CASE ToolWrites \/ LateWrite
  <2>1. /\ TrackedWrite \/ FailedWrite
        /\ UNCHANGED <<control, outcomeVars, lifeVars>>
        /\ \/ pc \in Working /\ late' = late
           \/ late' = late \cup {IF pc \in Working THEN "working" ELSE "finalizing"}
    BY <1>3 DEF ToolWrites, LateWrite, envVars, Working, Looping
  <2>2. CASE "finalizing" \in late' \/ disk' = "lossy"
    BY <2>1, <2>2 DEF Contract!Next, Contract!StrayWrite, control, outcomeVars, lifeVars
  <2>3. CASE "finalizing" \notin late' /\ disk' # "lossy"
    <3>1. pc \in Working /\ "finalizing" \notin late
      BY <2>1, <2>3
    <3>2. disk' = "changed" /\ disk # "lossy"
      BY <2>1, <2>3 DEF TrackedWrite, FailedWrite
    <3>3. pc' = pc /\ UNCHANGED <<input, stopReason, rollback, terminal>>
      BY <2>1 DEF control, outcomeVars, lifeVars
    <3>4. Contract!Change
      BY <2>3, <3>1, <3>2, <3>3 DEF Contract!Change, ChangeType
    <3>5. QED
      BY <3>4 DEF Contract!Next
  <2>4. QED
    BY <2>2, <2>3
<1>4. CASE CommandExits /\ commandsLeft # 1
  BY <1>4 DEF CommandExits, Contract!contractVars, control, changeVars, lifeVars, envVars
<1>5. CASE RollbackReturns \/ RollbackThrows
  <2>1. /\ pc = "rollback" /\ pc' = "save"
        /\ rollback = "not_required"
        /\ stopReason # "completed" /\ input.rollbackOnFailure
        /\ UNCHANGED <<input, stopReason, terminal, late>>
    BY <1>5 DEF RollbackReturns, RollbackThrows, PendingInv, NeedsRollback, lifeVars, envVars
  <2>2. \/ rollback' = "completed" /\ disk' = DiskAfterRollback
        \/ rollback' \in {"partial", "failed"} /\ disk' = disk
    BY <1>5 DEF RollbackReturns, RollbackThrows, changeVars
  <2>3. ASSUME rollback' = "completed", disk' = DiskAfterRollback
        PROVE  Contract!Undo
    BY <2>1, <2>3 DEF DiskAfterRollback, Contract!Undo, ChangeType, Working, Preparing, Looping
  <2>4. ASSUME rollback' \in {"partial", "failed"}, disk' = disk
        PROVE  Contract!Undo
    BY <2>1, <2>4 DEF Contract!Undo, Working, Preparing, Looping
  <2>5. QED
    BY <2>2, <2>3, <2>4 DEF Contract!Next
<1>6. CASE SaveSettles
  BY <1>6 DEF SaveSettles, Contract!contractVars, changeVars, lifeVars, envVars, Working,
       Preparing, Looping
<1>7. CASE AfterRunSettles
  <2>1. Contract!LeftoversReported
    BY <1>7 DEF AfterRunSettles, ChangesInv, NeedsRollback, Contract!LeftoversReported, Working,
         Preparing, Looping
  <2>2. TerminalKind(stopReason) = Contract!TerminalOf(stopReason)
    BY DEF TerminalKind, Contract!TerminalOf
  <2>3. QED
    BY <1>7, <2>1, <2>2 DEF AfterRunSettles, Contract!Next, Contract!Close, changeVars, envVars,
         Working, Preparing, Looping
<1>8. CASE Abort \/ AbandonedEnds
  BY <1>8 DEF Abort, AbandonedEnds, Contract!contractVars, control, outcomeVars, changeVars,
       lifeVars
<1>9. CASE UNCHANGED vars
  BY <1>9 DEF vars, control, outcomeVars, changeVars, lifeVars, envVars, Contract!contractVars
<1>10. QED
  BY <1>1, <1>2, <1>3, <1>4, <1>5, <1>6, <1>7, <1>8, <1>9
     DEF Next, RunStep, FinalizeStep, Environment, Done

(* Everything RunContract promises of a run, the code's run does: the one   *)
(* outcome, the undo or its report, and the single terminal event sequence. *)
THEOREM Refinement == Spec => ImplementsContract
BY ContractInit, ContractStep, Invariance, PTL DEF Spec, ImplementsContract, Contract!Spec
===============================================================================
