------------------------------ MODULE AgentRun ------------------------------
(***************************************************************************)
(* One Agent.run(): runInternal, executeRun and finalizeRun of             *)
(* src/src/agent/agent.ts, the run state of agent/runtime/run-state.ts and *)
(* verifyAndRepair of agent/runtime/verification-pipeline.ts.              *)
(*                                                                         *)
(* The code is one async function.  Its control is therefore a program     *)
(* counter over the places where it awaits something, and an action is     *)
(* everything the function does between two awaits.  While it awaits, the  *)
(* caller may fire the abort signal, and a tool execution the runner has   *)
(* given up on (timeout, abort) may still write a file.  Every awaited     *)
(* call may throw.                                                         *)
(*                                                                         *)
(* Left to other modules: the race inside ToolRunner.run (ToolRunner), the *)
(* steps of a tracked write and of a rollback (ChangeTracker), and the     *)
(* delivery of events (EventBus).                                          *)
(***************************************************************************)
EXTENDS Naturals, Sequences

CONSTANTS
  MaxIterations,      \* input.maxIterations ?? runtime.maxIterations
  MaxRepairAttempts,  \* input.maxRepairAttempts ?? runtime.maxRepairAttempts
  MaxToolCalls,       \* bound: tool calls in one model response
  MaxCommands         \* bound: verification commands the policy allows

ASSUME BoundsAssumption ==
  /\ MaxIterations \in Nat \ {0}
  /\ MaxRepairAttempts \in Nat
  /\ MaxToolCalls \in Nat
  /\ MaxCommands \in Nat

VARIABLES
  (* the run: AgentRunState, and the local variables of executeRun *)
  pc,             \* the await the run is suspended at
  input,          \* the options of this run
  iteration,
  stopReason,
  taskStatus,
  calls,          \* tool calls of the current response not yet executed
  stage,          \* stage of the current model request: "agent" or "repair"
  repairAttempt,
  commandsLeft,   \* verification commands of this round not yet finished
  roundFailed,    \* some command of this round failed
  killed,         \* the abort listener killed the running command
  tracked,        \* the change tracker holds files
  dirty,          \* ... written since the last checkpoint
  rollback,       \* finalization.rollback.status
  issues,         \* stages of finalization.issues, those of observers left out
  registered,     \* the run is in activeRunsByTraceId
  terminal,       \* terminal event sequences emitted
  (* its environment *)
  aborted,        \* input.signal.aborted
  abandoned,      \* tool executions the runner gave up on, still running
  disk,           \* the workspace files: "original", "changed" by tracked
                  \* writes, or "lossy" (see TrackedWrite and FailedWrite)
  (* history, read by properties only *)
  abortedDuring,  \* what the run was doing when the signal fired
  late,           \* phases in which an abandoned execution wrote
  answered,       \* the last agent-stage response asked for no tool
  verdict,        \* of the last verification round
  unverified      \* files were written since that round started

control     == <<pc, input, stage, repairAttempt, iteration>>
outcomeVars == <<stopReason, taskStatus, rollback, issues>>
roundVars   == <<commandsLeft, roundFailed, killed>>
changeVars  == <<tracked, dirty, disk>>
lifeVars    == <<registered, terminal>>
envVars     == <<aborted, abortedDuring, abandoned, late>>
historyVars == <<answered, verdict, unverified>>

vars == <<control, outcomeVars, roundVars, changeVars, lifeVars, envVars,
          historyVars, calls>>

-----------------------------------------------------------------------------
RunInput == [verify: BOOLEAN, rollbackOnFailure: BOOLEAN,
             allowed: 0..MaxCommands, denied: BOOLEAN]

StopReason == {"completed", "max_iterations", "aborted", "error"}
TaskStatus == {"created", "planning", "executing", "verifying", "repairing",
               "completed", "cancelled", "failed"}
RollbackStatus == {"not_required", "completed", "partial", "failed"}

Looping    == {"build", "model", "beforeTool", "tool", "afterTool", "checkpoint"}
Preparing  == {"beforeRun", "workspace", "context"}
Working    == {"new"} \cup Preparing \cup Looping \cup {"verify"}
Finalizing == {"rollback", "save", "afterRun"}
Location   == Working \cup Finalizing \cup {"done"}

ControlType ==
  /\ pc \in Location
  /\ input \in RunInput
  /\ stage \in {"agent", "repair"}
  /\ repairAttempt \in 0..MaxRepairAttempts
  /\ iteration \in 0..MaxIterations

OutcomeType ==
  /\ stopReason \in StopReason
  /\ taskStatus \in TaskStatus
  /\ rollback \in RollbackStatus
  /\ issues \subseteq {"rollback", "memory", "middleware"}

RoundType ==
  /\ commandsLeft \in 0..MaxCommands
  /\ roundFailed \in BOOLEAN
  /\ killed \in BOOLEAN

ChangeType ==
  /\ tracked \in BOOLEAN
  /\ dirty \in BOOLEAN
  /\ disk \in {"original", "changed", "lossy"}

LifeType ==
  /\ registered \in BOOLEAN
  /\ terminal \in Seq({"failed", "stopped"})

EnvType ==
  /\ aborted \in BOOLEAN
  /\ abortedDuring \in {"never", "work", "verification", "finalization"}
  /\ abandoned \in Nat
  /\ late \subseteq {"working", "finalizing"}

HistoryType ==
  /\ answered \in BOOLEAN
  /\ verdict \in {"none", "passed", "failed"}
  /\ unverified \in BOOLEAN

TypeOK ==
  /\ ControlType /\ OutcomeType /\ RoundType /\ ChangeType
  /\ LifeType /\ EnvType /\ HistoryType
  /\ calls \in 0..MaxToolCalls

Init ==
  /\ pc = "new"
  /\ input \in RunInput
  /\ iteration = 0
  /\ stopReason = "completed"
  /\ taskStatus = "created"
  /\ calls = 0
  /\ stage = "agent"
  /\ repairAttempt = 0
  /\ commandsLeft = 0
  /\ roundFailed = FALSE
  /\ killed = FALSE
  /\ tracked = FALSE
  /\ dirty = FALSE
  /\ rollback = "not_required"
  /\ issues = {}
  /\ registered = FALSE
  /\ terminal = <<>>
  /\ aborted = FALSE
  /\ abandoned = 0
  /\ disk = "original"
  /\ abortedDuring = "never"
  /\ late = {}
  /\ answered = FALSE
  /\ verdict = "none"
  /\ unverified = FALSE

-----------------------------------------------------------------------------
(* Decisions of the code, each an operator of its own.                     *)

CanContinue_IgnoresAbort == iteration < MaxIterations

CanContinue_OneMore == ~aborted /\ iteration <= MaxIterations

CanContinue == ~aborted /\ iteration < MaxIterations

IterationAfter_NotCounted(i) == i

IterationAfter(i) == i + 1

(* run.fail(error) *)
FailReason == IF aborted THEN "aborted" ELSE "error"

LoopReason_IgnoresAbort ==
  IF iteration >= MaxIterations /\ stopReason = "completed"
  THEN "max_iterations" ELSE stopReason

(* Lines 308-312 of agent.ts.  "completed" is also the initial stopReason, *)
(* so a run that answered in its last allowed iteration is max_iterations. *)
LoopReason ==
  IF aborted THEN "aborted"
  ELSE IF iteration >= MaxIterations /\ stopReason = "completed"
       THEN "max_iterations"
       ELSE stopReason

NeedsRollback_OnErrorOnly(reason) == reason = "error" /\ input.rollbackOnFailure

NeedsRollback(reason) == reason # "completed" /\ input.rollbackOnFailure

FinalStatus_AbortFails(reason) ==
  IF reason = "completed" THEN "completed" ELSE "failed"

FinalStatus(reason) ==
  CASE reason = "completed" -> "completed"
    [] reason = "aborted"   -> "cancelled"
    [] OTHER                -> "failed"

(* "stopped" stands for the events of runCompleted, "failed" for runFailed. *)
TerminalKind(reason) == IF reason = "error" THEN "failed" ELSE "stopped"

(* A command that the abort listener killed is never reported as passed.   *)
CommandPassed(exitedZero) == exitedZero /\ ~killed

VerdictReason_LostOnBreak(failed) ==
  IF failed /\ CanContinue THEN "error" ELSE "completed"

(* The stop reason verifyAndRepair ends with.                              *)
VerdictReason(failed) == IF failed THEN "error" ELSE "completed"

-----------------------------------------------------------------------------
(* Synchronous continuations shared by several actions.                    *)

(* The run stops working for this reason and starts finalizeRun: rollback  *)
(* if it is wanted and the tracker holds files, otherwise straight to save. *)
Settle(reason) ==
  /\ stopReason' = reason
  /\ \/ /\ NeedsRollback(reason) /\ tracked
        /\ pc' = "rollback"
        /\ UNCHANGED taskStatus
     \/ /\ ~(NeedsRollback(reason) /\ tracked)
        /\ pc' = "save"
        /\ taskStatus' = FinalStatus(reason)

(* run.nextIteration() and the request that follows it.                    *)
NextIteration(newStage) ==
  /\ iteration' = IterationAfter(iteration)
  /\ stage' = newStage
  /\ pc' = "build"

(* The end of a verification round: another repair attempt if the round    *)
(* failed and one is left, otherwise the verdict becomes the stop reason.  *)
EndRound(failed) ==
  LET retry == failed /\ repairAttempt < MaxRepairAttempts /\ CanContinue IN
  /\ verdict' = IF failed THEN "failed" ELSE "passed"
  /\ \/ /\ retry
        /\ NextIteration("repair")
        /\ repairAttempt' = repairAttempt + 1
        /\ taskStatus' = "repairing"
        /\ UNCHANGED stopReason
     \/ /\ ~retry
        /\ Settle(VerdictReason(failed))
        /\ UNCHANGED <<iteration, stage, repairAttempt>>

(* Verifier.verify: a command the policy rejects fails without running.    *)
BeginRound(reason, status) ==
  /\ commandsLeft' = input.allowed
  /\ roundFailed' = input.denied
  /\ killed' = FALSE
  /\ unverified' = FALSE
  /\ \/ /\ input.allowed = 0
        /\ EndRound(input.denied)
     \/ /\ input.allowed > 0
        /\ pc' = "verify"
        /\ stopReason' = reason
        /\ taskStatus' = status
        /\ UNCHANGED <<iteration, stage, repairAttempt, verdict>>

(* What executeRun does after the model/tool loop.                         *)
LeaveLoop ==
  \/ /\ LoopReason = "aborted" \/ ~input.verify
     /\ Settle(LoopReason)
     /\ UNCHANGED <<iteration, stage, repairAttempt, roundVars, verdict, unverified>>
  \/ /\ LoopReason # "aborted" /\ input.verify
     /\ BeginRound(LoopReason, "verifying")

(* The head of the model/tool loop.                                        *)
LoopOrLeave(status) ==
  \/ /\ CanContinue
     /\ NextIteration("agent")
     /\ taskStatus' = status
     /\ UNCHANGED <<stopReason, repairAttempt, roundVars, verdict, unverified>>
  \/ /\ ~CanContinue
     /\ LeaveLoop

-----------------------------------------------------------------------------
(* runInternal and executeRun, up to the loop.                             *)

Start ==
  /\ pc = "new"
  /\ pc' = "beforeRun"
  /\ registered' = TRUE
  /\ UNCHANGED <<input, iteration, stage, repairAttempt, outcomeVars, roundVars,
                 changeVars, terminal, envVars, historyVars, calls>>

BeforeRunReturns ==
  /\ pc = "beforeRun"
  /\ pc' = "workspace"
  /\ taskStatus' = "planning"
  /\ UNCHANGED <<input, iteration, stage, repairAttempt, stopReason, rollback, issues,
                 roundVars, changeVars, lifeVars, envVars, historyVars, calls>>

(* workspace.prepare returned; changes.prepare gives the run its tracker.  *)
WorkspacePrepared ==
  /\ pc = "workspace"
  /\ pc' = "context"
  /\ UNCHANGED <<input, iteration, stage, repairAttempt, outcomeVars, roundVars,
                 changeVars, lifeVars, envVars, historyVars, calls>>

ContextPrepared ==
  /\ pc = "context"
  /\ LoopOrLeave("executing")
  /\ UNCHANGED <<input, rollback, issues, changeVars, lifeVars, envVars, answered, calls>>

(* The model/tool loop and, with stage = "repair", a repair attempt.       *)
RequestBuilt ==
  /\ pc = "build"
  /\ pc' = "model"
  /\ UNCHANGED <<input, iteration, stage, repairAttempt, outcomeVars, roundVars,
                 changeVars, lifeVars, envVars, historyVars, calls>>

ModelAnswers ==
  /\ pc = "model"
  /\ stage = "agent"
  /\ answered' = TRUE
  /\ LeaveLoop
  /\ UNCHANGED <<input, rollback, issues, changeVars, lifeVars, envVars, calls>>

ModelRequestsTools ==
  /\ pc = "model"
  /\ \E n \in 0..MaxToolCalls :
       /\ n > 0 \/ stage = "repair"
       /\ calls' = n
       /\ pc' = IF n > 0 THEN "beforeTool" ELSE "checkpoint"
  /\ answered' = (answered /\ stage = "repair")
  /\ UNCHANGED <<input, iteration, stage, repairAttempt, outcomeVars, roundVars,
                 changeVars, lifeVars, envVars, verdict, unverified>>

(* ToolRunner.run starts the tool unless the run is aborted; an unknown    *)
(* tool or an invalid input is refused as well.                            *)
BeforeToolReturns ==
  /\ pc = "beforeTool"
  /\ \/ ~aborted /\ pc' = "tool"
     \/ pc' = "afterTool"
  /\ UNCHANGED <<input, iteration, stage, repairAttempt, outcomeVars, roundVars,
                 changeVars, lifeVars, envVars, historyVars, calls>>

(* A write through the tracker.  Writing again a file the run has created  *)
(* overwrites the fact that it did not exist (writeFile, module            *)
(* ChangeTracker): what rollback then restores is not the original state.  *)
TrackedWrite ==
  /\ tracked' = TRUE
  /\ dirty' = TRUE
  /\ unverified' = TRUE
  /\ \/ disk' = IF disk = "lossy" THEN "lossy" ELSE "changed"
     \/ tracked /\ disk' = "lossy"

(* A write that fails half way changes a file the tracker never records.   *)
FailedWrite ==
  /\ disk' = "lossy"
  /\ unverified' = TRUE
  /\ UNCHANGED <<tracked, dirty>>

ToolWrites ==
  /\ pc = "tool"
  /\ TrackedWrite \/ FailedWrite
  /\ UNCHANGED <<control, outcomeVars, roundVars, lifeVars, envVars, answered,
                 verdict, calls>>

(* The tool returned, or lost the race against its timeout or the abort    *)
(* signal; then its execution goes on without the run.                     *)
ToolSettles ==
  /\ pc = "tool"
  /\ pc' = "afterTool"
  /\ abandoned' \in {abandoned, abandoned + 1}
  /\ UNCHANGED <<input, iteration, stage, repairAttempt, outcomeVars, roundVars,
                 changeVars, lifeVars, aborted, abortedDuring, late, historyVars, calls>>

AfterToolReturns ==
  /\ pc = "afterTool"
  /\ calls' = calls - 1
  /\ pc' = IF calls > 1 THEN "beforeTool" ELSE "checkpoint"
  /\ UNCHANGED <<input, iteration, stage, repairAttempt, outcomeVars, roundVars,
                 changeVars, lifeVars, envVars, historyVars>>

CheckpointReturns ==
  /\ pc = "checkpoint"
  /\ dirty' = FALSE
  /\ \/ stage = "agent" /\ LoopOrLeave(taskStatus)
     \/ stage = "repair" /\ BeginRound(stopReason, taskStatus)
  /\ UNCHANGED <<input, rollback, issues, tracked, disk, lifeVars, envVars, answered, calls>>

(* A verification command closes; after the last one the round ends.       *)
CommandExits ==
  /\ pc = "verify"
  /\ commandsLeft' = commandsLeft - 1
  /\ killed' = FALSE
  /\ \E exitedZero \in BOOLEAN :
       LET failed == roundFailed \/ ~CommandPassed(exitedZero) IN
       /\ roundFailed' = failed
       /\ \/ commandsLeft = 1 /\ EndRound(failed)
          \/ commandsLeft > 1 /\ UNCHANGED <<control, stopReason, taskStatus, verdict>>
  /\ UNCHANGED <<input, rollback, issues, changeVars, lifeVars, envVars, answered,
                 unverified, calls>>

(* Any awaited call but ToolRunner.run may throw; runInternal catches it.  *)
Throws ==
  /\ pc \in Preparing \cup (Looping \ {"tool"}) \cup {"verify"}
  /\ Settle(FailReason)
  /\ UNCHANGED <<input, iteration, stage, repairAttempt, rollback, issues, roundVars,
                 changeVars, lifeVars, envVars, historyVars, calls>>

-----------------------------------------------------------------------------
(* finalizeRun.                                                            *)

(* What a completed rollback leaves: a write that slipped in meanwhile, or *)
(* one the tracker could not follow, stays on disk.                        *)
DiskAfterRollback_Untouched == disk

DiskAfterRollback == IF "finalizing" \in late \/ disk = "lossy" THEN disk ELSE "original"

RollbackReturns ==
  /\ pc = "rollback"
  /\ \/ /\ rollback' = "completed"
        /\ tracked' = FALSE
        /\ dirty' = FALSE
        /\ disk' = DiskAfterRollback
     \/ /\ rollback' \in {"partial", "failed"}
        /\ UNCHANGED changeVars
  /\ pc' = "save"
  /\ taskStatus' = FinalStatus(stopReason)
  /\ UNCHANGED <<input, iteration, stage, repairAttempt, stopReason, issues, roundVars,
                 lifeVars, envVars, historyVars, calls>>

RollbackThrows ==
  /\ pc = "rollback"
  /\ rollback' = "failed"
  /\ issues' = issues \cup {"rollback"}
  /\ pc' = "save"
  /\ taskStatus' = FinalStatus(stopReason)
  /\ UNCHANGED <<input, iteration, stage, repairAttempt, stopReason, roundVars,
                 changeVars, lifeVars, envVars, historyVars, calls>>

SaveSettles ==
  /\ pc = "save"
  /\ issues' \in {issues, issues \cup {"memory"}}
  /\ pc' = "afterRun"
  /\ UNCHANGED <<input, iteration, stage, repairAttempt, stopReason, taskStatus, rollback,
                 roundVars, changeVars, lifeVars, envVars, historyVars, calls>>

(* afterAgentRun settled either way: terminal events, then the cleanup.    *)
AfterRunSettles ==
  /\ pc = "afterRun"
  /\ issues' \in {issues, issues \cup {"middleware"}}
  /\ terminal' = Append(terminal, TerminalKind(stopReason))
  /\ registered' = FALSE
  /\ pc' = "done"
  /\ UNCHANGED <<input, iteration, stage, repairAttempt, stopReason, taskStatus, rollback,
                 roundVars, changeVars, envVars, historyVars, calls>>

-----------------------------------------------------------------------------
(* The environment.                                                        *)

Abort ==
  /\ ~aborted
  /\ pc # "done"
  /\ aborted' = TRUE
  /\ killed' = (pc = "verify")
  /\ abortedDuring' = CASE pc = "verify" \/ (stage = "repair" /\ pc \in Working) -> "verification"
                        [] pc \in Finalizing -> "finalization"
                        [] OTHER -> "work"
  /\ UNCHANGED <<control, outcomeVars, commandsLeft, roundFailed, changeVars, lifeVars,
                 abandoned, late, historyVars, calls>>

(* A tool execution that lost its race finishes a file write; it counts    *)
(* for the phase in which it finishes.                                     *)
LateWrite ==
  /\ abandoned > 0
  /\ TrackedWrite \/ FailedWrite
  /\ late' = late \cup {IF pc \in Working THEN "working" ELSE "finalizing"}
  /\ UNCHANGED <<control, outcomeVars, roundVars, lifeVars, aborted, abortedDuring,
                 abandoned, answered, verdict, calls>>

AbandonedEnds ==
  /\ abandoned > 0
  /\ abandoned' = abandoned - 1
  /\ UNCHANGED <<control, outcomeVars, roundVars, changeVars, lifeVars, aborted,
                 abortedDuring, late, historyVars, calls>>

Done == pc = "done" /\ UNCHANGED vars

RunStep ==
  \/ Start \/ BeforeRunReturns \/ WorkspacePrepared \/ ContextPrepared
  \/ RequestBuilt \/ ModelAnswers \/ ModelRequestsTools
  \/ BeforeToolReturns \/ ToolWrites \/ ToolSettles \/ AfterToolReturns
  \/ CheckpointReturns \/ CommandExits \/ Throws

FinalizeStep ==
  RollbackReturns \/ RollbackThrows \/ SaveSettles \/ AfterRunSettles

Environment == Abort \/ LateWrite \/ AbandonedEnds

Next == RunStep \/ FinalizeStep \/ Environment \/ Done

(* ToolRunner bounds every tool by a timeout, and Start awaits nothing.    *)
(* Every other await hangs as long as the provider, hook, file system,     *)
(* memory or verification command behind it does: runCommand kills the     *)
(* shell it has started, but waits for the pipes that the shell's children *)
(* hold.                                                                   *)
Fairness ==
  /\ WF_vars(Start)
  /\ WF_vars(ToolSettles)

Spec == Init /\ [][Next]_vars

FairSpec == Spec /\ Fairness

-----------------------------------------------------------------------------
(* Properties.                                                             *)

(* Exactly one terminal event sequence is published, by the step that ends *)
(* the run, and it agrees with the stop reason and the task status the     *)
(* caller gets (observer.runTerminated, finalizeTaskStatus).               *)
OneConsistentTerminal ==
  /\ pc # "done" => terminal = <<>>
  /\ pc = "done" =>
       /\ terminal = <<IF stopReason = "error" THEN "failed" ELSE "stopped">>
       /\ stopReason = "completed" <=> taskStatus = "completed"
       /\ stopReason = "aborted" <=> taskStatus = "cancelled"
       /\ ~registered

(* An unsuccessful run that asked for rollback leaves no change on disk,   *)
(* or its result says that the rollback was partial or failed.  Writes of  *)
(* abandoned tool executions after the run had settled, and those that the *)
(* tracker cannot undo (disk is "lossy"), are outside of it.               *)
FailedRunLeavesNothing ==
  /\ pc = "done"
  /\ stopReason # "completed"
  /\ input.rollbackOnFailure
  /\ disk = "changed"
  /\ "finalizing" \notin late
  => rollback \in {"partial", "failed"}

(* Success is earned.  With verification on, every command has passed in a *)
(* round that saw the files as they are now (verifyAndRepair verifies      *)
(* after each repair), unless an abandoned tool wrote meanwhile; such a    *)
(* round makes even a run a success whose iterations ran out.  Without it, *)
(* the model has answered: a run whose model was still asking for tools    *)
(* when its iterations ran out does not report success ("stops at          *)
(* maxIterations when the model keeps requesting tools", tests/agent/      *)
(* runtime-loop.test.ts:621).                                              *)
SuccessIsEarned ==
  pc = "done" /\ stopReason = "completed" =>
    IF input.verify THEN verdict = "passed" /\ (unverified => late # {})
                    ELSE answered

(* A run is a cancelled one because it was aborted while it worked, and a  *)
(* signal that fires before verification has begun always makes it one,    *)
(* whatever else fails on the way out; an abort that arrives while the run *)
(* finalizes does not rewrite the outcome.                                 *)
CancellationIsAborted ==
  /\ stopReason = "aborted" => abortedDuring \in {"work", "verification"}
  /\ pc = "done" /\ abortedDuring = "work" => stopReason = "aborted"

(* Once the signal has fired no iteration of either loop begins and no     *)
(* tool starts to execute (canContinue, and the check in ToolRunner.run).  *)
NothingStartsAfterAbort ==
  [][aborted => /\ iteration' = iteration
                /\ pc' = "tool" => pc = "tool"]_vars

(* The run implements the promise of RunContract.                          *)
Contract == INSTANCE RunContract WITH
  wantsUndo <- input.rollbackOnFailure,
  phase     <- IF pc \in Working THEN "working"
               ELSE IF pc = "done" THEN "closed" ELSE "finalizing",
  outcome   <- IF pc \in Working THEN "pending" ELSE stopReason,
  workspace <- IF "finalizing" \in late \/ disk = "lossy" THEN "stray" ELSE disk,
  report    <- rollback

ImplementsContract == Contract!Spec

(* A run ends, unless one call that the code awaits without a bound never  *)
(* settles: it neither loops for ever nor hangs in a tool.                 *)
UnboundedAwaits ==
  (Preparing \cup Looping \cup {"verify"} \cup Finalizing) \ {"tool"}

EndsUnlessHung ==
  <>(pc = "done") \/ \E place \in UnboundedAwaits : <>[](pc = place)

-----------------------------------------------------------------------------
(* What tests and comments of the repository claim, and the code does not  *)
(* do in every case.                                                       *)

(* "treats abort as cancellation and rolls back changes"                   *)
(* (tests/agent/runtime-loop.test.ts:861): a signal that fires while the   *)
(* run is still working makes it a cancelled run.                          *)
AbortIsCancellation ==
  pc = "done" /\ abortedDuring \in {"work", "verification"}
    => stopReason = "aborted"
=============================================================================
