----------------------------- MODULE RunContract -----------------------------
(***************************************************************************)
(* What Agent.run() promises its caller, with every runtime module taken   *)
(* away.  A run works for a while, changing the workspace or not; it       *)
(* settles on one outcome; it may then undo its changes; and it closes by  *)
(* publishing exactly one terminal event sequence.  Module AgentRun, which *)
(* follows src/src/agent/agent.ts await by await, implements this.         *)
(***************************************************************************)
EXTENDS Sequences

VARIABLES
  wantsUndo,  \* rollbackOnFailure of this run
  phase,      \* "working", "finalizing" or "closed"
  outcome,    \* "pending" until the run settles, then its stop reason
  workspace,  \* "original", "changed" by the run, or "stray" (see StrayWrite)
  report,     \* finalization.rollback.status
  terminal    \* the terminal event sequences published so far

contractVars == <<wantsUndo, phase, outcome, workspace, report, terminal>>

Outcome == {"completed", "max_iterations", "aborted", "error"}
UndoReport == {"not_required", "completed", "partial", "failed"}

TerminalOf(o) == IF o = "error" THEN "failed" ELSE "stopped"

Init ==
  /\ wantsUndo \in BOOLEAN
  /\ phase = "working"
  /\ outcome = "pending"
  /\ workspace = "original"
  /\ report = "not_required"
  /\ terminal = <<>>

(* A tool of the run writes a file. *)
Change ==
  /\ phase = "working"
  /\ workspace # "stray"
  /\ workspace' = "changed"
  /\ UNCHANGED <<wantsUndo, phase, outcome, report, terminal>>

(* The run stops working, for one reason that never changes afterwards. *)
Settle ==
  /\ phase = "working"
  /\ phase' = "finalizing"
  /\ outcome' \in Outcome
  /\ UNCHANGED <<wantsUndo, workspace, report, terminal>>

(* A run that did not complete undoes its changes, or says it could not. *)
Undo ==
  /\ phase = "finalizing"
  /\ outcome # "completed"
  /\ wantsUndo
  /\ report = "not_required"
  /\ \/ /\ report' = "completed"
        /\ workspace' = IF workspace = "stray" THEN "stray" ELSE "original"
     \/ /\ report' \in {"partial", "failed"}
        /\ UNCHANGED workspace
  /\ UNCHANGED <<wantsUndo, phase, outcome, terminal>>

(* A change out of reach of the undo: a tool execution the runner gave up  *)
(* on writes after the run settled, a write fails half way, or a file the  *)
(* run created is written again.  The contract says nothing about the      *)
(* workspace from then on.                                                 *)
StrayWrite ==
  /\ workspace' = "stray"
  /\ UNCHANGED <<wantsUndo, phase, outcome, report, terminal>>

(* Leftovers of an unsuccessful run that wanted them undone are reported.  *)
LeftoversReported ==
  workspace = "changed" /\ outcome # "completed" /\ wantsUndo
    => report \in {"partial", "failed"}

Close ==
  /\ phase = "finalizing"
  /\ LeftoversReported
  /\ phase' = "closed"
  /\ terminal' = Append(terminal, TerminalOf(outcome))
  /\ UNCHANGED <<wantsUndo, outcome, workspace, report>>

Next == Change \/ Settle \/ Undo \/ StrayWrite \/ Close

Spec == Init /\ [][Next]_contractVars
=============================================================================
