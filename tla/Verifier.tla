------------------------------- MODULE Verifier -------------------------------
(***************************************************************************)
(* Verifier.verify (src/src/runtime/verification/verifier.ts) beside the   *)
(* tool calls of module Tools: what a run does with a response of the      *)
(* model.  Its calls are executed; a response that has none ends the loop  *)
(* of the run and is verified.                                             *)
(*                                                                         *)
(* The commands run one after the other, as child processes with a timer   *)
(* and an abort listener.  What the policy rejects fails without running.  *)
(* The verification does not look at the signal before it begins, or       *)
(* between two commands, and a listener added to a signal that was aborted *)
(* before is never called.                                                 *)
(*                                                                         *)
(* Bound: one response, and a verification only after one without calls (a *)
(* repair attempt verifies after its calls).  A tool that runs on shares   *)
(* nothing with the verification but the signal, which Init has aborted or *)
(* not.                                                                    *)
(***************************************************************************)
EXTENDS Tools

CONSTANT
  MaxCommands   \* bound: commands the configuration or the caller asks for

ASSUME VerifierAssumption == MaxCommands \in Nat \ {0}

VARIABLE
  verifier   \* the verification

roundVars == <<toolVars, verifier>>

(* selected: the commands are the workspace's own, not requested ones.     *)
(* does: the command at hand.  results: of the commands so far, whether    *)
(* they passed and how their process ended (history): by itself, killed,   *)
(* or never spawned.                                                       *)
Result == [passed : BOOLEAN, process : {"ended", "killed", "none"}]

Idle == [at |-> "idle", asked |-> 0, selected |-> FALSE, does |-> {}, child |-> "none",
         timer |-> "off", listens |-> FALSE, timedOut |-> FALSE, results |-> <<>>]

VerifierTypeOK ==
  /\ ToolsTypeOK
  /\ verifier.at \in {"idle", "running", "done", "threw"}
  /\ verifier.asked \in 0..MaxCommands
  /\ {verifier.selected, verifier.listens, verifier.timedOut} \subseteq BOOLEAN
  /\ verifier.does \subseteq Effects
  /\ verifier.child \in {"none", "alive", "told", "gone"}
  /\ verifier.timer \in {"off", "armed", "fired"}
  /\ verifier.results \in Seq(Result)

-----------------------------------------------------------------------------
ScriptCommand_RunLeftOut(manager, script) == <<manager, script>>

(* formatScriptCommand *)
ScriptCommand(manager, script) ==
  IF manager = "npm" THEN <<"npm", "run", script>> ELSE <<manager, script>>

(* The commands of the workspace: the first of these scripts it defines.   *)
SelectedCommands(profile) ==
  LET scripts == <<"typecheck", "build", "test">>
      defined(script) == script \in profile.scripts
      first == SelectInSeq(scripts, defined)
  IN  IF first = 0 THEN {} ELSE {ScriptCommand(Manager(profile), scripts[first])}

Rejected == [passed |-> FALSE, process |-> "none"]

(* runCommand: spawn, setTimeout and addEventListener.                     *)
Started(v, does) ==
  [v EXCEPT !.at = "running", !.does = does, !.child = "alive", !.timer = "armed",
            !.listens = ~aborted, !.timedOut = FALSE]

(* The loop of verify goes on: past the commands that are rejected, to the *)
(* next one that is not, or to the end.                                    *)
Continues(v, rulings) ==
  \E skipped \in 0..v.asked - Len(v.results) :
    LET w == [v EXCEPT !.results = @ \o [i \in 1..skipped |-> Rejected]] IN
    /\ skipped > 0 => \E r \in rulings : ~r.allowed
    /\ \/ /\ Len(w.results) = v.asked
          /\ verifier' = [w EXCEPT !.at = "done"]
       \/ /\ Len(w.results) < v.asked
          /\ \E does \in {r.does : r \in {q \in rulings : q.allowed}} :
               verifier' = Started(w, does)

(* VerificationPipeline.verify, with the requested commands or those the   *)
(* profile of the workspace selects.  A requested command is ruled on with *)
(* any profile, a selected one with the profile it was selected from.      *)
Verify ==
  /\ turn = NumCalls + 1
  /\ verifier.at = "idle"
  /\ \A c \in Calls : phase[c] = "queued"
  /\ \/ \E n \in 1..MaxCommands : Continues([verifier EXCEPT !.asked = n], Rulings)
     \/ \E profile \in Profiles :
          LET commands == SelectedCommands(profile)
              v == [verifier EXCEPT !.selected = TRUE, !.asked = Cardinality(commands)]
          IN  Continues(v, {Ruling(c, profile, {"verifies"}) : c \in commands})
  /\ UNCHANGED toolVars

(* clearTimeout and removeEventListener.                                   *)
Closed(v) ==
  [v EXCEPT !.child = "gone", !.timer = Disarmed(@), !.listens = FALSE]

HowItEnded(v) == IF v.child = "told" THEN "killed" ELSE "ended"

Verdict(v, exitCode) == exitCode = 0 /\ ~v.timedOut

CommandCloses ==
  /\ verifier.at = "running"
  /\ \E exitCode \in 0..1 :
       Continues([Closed(verifier) EXCEPT !.results =
                    Append(@, [passed  |-> Verdict(verifier, exitCode),
                               process |-> HowItEnded(verifier)])],
                 IF verifier.selected THEN {} ELSE Rulings)
  /\ UNCHANGED toolVars

(* The "error" event rejects the promise: verify throws.                   *)
CommandErrors ==
  /\ verifier.at = "running"
  /\ verifier' = [Closed(verifier) EXCEPT !.at = "threw"]
  /\ UNCHANGED toolVars

CommandTimesOut ==
  /\ verifier.timer = "armed"
  /\ verifier' = [verifier EXCEPT !.timer = "fired", !.timedOut = TRUE, !.child = Told(@)]
  /\ UNCHANGED toolVars

(* The abort of the run, heard by tools and verification.                  *)
AbortsBoth ==
  /\ Aborts
  /\ verifier' = IF verifier.listens
                 THEN [verifier EXCEPT !.listens = FALSE, !.timedOut = TRUE, !.child = Told(@)]
                 ELSE verifier

RoundInit == ToolsInit /\ verifier = Idle

RoundNext ==
  \/ \E c \in Calls : CallStep(c) /\ UNCHANGED verifier
  \/ AbortsBoth
  \/ Verify \/ CommandCloses \/ CommandErrors \/ CommandTimesOut
  \/ Finished /\ UNCHANGED roundVars

RoundSpec == RoundInit /\ [][RoundNext]_roundVars /\ Fairness

-----------------------------------------------------------------------------
(* Properties.                                                             *)

Harmless == {"reads", "verifies"}

NotLookedFor == {"branches", "option", "unseen"}

(* Whatever line a model writes for bash, or a caller or a configuration   *)
(* asks to verify with, what the policy knows of a process that is spawned *)
(* for it only reads or verifies: no rule, no category and no join that    *)
(* the parser looks for lets another command run, while nobody can be      *)
(* asked for approval.  What the policy does not look for is named: a      *)
(* branch that "git branch" makes, an option that a reading or a script is *)
(* given, and what stands behind a join of the shell that the parser does  *)
(* not know (a single "&", a newline, ">" glued to a word).                *)
OnlyHarmlessCommandsRun ==
  /\ verifier.does \subseteq Harmless \cup NotLookedFor
  /\ \A c \in Calls : body[c].does \subseteq Harmless \cup NotLookedFor

(* A verification tells the truth.  It has one result per command, none    *)
(* of its processes lives on, and a command passed only if its process     *)
(* ended by itself: one that was killed on time-out or abort may still     *)
(* exit with 0, and one that was rejected never ran.  And the verifier and *)
(* the policy agree about the workspace: the command the verifier selects  *)
(* is one the policy lets run, whatever package manager and scripts the    *)
(* scanner found.                                                          *)
VerdictIsEarned ==
  /\ verifier.at = "done" =>
       Len(verifier.results) = verifier.asked /\ verifier.child \in {"none", "gone"}
  /\ \A i \in DOMAIN verifier.results :
       /\ verifier.results[i].passed => verifier.results[i].process = "ended"
       /\ verifier.selected => verifier.results[i].process # "none"
=============================================================================
