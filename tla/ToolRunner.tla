------------------------------ MODULE ToolRunner ------------------------------
(***************************************************************************)
(* ToolRunner.run (src/src/tool/tool-runner.ts) for the tool calls of one  *)
(* model response, which ToolRuntime.execute (agent/runtime/tool-runtime)  *)
(* makes one after the other.                                              *)
(*                                                                         *)
(* A call is a race of the tool's own promise against a timer and the      *)
(* abort signal.  Losing the race does not stop the tool: its execution    *)
(* goes on, may stream output and may end later.  A tool that reacts       *)
(* synchronously to the signal can still win, because the runner aborts    *)
(* the signal before it settles its side of the race.  The tools           *)
(* themselves are in module Tools.                                         *)
(***************************************************************************)
EXTENDS Naturals, Sequences, FiniteSets

CONSTANTS
  NumCalls,     \* tool calls of the response
  HasTimeout,   \* FALSE when the caller passes timeoutMs: false
  MaxStreams    \* bound: stream events over all calls

ASSUME CallsAssumption ==
  /\ NumCalls \in Nat \ {0}
  /\ HasTimeout \in BOOLEAN
  /\ MaxStreams \in Nat

Calls == 1..NumCalls

VARIABLES
  turn,        \* the call ToolRuntime.execute is at
  phase,       \* per call: where run() is
  exec,        \* per call: the tool's own execution
  timer,       \* per call: "off", "armed" or "fired"
  listening,   \* per call: the abort listener is installed
  signalled,   \* per call: controller.signal.aborted
  result,      \* per call: the ToolResult, as its code
  events,      \* runner events emitted, in order
  streams,     \* stream events emitted
  aborted      \* the run's signal

vars == <<turn, phase, exec, timer, listening, signalled, result, events, streams, aborted>>

(* How a tool's promise settles by itself: with a result, or a throw of an *)
(* error, an AbortError, or a ToolError whose code is a timeout's or an    *)
(* abort's.                                                                *)
Ending == {"ok", "error", "threw", "threwAbort", "saysTimeout", "saysAborted"}
Code == {"ok", "error", "failed", "refused", "timeout", "aborted"}
Terminal == {"completed", "failed", "timed_out", "aborted"}
EventType == {"started", "streamed"} \cup Terminal

TypeOK ==
  /\ turn \in 1..NumCalls + 1
  /\ phase \in [Calls -> {"queued", "starting", "racing", "closing", "returned"}]
  /\ exec \in [Calls -> {"none", "running", "ended"}]
  /\ timer \in [Calls -> {"off", "armed", "fired"}]
  /\ listening \in [Calls -> BOOLEAN]
  /\ signalled \in [Calls -> BOOLEAN]
  /\ result \in [Calls -> Code \cup {"none"}]
  /\ events \in Seq(Calls \X EventType)
  /\ streams \in 0..MaxStreams
  /\ aborted \in BOOLEAN

(* A response may have no calls.                                           *)
Init ==
  /\ turn \in {1, NumCalls + 1}
  /\ phase = [c \in Calls |-> "queued"]
  /\ exec = [c \in Calls |-> "none"]
  /\ timer = [c \in Calls |-> "off"]
  /\ listening = [c \in Calls |-> FALSE]
  /\ signalled = [c \in Calls |-> FALSE]
  /\ result = [c \in Calls |-> "none"]
  /\ events = <<>>
  /\ streams = 0
  /\ aborted \in BOOLEAN

-----------------------------------------------------------------------------
(* toTerminalEvent *)
TerminalType(code) ==
  CASE code = "ok"      -> "completed"
    [] code = "timeout" -> "timed_out"
    [] code = "aborted" -> "aborted"
    [] OTHER            -> "failed"

CodeOfEnding_Raw(ending, sig) == ending

(* The catch block: an AbortError counts as an abort only once the tool's  *)
(* signal has been aborted; the code of a ToolError is taken as it is.     *)
CodeOfEnding(ending, sig) ==
  CASE ending = "threw"       -> "failed"
    [] ending = "threwAbort"  -> IF sig THEN "aborted" ELSE "failed"
    [] ending = "saysTimeout" -> "timeout"
    [] ending = "saysAborted" -> "aborted"
    [] OTHER                  -> ending

(* finalize: the result is fixed and its terminal event emitted.           *)
Close(c, code) ==
  /\ result' = [result EXCEPT ![c] = code]
  /\ phase' = [phase EXCEPT ![c] = "closing"]
  /\ events' = Append(events, <<c, TerminalType(code)>>)

(* ToolRuntime.execute reaches the call; run() emits its started event.    *)
Begin(c) ==
  /\ turn = c
  /\ phase[c] = "queued"
  /\ phase' = [phase EXCEPT ![c] = "starting"]
  /\ events' = Append(events, <<c, "started">>)
  /\ UNCHANGED <<turn, exec, timer, listening, signalled, result, streams, aborted>>

(* Unknown tool or invalid input.                                          *)
Refuse(c) ==
  /\ phase[c] = "starting"
  /\ Close(c, "refused")
  /\ UNCHANGED <<turn, exec, timer, listening, signalled, streams, aborted>>

InitialTimer_Never == "off"

InitialTimer == IF HasTimeout THEN "armed" ELSE "off"

(* createExecutionControl, the check of its signal, and tool.execute.      *)
Dispatch(c) ==
  /\ phase[c] = "starting"
  /\ listening' = [listening EXCEPT ![c] = ~aborted]
  /\ timer' = [timer EXCEPT ![c] = InitialTimer]
  /\ signalled' = [signalled EXCEPT ![c] = aborted]
  /\ \/ /\ ~aborted
        /\ exec' = [exec EXCEPT ![c] = "running"]
        /\ phase' = [phase EXCEPT ![c] = "racing"]
        /\ UNCHANGED <<result, events>>
     \/ /\ aborted
        /\ Close(c, "aborted")
        /\ UNCHANGED exec
  /\ UNCHANGED <<turn, streams, aborted>>

(* The tool's promise settles.  It wins if the race is still on; otherwise *)
(* nobody looks at it any more.                                            *)
Wins(c) == phase[c] = "racing"

ToolEnds(c, ending) ==
  /\ exec[c] = "running"
  /\ exec' = [exec EXCEPT ![c] = "ended"]
  /\ \/ /\ Wins(c)
        /\ Close(c, CodeOfEnding(ending, signalled[c]))
     \/ /\ ~Wins(c)
        /\ UNCHANGED <<phase, result, events>>
  /\ UNCHANGED <<turn, timer, listening, signalled, streams, aborted>>

(* The runner's side of the race settles with this code, unless the tool   *)
(* settles first, from within the abort event of its signal.               *)
GiveUp(c, code) ==
  \/ /\ Close(c, code)
     /\ UNCHANGED exec
  \/ /\ exec' = [exec EXCEPT ![c] = "ended"]
     /\ \E ending \in Ending : Close(c, CodeOfEnding(ending, TRUE))

TimerFires(c) ==
  /\ timer[c] = "armed"
  /\ timer' = [timer EXCEPT ![c] = "fired"]
  /\ signalled' = [signalled EXCEPT ![c] = TRUE]
  /\ \/ phase[c] = "racing" /\ GiveUp(c, "timeout")
     \/ phase[c] # "racing" /\ UNCHANGED <<phase, result, events, exec>>
  /\ UNCHANGED <<turn, listening, streams, aborted>>

(* The caller aborts the run.  Only the call at hand can be listening.     *)
AbortRun ==
  /\ ~aborted
  /\ aborted' = TRUE
  /\ signalled' = [c \in Calls |-> signalled[c] \/ listening[c]]
  /\ \/ \E c \in Calls : listening[c] /\ phase[c] = "racing" /\ GiveUp(c, "aborted")
     \/ /\ \A c \in Calls : ~(listening[c] /\ phase[c] = "racing")
        /\ UNCHANGED <<phase, result, events, exec>>
  /\ UNCHANGED <<turn, timer, listening, streams>>

(* The terminal event was delivered: control.cleanup(), and execute() goes *)
(* on to the next call.                                                    *)
Return(c) ==
  /\ phase[c] = "closing"
  /\ phase' = [phase EXCEPT ![c] = "returned"]
  /\ timer' = [timer EXCEPT ![c] = IF @ = "armed" THEN "off" ELSE @]
  /\ listening' = [listening EXCEPT ![c] = FALSE]
  /\ turn' = c + 1
  /\ UNCHANGED <<exec, signalled, result, events, streams, aborted>>

(* emitStream, which stays in the tool's hands after run() has returned.   *)
Stream(c) ==
  /\ exec[c] = "running"
  /\ streams < MaxStreams
  /\ streams' = streams + 1
  /\ events' = Append(events, <<c, "streamed">>)
  /\ UNCHANGED <<turn, phase, exec, timer, listening, signalled, result, aborted>>

Finished == turn = NumCalls + 1 /\ UNCHANGED vars

Next ==
  \/ \E c \in Calls :
       \/ Begin(c) \/ Refuse(c) \/ Dispatch(c) \/ TimerFires(c) \/ Return(c) \/ Stream(c)
       \/ \E ending \in Ending : ToolEnds(c, ending)
  \/ AbortRun
  \/ Finished

Spec == Init /\ [][Next]_vars

-----------------------------------------------------------------------------
(* Properties.                                                             *)

EventsOf(c) == {i \in DOMAIN events : events[i][1] = c}

TerminalsOf(c) == {i \in EventsOf(c) : events[i][2] \in Terminal}

(* The events of a call are: started, any streams, then exactly one        *)
(* terminal event, the one that fits the result run() resolves with.  Only *)
(* an execution the runner has given up on streams after that.             *)
EventProtocol ==
  \A c \in Calls :
    /\ \A i \in EventsOf(c) : events[i][2] = "started" <=> \A j \in EventsOf(c) : i <= j
    /\ IF result[c] = "none" THEN TerminalsOf(c) = {}
                             ELSE \E i \in EventsOf(c) : TerminalsOf(c) = {i}
    /\ \A i \in TerminalsOf(c) :
         /\ events[i][2] = CASE result[c] = "ok"      -> "completed"
                             [] result[c] = "timeout" -> "timed_out"
                             [] result[c] = "aborted" -> "aborted"
                             [] OTHER                 -> "failed"
         /\ (\E j \in EventsOf(c) : j > i) => result[c] \in {"timeout", "aborted"}

(* A tool that is still executing after its call was closed has been told  *)
(* to stop: the call timed out or was aborted, and its signal is aborted.  *)
GivenUpIsSignalled ==
  \A c \in Calls :
    exec[c] = "running" /\ result[c] # "none"
      => signalled[c] /\ result[c] \in {"timeout", "aborted"}

(* After an abort no tool of the response starts to execute, and a result  *)
(* once fixed is never replaced by the late outcome of its tool.           *)
SettledStep ==
  \A c \in Calls :
    /\ aborted /\ exec[c] = "none" => exec'[c] = "none"
    /\ result[c] # "none" => result'[c] = result[c]

SettledForGood == [][SettledStep]_vars
=============================================================================
