----------------------------- MODULE VerifierProofs -----------------------------
(***************************************************************************)
(* Proofs about a round of a run, for any number of calls, of streamed     *)
(* events and of commands, and for any table of commands and profile of a  *)
(* workspace that keeps the assumptions of module CommandPolicy.           *)
(*                                                                         *)
(* The first part is about the calls: what goes on after the runner has    *)
(* given up a call, the protocol of the events, and the cause that a       *)
(* result names.  The inductive invariant IInv relates the runner's side   *)
(* of a call to the body of its tool; EventInv and CauseInv follow the     *)
(* events and the causes along it.  The second part is about the policy    *)
(* and the verification: what is let run, what a verdict is worth, and the *)
(* types of a round.                                                       *)
(***************************************************************************)
EXTENDS Verifier, SequenceTheorems, FiniteSetTheorems, WellFoundedInduction, TLAPS

BodySet == [tool : Kinds \cup {"none"}, at : Places, child : {"none", "alive", "told", "gone"},
            timer : {"off", "armed", "fired"}, listens : BOOLEAN,
            does : Permitted \cup {{}}]

TypesInv ==
  /\ phase \in [Calls -> {"queued", "starting", "racing", "closing", "returned"}]
  /\ exec \in [Calls -> {"none", "running", "ended"}]
  /\ signalled \in [Calls -> BOOLEAN]
  /\ result \in [Calls -> Code \cup {"none"}]
  /\ aborted \in BOOLEAN
  /\ body \in [Calls -> BodySet]
  /\ available \in {"unknown", "yes", "no"}

(* A call has a result once it is closed; its tool executes from then on   *)
(* only if it was given up.                                                *)
CallOK(c) ==
  /\ result[c] = "none" <=> phase[c] \in {"queued", "starting", "racing"}
  /\ phase[c] \in {"queued", "starting"} => exec[c] = "none"
  /\ phase[c] = "racing" => exec[c] = "running"
  /\ exec[c] = "running" <=> body[c].at \notin {"none", "ended"}
  /\ exec[c] = "running" /\ result[c] # "none" =>
       signalled[c] /\ result[c] \in {"timeout", "aborted"}

(* A process that lives is one that an abort of its call's signal kills,   *)
(* or that of a search, which has a timer of its own.                      *)
BodyOK(b, sig) ==
  /\ b.child \in {"alive", "told"} => b.at \in {"shell", "probe", "search", "list"}
  /\ b.child = "alive" /\ b.at = "shell" => b.listens /\ ~sig
  /\ b.child = "alive" /\ b.at # "shell" => b.timer = "armed"
  /\ b.timer = "armed" => b.at \notin {"none", "ended"}

IInv == TypesInv /\ \A c \in Calls : CallOK(c) /\ BodyOK(body[c], signalled[c])

(* What NothingBegunAfterGivingUp says of a step.                          *)
BeginsNothing ==
  /\ SettledStep
  /\ \A c \in Calls :
       result[c] # "none" /\ body'[c].at \in {"shell", "writing"} => body'[c].at = body[c].at

-----------------------------------------------------------------------------
(* What the helpers make of a body.                                        *)

LEMMA RestedType ==
  ASSUME NEW b \in BodySet, NEW at \in Places
  PROVE  /\ Rested(b, at) \in BodySet /\ Rested(b, at).at = at
         /\ Rested(b, at).child \in {"none", "gone"} /\ Rested(b, at).timer # "armed"
<1>1. Reaped(b.child) \in {"none", "gone"} /\ Disarmed(b.timer) \in {"off", "fired"}
  BY DEF Reaped, Disarmed, BodySet
<1>2. ASSUME NEW child \in {"none", "gone"}, NEW t \in {"off", "fired"}
      PROVE  LET r == [b EXCEPT !.at = at, !.child = child, !.timer = t, !.listens = FALSE,
                                !.does = {}]
             IN  r \in BodySet /\ r.at = at /\ r.child = child /\ r.timer = t
  BY DEF BodySet
<1>3. QED
  BY <1>1, <1>2 DEF Rested

LEMMA SpawnedType ==
  ASSUME NEW b \in BodySet, NEW at \in Places, NEW listens \in BOOLEAN
  PROVE  /\ Spawned(b, at, listens) \in BodySet
         /\ Spawned(b, at, listens).at = at /\ Spawned(b, at, listens).child = "alive"
         /\ Spawned(b, at, listens).timer = "armed"
         /\ Spawned(b, at, listens).listens = listens
BY DEF Spawned, BodySet

LEMMA ToldType ==
  ASSUME NEW child \in {"none", "alive", "told", "gone"}
  PROVE  Told(child) \in {"none", "told", "gone"} /\ (Told(child) = "told" => child \in {"alive", "told"})
BY DEF Told

(* Every ending has a code.                                                *)
LEMMA EndingCode ==
  ASSUME NEW ending \in Ending, NEW sig \in BOOLEAN
  PROVE  CodeOfEnding(ending, sig) \in Code
BY DEF CodeOfEnding, Ending, Code

LEMMA InitInv == RoundInit => IInv
<1> SUFFICES ASSUME RoundInit PROVE IInv
  OBVIOUS
<1>1. NoBody \in BodySet /\ NoBody.at = "none" /\ NoBody.child = "none" /\ NoBody.timer = "off"
  BY DEF NoBody, BodySet, Places
<1>2. TypesInv
  BY <1>1 DEF RoundInit, ToolsInit, Init, TypesInv
<1>3. \A c \in Calls : CallOK(c) /\ BodyOK(body[c], signalled[c])
  BY <1>1 DEF RoundInit, ToolsInit, Init, CallOK, BodyOK
<1>4. QED
  BY <1>2, <1>3 DEF IInv

-----------------------------------------------------------------------------
(* The ways in which a step changes a call.                                *)

(* A body goes from one await to the next.                                 *)
LEMMA MoveKeeps ==
  ASSUME IInv, NEW c \in Calls, NEW b \in BodySet, Goes(c, b), exec[c] = "running",
         available' \in {"unknown", "yes", "no"},
         b.at \notin {"none", "ended"}, BodyOK(b, signalled[c]),
         b.at \in {"shell", "writing"} => b.at = body[c].at \/ ~signalled[c]
  PROVE  IInv' /\ BeginsNothing
<1> USE DEF IInv
<1>1. body' = [body EXCEPT ![c] = b]
      /\ UNCHANGED <<phase, exec, signalled, result, aborted>>
  BY DEF Goes, vars
<1>2. TypesInv'
  BY <1>1 DEF TypesInv
<1>3. \A d \in Calls : CallOK(d)' /\ BodyOK(body[d], signalled[d])'
  BY <1>1 DEF TypesInv, CallOK, BodyOK
<1>4. BeginsNothing
  BY <1>1 DEF BeginsNothing, SettledStep, TypesInv, CallOK
<1>5. QED
  BY <1>2, <1>3, <1>4

(* A body ends, and with it its call if that is still open.                *)
LEMMA EndKeeps ==
  ASSUME IInv, NEW c \in Calls, NEW ending \in Ending, Ends(c, ending),
         available' \in {"unknown", "yes", "no"}
  PROVE  IInv' /\ BeginsNothing
<1> USE DEF IInv
<1>1. /\ exec[c] = "running" /\ exec' = [exec EXCEPT ![c] = "ended"]
      /\ UNCHANGED <<signalled, aborted>>
  BY DEF Ends, ToolEnds
<1>2. PICK b \in BodySet : /\ body' = [body EXCEPT ![c] = b]
                           /\ b.at = "ended" /\ b.child \in {"none", "gone"}
                           /\ b.timer # "armed"
  BY RestedType DEF Ends, TypesInv, Places
<1>3. PICK code \in Code :
        \/ /\ phase[c] = "racing" /\ phase' = [phase EXCEPT ![c] = "closing"]
           /\ result' = [result EXCEPT ![c] = code]
        \/ phase[c] # "racing" /\ UNCHANGED <<phase, result>>
  BY EndingCode DEF Ends, ToolEnds, Wins, Close, TypesInv, Code
<1>4. "none" \notin Code
  BY DEF Code
<1>5. TypesInv'
  BY <1>1, <1>2, <1>3 DEF TypesInv
<1>6. \A d \in Calls : CallOK(d)' /\ BodyOK(body[d], signalled[d])'
  BY <1>1, <1>2, <1>3, <1>4 DEF TypesInv, CallOK, BodyOK
<1>7. BeginsNothing
  BY <1>1, <1>2, <1>3 DEF BeginsNothing, SettledStep, TypesInv, CallOK
<1>8. QED
  BY <1>5, <1>6, <1>7

(* Signals are aborted and heard.  A call that is closed by it either has  *)
(* ended within the abort event, or has been given up.                     *)
GivesUp(c) ==
  /\ phase[c] = "racing" /\ phase'[c] = "closing" /\ result'[c] \in Code
  /\ \/ exec'[c] = "ended"
     \/ exec'[c] = exec[c] /\ signalled'[c] /\ result'[c] \in {"timeout", "aborted"}

SignalFacts ==
  /\ phase' \in [Calls -> {"queued", "starting", "racing", "closing", "returned"}]
  /\ exec' \in [Calls -> {"none", "running", "ended"}]
  /\ signalled' \in [Calls -> BOOLEAN]
  /\ result' \in [Calls -> Code \cup {"none"}]
  /\ aborted' \in BOOLEAN
  /\ \A c \in Calls :
       /\ signalled[c] => signalled'[c]
       /\ \/ GivesUp(c)
          \/ phase'[c] = phase[c] /\ exec'[c] = exec[c] /\ result'[c] = result[c]

LEMMA SignalKeeps ==
  ASSUME IInv, SignalFacts, SignalsHeard
  PROVE  IInv' /\ BeginsNothing
<1> USE DEF IInv
<1>1. ASSUME NEW c \in Calls
      PROVE  /\ body'[c] \in BodySet /\ body'[c].at = IF exec'[c] # exec[c] THEN "ended" ELSE body[c].at
             /\ BodyOK(body'[c], signalled'[c])
  <2>1. CASE exec'[c] # exec[c]
    <3>1. body'[c] = Rested(body[c], "ended") /\ "ended" \in Places /\ body[c] \in BodySet
      BY <2>1 DEF SignalsHeard, TypesInv, Places
    <3>2. QED
      BY <2>1, <3>1, RestedType DEF BodyOK
  <2>2. CASE exec'[c] = exec[c] /\ signalled'[c] /\ body[c].listens
    <3>1. body'[c] = [body[c] EXCEPT !.child = Told(@), !.listens = FALSE]
      BY <2>2 DEF SignalsHeard, Heard
    <3>2. body[c] \in BodySet /\ body[c].child \in {"none", "alive", "told", "gone"}
      BY DEF TypesInv, BodySet
    <3>3. /\ body'[c] \in BodySet /\ body'[c].at = body[c].at /\ body'[c].timer = body[c].timer
          /\ body'[c].child \in {"none", "told", "gone"}
          /\ body'[c].child = "told" => body[c].child \in {"alive", "told"}
      BY <3>1, <3>2, ToldType DEF BodySet
    <3>4. BodyOK(body[c], signalled[c])
      OBVIOUS
    <3>5. QED
      BY <2>2, <3>3, <3>4 DEF BodyOK
  <2>3. CASE exec'[c] = exec[c] /\ ~(signalled'[c] /\ body[c].listens)
    BY <2>3 DEF SignalsHeard, SignalFacts, TypesInv, BodyOK
  <2>4. QED
    BY <2>1, <2>2, <2>3 DEF SignalFacts
<1>2. body' \in [Calls -> BodySet] /\ available' = available
  BY <1>1 DEF SignalsHeard
<1>3. "none" \notin Code
  BY DEF Code
<1>4. TypesInv'
  BY <1>2 DEF TypesInv, SignalFacts
<1>5. \A c \in Calls : CallOK(c)'
  BY <1>1, <1>3 DEF SignalFacts, GivesUp, TypesInv, CallOK
<1>6. SettledStep
  BY DEF SettledStep, SignalFacts, GivesUp, TypesInv, CallOK
<1>7. ASSUME NEW c \in Calls, result[c] # "none", body'[c].at \in {"shell", "writing"}
      PROVE  body'[c].at = body[c].at
  BY <1>1, <1>7
<1>8. BeginsNothing
  BY <1>6, <1>7 DEF BeginsNothing
<1>9. QED
  BY <1>1, <1>4, <1>5, <1>8

LEMMA GiveUpFacts ==
  ASSUME TypesInv, NEW c \in Calls, NEW code \in {"timeout", "aborted"}, phase[c] = "racing",
         GiveUp(c, code)
  PROVE  \E said \in Code :
           /\ phase' = [phase EXCEPT ![c] = "closing"]
           /\ result' = [result EXCEPT ![c] = said]
           /\ \/ exec' = exec /\ said = code
              \/ exec' = [exec EXCEPT ![c] = "ended"]
<1>1. CASE Close(c, code) /\ UNCHANGED exec
  BY <1>1 DEF Close, Code
<1>2. CASE /\ exec' = [exec EXCEPT ![c] = "ended"]
           /\ \E ending \in Ending : Close(c, CodeOfEnding(ending, TRUE))
  <2>1. PICK ending \in Ending : Close(c, CodeOfEnding(ending, TRUE))
    BY <1>2
  <2>2. CodeOfEnding(ending, TRUE) \in Code
    BY EndingCode
  <2>3. QED
    BY <1>2, <2>1, <2>2 DEF Close
<1>3. QED
  BY <1>1, <1>2 DEF GiveUp

LEMMA TimesOutKeeps ==
  ASSUME IInv, NEW c \in Calls, TimesOut(c)
  PROVE  IInv' /\ BeginsNothing
<1>1. TypesInv /\ TimerFires(c) /\ SignalsHeard
  BY DEF IInv, TimesOut
<1>2. /\ signalled' = [signalled EXCEPT ![c] = TRUE]
      /\ aborted' = aborted
  BY <1>1 DEF TimerFires
<1>3. CASE phase[c] = "racing" /\ GiveUp(c, "timeout")
  <2>1. PICK said \in Code :
           /\ phase' = [phase EXCEPT ![c] = "closing"]
           /\ result' = [result EXCEPT ![c] = said]
           /\ \/ exec' = exec /\ said = "timeout"
              \/ exec' = [exec EXCEPT ![c] = "ended"]
    BY <1>1, <1>3, GiveUpFacts
  <2>2. SignalFacts
    BY <1>1, <1>2, <1>3, <2>1 DEF SignalFacts, GivesUp, TypesInv
  <2>3. QED
    BY <1>1, <2>2, SignalKeeps
<1>4. CASE phase[c] # "racing" /\ UNCHANGED <<phase, result, events, exec>>
  <2>1. SignalFacts
    BY <1>1, <1>2, <1>4 DEF SignalFacts, TypesInv
  <2>2. QED
    BY <1>1, <2>1, SignalKeeps
<1>5. QED
  BY <1>1, <1>3, <1>4 DEF TimerFires

LEMMA AbortsKeep ==
  ASSUME IInv, Aborts
  PROVE  IInv' /\ BeginsNothing
<1>1. TypesInv /\ AbortRun /\ SignalsHeard
  BY DEF IInv, Aborts
<1>2. /\ signalled' = [c \in Calls |-> signalled[c] \/ listening[c]]
      /\ aborted' = TRUE
  BY <1>1 DEF AbortRun
<1>3. signalled' \in [Calls -> BOOLEAN] /\ \A c \in Calls : signalled[c] => signalled'[c]
  BY <1>1, <1>2 DEF TypesInv
<1>4. CASE \E c \in Calls : listening[c] /\ phase[c] = "racing" /\ GiveUp(c, "aborted")
  <2>1. PICK c \in Calls : listening[c] /\ phase[c] = "racing" /\ GiveUp(c, "aborted")
    BY <1>4
  <2>2. PICK said \in Code :
           /\ phase' = [phase EXCEPT ![c] = "closing"]
           /\ result' = [result EXCEPT ![c] = said]
           /\ \/ exec' = exec /\ said = "aborted"
              \/ exec' = [exec EXCEPT ![c] = "ended"]
    BY <1>1, <2>1, GiveUpFacts
  <2>3. signalled'[c]
    BY <1>2, <2>1
  <2>4. SignalFacts
    BY <1>1, <1>2, <1>3, <2>1, <2>2, <2>3 DEF SignalFacts, GivesUp, TypesInv
  <2>5. QED
    BY <1>1, <2>4, SignalKeeps
<1>5. CASE UNCHANGED <<phase, result, events, exec>>
  <2>1. SignalFacts
    BY <1>1, <1>2, <1>3, <1>5 DEF SignalFacts, TypesInv
  <2>2. QED
    BY <1>1, <2>1, SignalKeeps
<1>6. QED
  BY <1>1, <1>4, <1>5 DEF AbortRun

-----------------------------------------------------------------------------
(* The steps of a call.                                                    *)

(* What execute() is at when it first waits.                               *)
LEMMA FirstAwaitType ==
  ASSUME TypesInv, NEW kind \in Kinds
  PROVE  /\ FirstAwait(kind) \in BodySet
         /\ FirstAwait(kind).at \notin {"none", "ended"}
         /\ BodyOK(FirstAwait(kind), FALSE)
<1>1. NoBody \in BodySet /\ NoBody.child = "none"
  BY DEF NoBody, BodySet, Places
<1> DEFINE b == [NoBody EXCEPT !.tool = kind]
<1>2. b \in BodySet /\ b.child = "none"
  BY <1>1 DEF BodySet
<1>3. ASSUME NEW at \in {"shell", "probe", "search", "list"}, NEW listens \in BOOLEAN,
             at = "shell" => listens
      PROVE  /\ Spawned(b, at, listens) \in BodySet
             /\ Spawned(b, at, listens).at \notin {"none", "ended"}
             /\ BodyOK(Spawned(b, at, listens), FALSE)
  <2>1. at \in Places
    BY DEF Places
  <2>2. QED
    BY <1>2, <1>3, <2>1, SpawnedType DEF BodyOK
<1>4. ASSUME NEW at \in Places \ {"none", "ended"}
      PROVE  LET r == [b EXCEPT !.at = at] IN
             r \in BodySet /\ r.at \notin {"none", "ended"} /\ BodyOK(r, FALSE)
  BY <1>2 DEF BodySet, BodyOK
<1> HIDE DEF b
<1>5. CASE kind = "bash"
  BY <1>3, <1>5 DEF FirstAwait, b
<1>6. CASE kind \in {"grep", "glob"}
  <2>1. FirstAwait(kind) = FirstSearch(b)
    BY <1>6 DEF FirstAwait, b
  <2>2. SearchOf(b.tool) \in {"search", "list"} /\ "walk" \in Places
    BY DEF SearchOf, Places
  <2>3. CASE available = "unknown"
    BY <1>3, <2>1, <2>3 DEF FirstSearch
  <2>4. CASE available = "yes"
    BY <1>3, <2>1, <2>2, <2>4 DEF FirstSearch
  <2>5. CASE available = "no"
    BY <1>4, <2>1, <2>2, <2>5 DEF FirstSearch
  <2>6. QED
    BY <2>3, <2>4, <2>5 DEF TypesInv
<1>7. CASE kind = "fetch"
  <2>1. FirstAwait(kind) = [b EXCEPT !.at = "headers", !.timer = "armed"]
    BY <1>7 DEF FirstAwait, b
  <2>2. QED
    BY <1>2, <2>1 DEF BodySet, BodyOK, Places
<1>8. CASE kind \in {"read", "edit"}
  BY <1>4, <1>8 DEF FirstAwait, b, Places
<1>9. CASE kind = "write"
  BY <1>4, <1>9 DEF FirstAwait, b, Places
<1>10. CASE kind = "custom"
  BY <1>4, <1>10 DEF FirstAwait, b, Places
<1>11. QED
  BY <1>5, <1>6, <1>7, <1>8, <1>9, <1>10, KindsAssumption

(* The call is dispatched: its tool begins, or the run was aborted.        *)
LEMMA StartsKeeps ==
  ASSUME IInv, NEW c \in Calls, Starts(c)
  PROVE  IInv' /\ BeginsNothing
<1>1. /\ TypesInv /\ CallOK(c) /\ phase[c] = "starting"
      /\ exec[c] = "none" /\ result[c] = "none"
      /\ body[c].at \in {"none", "ended"}
  BY DEF IInv, Starts, Dispatch, CallOK, TypesInv
<1>2. /\ signalled' = [signalled EXCEPT ![c] = aborted]
      /\ UNCHANGED <<aborted, available>>
  BY DEF Starts, Dispatch
<1>3. CASE ~aborted
  <2>1. /\ exec' = [exec EXCEPT ![c] = "running"] /\ exec'[c] = "running"
        /\ phase' = [phase EXCEPT ![c] = "racing"] /\ UNCHANGED result
    BY <1>1, <1>3 DEF Starts, Dispatch, TypesInv
  <2>2. PICK b \in BodySet : /\ body' = [body EXCEPT ![c] = b]
                             /\ b.at \notin {"none", "ended"} /\ BodyOK(b, FALSE)
    <3>1. PICK kind \in Kinds :
            \/ \E does \in MayDo(kind) :
                 body' = [body EXCEPT ![c] = [FirstAwait(kind) EXCEPT !.does = does]]
            \/ body' = [body EXCEPT ![c].tool = kind, ![c].at = "denied"]
      BY <2>1 DEF Starts
    <3>2. CASE \E does \in MayDo(kind) :
                 body' = [body EXCEPT ![c] = [FirstAwait(kind) EXCEPT !.does = does]]
      <4>1. PICK does \in MayDo(kind) :
              body' = [body EXCEPT ![c] = [FirstAwait(kind) EXCEPT !.does = does]]
        BY <3>2
      <4>2. does \in Permitted \cup {{}}
        BY DEF MayDo
      <4>3. ASSUME NEW b \in BodySet, b.at \notin {"none", "ended"}, BodyOK(b, FALSE)
            PROVE  LET r == [b EXCEPT !.does = does] IN
                   r \in BodySet /\ r.at \notin {"none", "ended"} /\ BodyOK(r, FALSE)
        BY <4>2, <4>3 DEF BodySet, BodyOK
      <4>4. QED
        BY <1>1, <4>1, <4>3, FirstAwaitType
    <3>3. CASE body' = [body EXCEPT ![c].tool = kind, ![c].at = "denied"]
      <4>1. body[c] \in BodySet /\ body[c].child \notin {"alive", "told"}
        BY <1>1 DEF TypesInv, IInv, BodyOK
      <4>2. body' = [body EXCEPT ![c] = [body[c] EXCEPT !.tool = kind, !.at = "denied"]]
        BY <1>1, <3>3 DEF TypesInv
      <4>3. [body[c] EXCEPT !.tool = kind, !.at = "denied"] \in BodySet
        BY <4>1 DEF BodySet, Places
      <4>4. QED
        BY <4>1, <4>2, <4>3 DEF BodyOK, BodySet
    <3>4. QED
      BY <3>1, <3>2, <3>3
  <2>3. TypesInv'
    BY <1>1, <1>2, <2>1, <2>2 DEF TypesInv
  <2>4. \A d \in Calls : CallOK(d)' /\ BodyOK(body[d], signalled[d])'
    BY <1>1, <1>2, <1>3, <2>1, <2>2 DEF IInv, TypesInv, CallOK, BodyOK
  <2>5. BeginsNothing
    BY <1>1, <1>3, <2>1, <2>2 DEF BeginsNothing, SettledStep, TypesInv
  <2>6. QED
    BY <2>3, <2>4, <2>5 DEF IInv
<1>4. CASE aborted
  <2>1. /\ result' = [result EXCEPT ![c] = "aborted"]
        /\ phase' = [phase EXCEPT ![c] = "closing"] /\ UNCHANGED exec
    BY <1>4 DEF Starts, Dispatch, Close
  <2>2. UNCHANGED body
    BY <1>1, <2>1 DEF Starts
  <2>3. TypesInv'
    BY <1>1, <1>2, <2>1, <2>2 DEF TypesInv, Code
  <2>4. \A d \in Calls : CallOK(d)' /\ BodyOK(body[d], signalled[d])'
    BY <1>1, <1>2, <1>4, <2>1, <2>2 DEF IInv, TypesInv, CallOK, BodyOK
  <2>5. BeginsNothing
    BY <1>1, <2>1, <2>2 DEF BeginsNothing, SettledStep, TypesInv
  <2>6. QED
    BY <2>3, <2>4, <2>5 DEF IInv
<1>5. QED
  BY <1>1, <1>3, <1>4 DEF TypesInv

(* The runner's other steps leave the bodies alone.                        *)
LEMMA RunsKeeps ==
  ASSUME IInv, NEW c \in Calls, Runs(c) \/ Streams(c)
  PROVE  IInv' /\ BeginsNothing
<1> USE DEF IInv
<1>1. UNCHANGED <<body, available, exec, signalled, aborted>>
  BY DEF Runs, Streams, Begin, Refuse, Return, Stream
<1>2. \/ phase[c] = "queued" /\ phase' = [phase EXCEPT ![c] = "starting"] /\ UNCHANGED result
      \/ phase[c] = "closing" /\ phase' = [phase EXCEPT ![c] = "returned"] /\ UNCHANGED result
      \/ /\ phase[c] = "starting" /\ phase' = [phase EXCEPT ![c] = "closing"]
         /\ result' = [result EXCEPT ![c] = "refused"]
      \/ UNCHANGED <<phase, result>>
  BY DEF Runs, Streams, Begin, Refuse, Return, Stream, Close
<1>3. TypesInv'
  BY <1>1, <1>2 DEF TypesInv, Code
<1>4. \A d \in Calls : CallOK(d)' /\ BodyOK(body[d], signalled[d])'
  BY <1>1, <1>2 DEF TypesInv, CallOK, BodyOK
<1>5. BeginsNothing
  BY <1>1, <1>2 DEF BeginsNothing, SettledStep, TypesInv, CallOK
<1>6. QED
  BY <1>3, <1>4, <1>5

-----------------------------------------------------------------------------
(* The steps of a body.                                                    *)

LEMMA MovesKeep ==
  ASSUME IInv, NEW c \in Calls, NEW b \in BodySet, Goes(c, b), exec[c] = "running",
         available' \in {"unknown", "yes", "no"}, b.at \notin {"none", "ended", "shell", "writing"},
         b.child \in {"alive", "told"} => b.at \in {"probe", "search", "list"},
         b.child = "alive" => b.timer = "armed"
  PROVE  IInv' /\ BeginsNothing
BY MoveKeeps DEF BodyOK

(* A search with ripgrep is spawned, or what follows a child begins.       *)
LEMMA RgKeeps ==
  ASSUME IInv, NEW c \in Calls, exec[c] = "running", NEW at \in {"search", "list"},
         available' \in {"unknown", "yes", "no"}, Goes(c, Rg(c, body[c], at))
  PROVE  IInv' /\ BeginsNothing
<1>1. body[c] \in BodySet /\ (~signalled[c]) \in BOOLEAN /\ at \in Places
  BY DEF IInv, TypesInv, Places
<1>2. /\ Rg(c, body[c], at) \in BodySet /\ Rg(c, body[c], at).at = at
      /\ Rg(c, body[c], at).timer = "armed"
  BY <1>1, SpawnedType DEF Rg
<1>3. QED
  BY <1>2, MovesKeep

LEMMA RestedKeeps ==
  ASSUME IInv, NEW c \in Calls, exec[c] = "running", NEW at \in {"walk", "scan"},
         available' \in {"unknown", "yes", "no"}, OrThrows(c, Rested(body[c], at))
  PROVE  IInv' /\ BeginsNothing
<1>1. body[c] \in BodySet /\ at \in Places
  BY DEF IInv, TypesInv, Places
<1>2. /\ Rested(body[c], at) \in BodySet /\ Rested(body[c], at).at = at
      /\ Rested(body[c], at).child \in {"none", "gone"}
  BY <1>1, RestedType
<1>3. CASE Goes(c, Rested(body[c], at))
  BY <1>2, <1>3, MovesKeep
<1>4. CASE \E ending \in Ending : Ends(c, ending)
  BY <1>4, EndKeeps
<1>5. QED
  BY <1>3, <1>4 DEF OrThrows, Ending

LEMMA ListedKeeps ==
  ASSUME IInv, NEW c \in Calls, exec[c] = "running", UNCHANGED available, Listed(c)
  PROVE  IInv' /\ BeginsNothing
<1>1. available' \in {"unknown", "yes", "no"}
  BY DEF IInv, TypesInv
<1>2. CASE Ends(c, "ok")
  BY <1>1, <1>2, EndKeeps DEF Ending
<1>3. CASE OrThrows(c, Rested(body[c], "scan"))
  BY <1>1, <1>3, RestedKeeps
<1>4. QED
  BY <1>2, <1>3 DEF Listed

LEMMA BodyKeeps ==
  ASSUME IInv, NEW c \in Calls, BodyStep(c)
  PROVE  IInv' /\ BeginsNothing
<1>1. /\ body[c] \in BodySet /\ BodyOK(body[c], signalled[c]) /\ TypesInv
      /\ body[c].at \notin {"none", "ended"} => exec[c] = "running"
  BY DEF IInv, TypesInv, CallOK
<1>2. ASSUME UNCHANGED available PROVE available' \in {"unknown", "yes", "no"}
  BY <1>1, <1>2 DEF TypesInv
<1>3. ASSUME UNCHANGED available, NEW ending \in Ending, Ends(c, ending)
      PROVE  IInv' /\ BeginsNothing
  BY <1>2, <1>3, EndKeeps
<1>4. CASE Denied(c)
  BY <1>3, <1>4 DEF Denied, Ending
<1>5. CASE ShellExits(c) \/ FileWritten(c) \/ CustomEnds(c)
  BY <1>3, <1>5 DEF ShellExits, FileWritten, CustomEnds, Ending
<1>6. CASE ScanReturns(c) \/ TextArrives(c)
  BY <1>3, <1>6 DEF ScanReturns, TextArrives, Ending
<1>7. CASE FetchFails(c)
  BY <1>3, <1>7 DEF FetchFails, NormalizedError, Ending
<1>8. CASE ProbeExits(c)
  <2>1. exec[c] = "running" /\ available' \in {"unknown", "yes", "no"}
    BY <1>1, <1>8 DEF ProbeExits, Exits
  <2>2. SearchOf(body[c].tool) \in {"search", "list"}
    BY DEF SearchOf
  <2>3. QED
    BY <1>8, <2>1, <2>2, RgKeeps, RestedKeeps DEF ProbeExits
<1>9. CASE SearchExits(c)
  <2>1. exec[c] = "running" /\ UNCHANGED available
    BY <1>1, <1>9 DEF SearchExits, Exits
  <2>2. CASE Ends(c, "ok")
    BY <1>3, <2>1, <2>2 DEF Ending
  <2>3. CASE OrThrows(c, Rg(c, body[c], "list"))
    <3>1. CASE Goes(c, Rg(c, body[c], "list"))
      BY <1>2, <2>1, <3>1, RgKeeps
    <3>2. QED
      BY <1>3, <2>1, <2>3, <3>1 DEF OrThrows, Ending
  <2>4. CASE OrThrows(c, Rested(body[c], "walk"))
    BY <1>2, <2>1, <2>4, RestedKeeps
  <2>5. QED
    BY <1>9, <2>2, <2>3, <2>4 DEF SearchExits
<1>10. CASE ListExits(c)
  <2>1. exec[c] = "running" /\ UNCHANGED available
    BY <1>1, <1>10 DEF ListExits, Exits
  <2>2. CASE OrThrows(c, Rested(body[c], "walk"))
    BY <1>2, <2>1, <2>2, RestedKeeps
  <2>3. QED
    BY <1>10, <2>1, <2>2, ListedKeeps DEF ListExits
<1>11. CASE WalkReturns(c)
  <2>1. exec[c] = "running" /\ UNCHANGED available
    BY <1>1, <1>11 DEF WalkReturns
  <2>2. QED
    BY <1>3, <1>11, <2>1, ListedKeeps DEF WalkReturns, Ending
<1>12. CASE OwnTimerFires(c)
  <2>1. exec[c] = "running" /\ UNCHANGED available
    BY <1>1, <1>12 DEF OwnTimerFires, BodyOK
  <2>2. body[c].child \in {"none", "alive", "told", "gone"}
    BY <1>1 DEF BodySet
  <2>3. LET b == [body[c] EXCEPT !.timer = "fired", !.child = Told(@)] IN
        /\ b \in BodySet /\ b.at = body[c].at /\ b.child \in {"none", "told", "gone"}
        /\ b.child = "told" => body[c].child \in {"alive", "told"}
        /\ b.timer = "fired"
    BY <1>1, <2>2, ToldType DEF BodySet
  <2>4. Goes(c, [body[c] EXCEPT !.timer = "fired", !.child = Told(@)])
    BY <1>12 DEF OwnTimerFires
  <2>5. body[c].at \notin {"none", "ended"}
    BY <1>1, <1>12 DEF OwnTimerFires, BodyOK
  <2>6. QED
    BY <1>1, <1>2, <2>1, <2>3, <2>4, <2>5, MoveKeeps DEF BodyOK
<1>13. CASE ResponseArrives(c)
  <2>1. /\ body[c].at = "headers" /\ exec[c] = "running" /\ UNCHANGED available
        /\ body[c].child \notin {"alive", "told"}
    BY <1>1, <1>13 DEF ResponseArrives, BodyOK
  <2>2. CASE Goes(c, [body[c] EXCEPT !.at = "reading"])
    <3>1. LET b == [body[c] EXCEPT !.at = "reading"] IN
          b \in BodySet /\ b.at = "reading" /\ b.child = body[c].child
      BY <1>1 DEF BodySet, Places
    <3>2. QED
      BY <1>2, <2>1, <2>2, <3>1, MovesKeep
  <2>3. QED
    BY <1>3, <1>13, <2>1, <2>2 DEF ResponseArrives, Ending
<1>14. CASE FileRead(c)
  <2>1. /\ body[c].at = "file" /\ exec[c] = "running" /\ UNCHANGED available
        /\ body[c].child \notin {"alive", "told"}
    BY <1>1, <1>14 DEF FileRead, BodyOK
  <2>2. CASE ~signalled[c] /\ Goes(c, [body[c] EXCEPT !.at = "writing"])
    <3>1. LET b == [body[c] EXCEPT !.at = "writing"] IN
          b \in BodySet /\ b.at = "writing" /\ b.child = body[c].child
      BY <1>1 DEF BodySet, Places
    <3>2. QED
      BY <1>2, <2>1, <2>2, <3>1, MoveKeeps DEF BodyOK
  <2>3. QED
    BY <1>3, <1>14, <2>1, <2>2 DEF FileRead, StillWrites, Ending
<1>15. QED
  BY <1>4, <1>5, <1>6, <1>7, <1>8, <1>9, <1>10, <1>11, <1>12, <1>13, <1>14 DEF BodyStep

-----------------------------------------------------------------------------
(* The steps of a round.                                                   *)

LEMMA NextKeeps ==
  ASSUME IInv, [RoundNext]_roundVars
  PROVE  IInv' /\ (BeginsNothing \/ UNCHANGED toolVars)
<1>1. CASE \E c \in Calls : CallStep(c)
  BY <1>1, RunsKeeps, StartsKeeps, BodyKeeps, TimesOutKeeps DEF CallStep
<1>2. CASE AbortsBoth
  BY <1>2, AbortsKeep DEF AbortsBoth
<1>3. CASE UNCHANGED toolVars
  BY <1>3 DEF toolVars, vars, IInv, TypesInv, CallOK, BodyOK
<1>4. QED
  BY <1>1, <1>2, <1>3
  DEF RoundNext, Verify, CommandCloses, CommandErrors, CommandTimesOut, roundVars

LEMMA InductiveInv == RoundSpec => []IInv
<1>1. RoundInit => IInv
  BY InitInv
<1>2. IInv /\ [RoundNext]_roundVars => IInv'
  BY NextKeeps
<1>3. QED
  BY <1>1, <1>2, PTL DEF RoundSpec

(* What goes on after its call was closed has been told to stop, and a     *)
(* tool that has ended leaves no process, however many calls, streams and  *)
(* commands there are: ToolRunner.run's abort before it settles a race,    *)
(* and the listeners and timers of bash and ripgrep.                       *)
THEOREM GivenUpStopped == RoundSpec => []GivenUpIsStopped
<1>1. ASSUME IInv PROVE GivenUpIsStopped
  <2>1. ASSUME NEW c \in Calls
        PROVE  /\ body[c] \in BodySet /\ CallOK(c) /\ BodyOK(body[c], signalled[c])
               /\ exec[c] \in {"none", "running", "ended"}
    BY <1>1 DEF IInv, TypesInv
  <2>2. GivenUpIsSignalled
    BY <2>1 DEF GivenUpIsSignalled, CallOK
  <2>3. ASSUME NEW c \in Calls, exec[c] = "running", result[c] # "none",
               body[c].child = "alive"
        PROVE  body[c].at \in {"probe", "search", "list"} /\ body[c].timer = "armed"
    BY <2>1, <2>3 DEF CallOK, BodyOK
  <2>4. ASSUME NEW c \in Calls, exec[c] = "ended"
        PROVE  body[c].child \in {"none", "gone"}
    BY <2>1, <2>4 DEF CallOK, BodyOK, BodySet
  <2>5. QED
    BY <2>2, <2>3, <2>4 DEF GivenUpIsStopped
<1>2. QED
  BY <1>1, InductiveInv, PTL

(* A closed call keeps its result, no tool starts after an abort, and one  *)
(* that the runner has given up begins no write and no command: the check  *)
(* of the signal before tool.execute, and that of edit_file between its    *)
(* read and its write.                                                     *)
THEOREM NothingBegun == RoundSpec => NothingBegunAfterGivingUp
<1>1. ASSUME IInv, [RoundNext]_roundVars
      PROVE  [/\ SettledStep
              /\ \A c \in Calls :
                   result[c] # "none" /\ body'[c].at \in {"shell", "writing"}
                     => body'[c].at = body[c].at]_toolVars
  BY <1>1, NextKeeps DEF BeginsNothing
<1>2. QED
  BY <1>1, InductiveInv, PTL DEF RoundSpec, NothingBegunAfterGivingUp

-----------------------------------------------------------------------------
(* The call of ToolRuntime.execute is the only one that is under way.      *)
TurnInv == \A c \in Calls : phase[c] \notin {"queued", "returned"} => turn = c

(* The events of a call, as far as it has come.                            *)
StartedOnce(c) ==
  /\ phase[c] = "queued" <=> EventsOf(c) = {}
  /\ \A i \in EventsOf(c) : events[i][2] = "started" <=> \A j \in EventsOf(c) : i <= j

ClosedOnce(c) ==
  /\ result[c] = "none" => TerminalsOf(c) = {}
  /\ result[c] # "none" =>
       \E i \in EventsOf(c) :
         /\ TerminalsOf(c) = {i} /\ events[i][2] = TerminalType(result[c])
         /\ (\E j \in EventsOf(c) : j > i) => result[c] \in {"timeout", "aborted"}

EventInv ==
  /\ events \in Seq(Calls \X EventType)
  /\ \A c \in Calls : StartedOnce(c) /\ ClosedOnce(c)

(* Where the tools that know of time-outs and aborts can be.               *)
PlaceOK(b) ==
  /\ b.tool = "fetch" => b.at \in {"denied", "headers", "reading", "ended"}
  /\ b.at \in {"headers", "reading"} => b.tool = "fetch"
  /\ b.at = "custom" => b.tool = "custom"

CauseOf(c) ==
  body[c].tool # "custom" =>
    /\ result[c] = "aborted" => aborted
    /\ result[c] = "timeout" =>
         \/ timer[c] = "fired"
         \/ body[c].tool = "fetch" /\ body[c].timer = "fired"

(* As long as the race is on, the signal of the call has not been aborted: *)
(* a tool that says it was would be wrong.                                 *)
CauseInv ==
  /\ timer \in [Calls -> {"off", "armed", "fired"}]
  /\ TurnInv
  /\ \A c \in Calls :
       /\ phase[c] = "racing" => ~signalled[c]
       /\ PlaceOK(body[c])
       /\ CauseOf(c)

-----------------------------------------------------------------------------
(* The protocol of the events.                                             *)

Begins(c) ==
  /\ phase[c] = "queued" /\ phase' = [phase EXCEPT ![c] = "starting"]
  /\ events' = Append(events, <<c, "started">>) /\ UNCHANGED result

Closes(c) ==
  /\ phase[c] \in {"starting", "racing"}
  /\ phase' = [phase EXCEPT ![c] = "closing"]
  /\ \E code \in Code : /\ result' = [result EXCEPT ![c] = code]
                        /\ events' = Append(events, <<c, TerminalType(code)>>)

StreamsOn(c) ==
  /\ exec[c] = "running" /\ UNCHANGED <<phase, result>>
  /\ events' = Append(events, <<c, "streamed">>)

Silent(c) ==
  /\ \/ UNCHANGED phase
     \/ \E p \in {"racing", "returned"} :
          phase[c] # "queued" /\ phase' = [phase EXCEPT ![c] = p]
  /\ UNCHANGED <<result, events>>

LEMMA GiveUpCloses ==
  ASSUME NEW c \in Calls, NEW code \in Code, phase[c] = "racing", GiveUp(c, code)
  PROVE  Closes(c)
BY EndingCode DEF GiveUp, Close, Closes

LEMMA EndCloses ==
  ASSUME NEW c \in Calls, NEW ending \in Ending, signalled[c] \in BOOLEAN, ToolEnds(c, ending)
  PROVE  Closes(c) \/ Silent(c)
<1>1. CodeOfEnding(ending, signalled[c]) \in Code
  BY EndingCode
<1>2. QED
  BY <1>1 DEF ToolEnds, Wins, Close, Closes, Silent

(* A step of a body leaves the runner alone, or ends the tool.             *)
LEMMA BodyEnds ==
  ASSUME NEW c \in Calls, BodyStep(c)
  PROVE  UNCHANGED vars \/ \E ending \in Ending : ToolEnds(c, ending)
<1>1. "ok" \in Ending /\ "error" \in Ending /\ "threw" \in Ending /\ "threwAbort" \in Ending
      /\ "saysTimeout" \in Ending /\ "saysAborted" \in Ending
  BY DEF Ending
<1>2. NormalizedError(c) \in Ending
  BY DEF NormalizedError, Ending
<1>3. CASE Denied(c) \/ ShellExits(c) \/ FileWritten(c) \/ CustomEnds(c) \/ ScanReturns(c)
           \/ TextArrives(c) \/ FetchFails(c)
  BY <1>1, <1>2, <1>3
  DEF Denied, ShellExits, FileWritten, CustomEnds, ScanReturns, TextArrives, FetchFails, Ends
<1>4. CASE ProbeExits(c) \/ SearchExits(c) \/ ListExits(c) \/ WalkReturns(c)
  BY <1>1, <1>4
  DEF ProbeExits, SearchExits, ListExits, WalkReturns, Listed, OrThrows, Goes, Ends
<1>5. CASE OwnTimerFires(c) \/ ResponseArrives(c) \/ FileRead(c)
  BY <1>1, <1>5 DEF OwnTimerFires, ResponseArrives, FileRead, Goes, Ends
<1>6. QED
  BY <1>3, <1>4, <1>5 DEF BodyStep

LEMMA StepKinds ==
  ASSUME IInv, [RoundNext]_roundVars
  PROVE  \E c \in Calls : Begins(c) \/ Closes(c) \/ StreamsOn(c) \/ Silent(c)
<1>1. 1 \in Calls
  BY CallsAssumption DEF Calls
<1>2. CASE UNCHANGED <<phase, result, events>>
  BY <1>1, <1>2 DEF Silent
<1>3. ASSUME NEW c \in Calls, CallStep(c)
      PROVE  Begins(c) \/ Closes(c) \/ StreamsOn(c) \/ Silent(c)
  <2>1. CASE Runs(c)
    BY <2>1 DEF Runs, Begin, Refuse, Return, Close, Begins, Closes, Silent, Code
  <2>2. CASE Starts(c)
    BY <2>2 DEF Starts, Dispatch, Close, Closes, Silent, Code
  <2>3. CASE BodyStep(c)
    <3>1. signalled[c] \in BOOLEAN
      BY DEF IInv, TypesInv
    <3>2. QED
      BY <2>3, <3>1, BodyEnds, EndCloses DEF vars, Silent
  <2>4. CASE Streams(c)
    BY <2>4 DEF Streams, Stream, StreamsOn
  <2>5. CASE TimesOut(c)
    BY <2>5, GiveUpCloses DEF TimesOut, TimerFires, Silent, Code
  <2>6. QED
    BY <1>3, <2>1, <2>2, <2>3, <2>4, <2>5 DEF CallStep
<1>4. CASE AbortsBoth
  BY <1>2, <1>4, GiveUpCloses DEF AbortsBoth, Aborts, AbortRun, Code
<1>5. CASE UNCHANGED vars
  BY <1>2, <1>5 DEF vars
<1>6. QED
  BY <1>3, <1>4, <1>5
  DEF RoundNext, Verify, CommandCloses, CommandErrors, CommandTimesOut, Finished,
      roundVars, toolVars

(* An event is added for c.                                                *)
LEMMA Appended ==
  ASSUME events \in Seq(Calls \X EventType), NEW c \in Calls, NEW type \in EventType,
         events' = Append(events, <<c, type>>)
  PROVE  /\ events' \in Seq(Calls \X EventType)
         /\ Len(events) + 1 \in Nat /\ events'[Len(events) + 1][2] = type
         /\ EventsOf(c)' = EventsOf(c) \cup {Len(events) + 1}
         /\ \A d \in Calls : \A i \in EventsOf(d) :
              i \in Nat /\ i < Len(events) + 1 /\ events'[i] = events[i]
         /\ \A d \in Calls : d # c => EventsOf(d)' = EventsOf(d)
<1>1. /\ <<c, type>> \in Calls \X EventType /\ events' \in Seq(Calls \X EventType)
      /\ Len(events) \in Nat /\ DOMAIN events = 1..Len(events)
      /\ DOMAIN events' = 1..Len(events) + 1
      /\ events'[Len(events) + 1] = <<c, type>>
      /\ \A i \in 1..Len(events) : events'[i] = events[i]
  OBVIOUS
<1>2. /\ events'[Len(events) + 1][1] = c /\ events'[Len(events) + 1][2] = type
  BY <1>1
<1> DEFINE new == Len(events) + 1
<1>3. EventsOf(c)' = EventsOf(c) \cup {new}
  BY <1>1, <1>2 DEF EventsOf
<1>4. \A d \in Calls : \A i \in EventsOf(d) : i \in Nat /\ i < new /\ events'[i] = events[i]
  BY <1>1 DEF EventsOf
<1>5. \A d \in Calls : d # c => EventsOf(d)' = EventsOf(d)
  BY <1>1, <1>2 DEF EventsOf
<1>6. new \in Nat
  BY <1>1
<1>7. QED
  BY <1>1, <1>2, <1>3, <1>4, <1>5, <1>6, Zenon

(* The call is not the one that made the step.                             *)
LEMMA OthersKeep ==
  ASSUME NEW d \in Calls, StartedOnce(d), ClosedOnce(d),
         phase'[d] = "queued" <=> phase[d] = "queued", result'[d] = result[d],
         EventsOf(d)' = EventsOf(d), \A i \in EventsOf(d) : events'[i] = events[i]
  PROVE  StartedOnce(d)' /\ ClosedOnce(d)'
<1>1. TerminalsOf(d)' = TerminalsOf(d)
  BY DEF TerminalsOf
<1>2. StartedOnce(d)'
  BY DEF StartedOnce
<1>3. ClosedOnce(d)'
  BY <1>1 DEF ClosedOnce
<1>4. QED
  BY <1>2, <1>3

LEMMA EventsKeep ==
  ASSUME IInv, EventInv, NEW c \in Calls, Begins(c) \/ Closes(c) \/ StreamsOn(c) \/ Silent(c)
  PROVE  EventInv'
<1> DEFINE new == Len(events) + 1
<1>1. /\ TypesInv /\ CallOK(c) /\ StartedOnce(c) /\ ClosedOnce(c)
      /\ \A d \in Calls : StartedOnce(d) /\ ClosedOnce(d)
      /\ events \in Seq(Calls \X EventType)
  BY DEF IInv, EventInv
<1>2. \A code \in Code : TerminalType(code) \in Terminal
  BY DEF TerminalType, Code, Terminal
<1>3. {"started", "streamed"} \cup Terminal \subseteq EventType
      /\ "started" \notin Terminal /\ "streamed" \notin Terminal
  BY DEF EventType, Terminal
<1>4. CASE Silent(c)
  <2>1. \A d \in Calls : phase'[d] = "queued" <=> phase[d] = "queued"
    BY <1>1, <1>4 DEF Silent, TypesInv
  <2>2. UNCHANGED <<result, events>>
    BY <1>4 DEF Silent
  <2>3. \A d \in Calls : EventsOf(d)' = EventsOf(d)
    BY <2>2 DEF EventsOf
  <2>4. QED
    BY <1>1, <2>1, <2>2, <2>3, OthersKeep DEF EventInv
<1>5. ASSUME NEW type \in EventType, events' = Append(events, <<c, type>>),
             \A d \in Calls \ {c} : phase'[d] = phase[d] /\ result'[d] = result[d],
             StartedOnce(c)' /\ ClosedOnce(c)'
      PROVE  EventInv'
  <2>1. /\ events' \in Seq(Calls \X EventType)
        /\ \A d \in Calls :
             /\ \A i \in EventsOf(d) : events'[i] = events[i]
             /\ d # c => EventsOf(d)' = EventsOf(d)
    BY <1>1, <1>5, Appended
  <2>2. ASSUME NEW d \in Calls, d # c PROVE StartedOnce(d)' /\ ClosedOnce(d)'
    BY <1>1, <1>5, <2>1, <2>2, OthersKeep
  <2>3. QED
    BY <1>5, <2>1, <2>2 DEF EventInv
<1>6. CASE Begins(c)
  <2>1. "started" \in EventType /\ events' = Append(events, <<c, "started">>)
    BY <1>3, <1>6 DEF Begins
  <2>2. EventsOf(c) = {}
    BY <1>1, <1>6 DEF Begins, StartedOnce
  <2>3. /\ EventsOf(c)' = {new} /\ events'[new][2] = "started" /\ new \in Nat
    BY <1>1, <2>1, <2>2, Appended
  <2>4. /\ phase'[c] = "starting" /\ result'[c] = "none"
        /\ \A d \in Calls \ {c} : phase'[d] = phase[d] /\ result'[d] = result[d]
    BY <1>1, <1>6 DEF Begins, TypesInv, CallOK
  <2>5. StartedOnce(c)'
    BY <2>3, <2>4 DEF StartedOnce
  <2>6. TerminalsOf(c)' = {}
    BY <1>3, <2>3 DEF TerminalsOf
  <2>7. ClosedOnce(c)'
    BY <2>4, <2>6 DEF ClosedOnce
  <2>8. QED
    BY <1>5, <2>1, <2>4, <2>5, <2>7
<1>7. ASSUME NEW type \in EventType, type # "started", phase[c] # "queued", phase'[c] # "queued",
             events' = Append(events, <<c, type>>)
      PROVE  StartedOnce(c)'
  <2>1. /\ EventsOf(c)' = EventsOf(c) \cup {new} /\ new \in Nat
        /\ events'[new][2] = type
        /\ \A i \in EventsOf(c) : i \in Nat /\ i < new /\ events'[i] = events[i]
    BY <1>1, <1>7, Appended
  <2>2. EventsOf(c) # {} /\ EventsOf(c) \subseteq Nat
    BY <1>1, <1>7, <2>1 DEF StartedOnce
  <2>3. PICK f \in EventsOf(c) : f < new
    BY <2>1, <2>2
  <2>4. ~(\A j \in EventsOf(c)' : new <= j)
    BY <2>1, <2>3
  <2>5. ASSUME NEW i \in EventsOf(c)
        PROVE  events'[i][2] = "started" <=> \A j \in EventsOf(c)' : i <= j
    <3>1. (\A j \in EventsOf(c)' : i <= j) <=> \A j \in EventsOf(c) : i <= j
      BY <2>1
    <3>2. events[i][2] = "started" <=> \A j \in EventsOf(c) : i <= j
      BY <1>1 DEF StartedOnce
    <3>3. QED
      BY <2>1, <3>1, <3>2
  <2>6. \A i \in EventsOf(c)' : events'[i][2] = "started" <=> \A j \in EventsOf(c)' : i <= j
    BY <1>7, <2>1, <2>4, <2>5
  <2>7. QED
    BY <1>7, <2>1, <2>6 DEF StartedOnce
<1>8. CASE Closes(c)
  <2>1. PICK code \in Code : /\ result' = [result EXCEPT ![c] = code]
                             /\ events' = Append(events, <<c, TerminalType(code)>>)
    BY <1>8 DEF Closes
  <2> DEFINE type == TerminalType(code)
  <2>2. type \in Terminal /\ type \in EventType /\ type # "started" /\ code # "none"
    BY <1>2, <1>3 DEF Code
  <2>3. /\ phase[c] \in {"starting", "racing"} /\ phase'[c] = "closing"
        /\ result[c] = "none" /\ result'[c] = code
        /\ \A d \in Calls \ {c} : phase'[d] = phase[d] /\ result'[d] = result[d]
    BY <1>1, <1>8, <2>1 DEF Closes, TypesInv, CallOK
  <2>4. StartedOnce(c)'
    BY <1>7, <2>1, <2>2, <2>3
  <2>5. /\ EventsOf(c)' = EventsOf(c) \cup {new} /\ new \in Nat
        /\ events'[new][2] = type
        /\ \A i \in EventsOf(c) : i \in Nat /\ i < new /\ events'[i] = events[i]
    BY <1>1, <2>1, <2>2, Appended
  <2>6. \A i \in EventsOf(c) : events[i][2] \notin Terminal
    BY <1>1, <2>3 DEF ClosedOnce, TerminalsOf
  <2>7. TerminalsOf(c)' = {new} /\ new \in EventsOf(c)'
    BY <2>2, <2>5, <2>6 DEF TerminalsOf
  <2>8. \A j \in EventsOf(c)' : ~(j > new)
    BY <2>5
  <2>9. ClosedOnce(c)'
    BY <2>2, <2>3, <2>5, <2>7, <2>8 DEF ClosedOnce
  <2>10. QED
    BY <1>5, <2>1, <2>2, <2>3, <2>4, <2>9
<1>9. CASE StreamsOn(c)
  <2>1. /\ "streamed" \in EventType /\ events' = Append(events, <<c, "streamed">>)
        /\ exec[c] = "running" /\ UNCHANGED <<phase, result>>
    BY <1>3, <1>9 DEF StreamsOn
  <2>2. phase[c] # "queued" /\ (result[c] # "none" => result[c] \in {"timeout", "aborted"})
    BY <1>1, <2>1 DEF CallOK
  <2>3. StartedOnce(c)'
    BY <1>7, <2>1, <2>2
  <2>4. /\ EventsOf(c)' = EventsOf(c) \cup {new} /\ events'[new][2] = "streamed"
        /\ \A i \in EventsOf(c) : events'[i] = events[i]
    BY <1>1, <2>1, Appended
  <2>5. TerminalsOf(c)' = TerminalsOf(c)
    BY <1>3, <2>4 DEF TerminalsOf
  <2>6. ClosedOnce(c)'
    BY <1>1, <2>1, <2>2, <2>4, <2>5 DEF ClosedOnce
  <2>7. QED
    BY <1>5, <2>1, <2>3, <2>6
<1>10. QED
  BY <1>4, <1>6, <1>8, <1>9

-----------------------------------------------------------------------------
(* The causes of the results.                                              *)

(* A tool that ends before the race is over has not seen its signal abort. *)
Honest(b, ending) ==
  b.tool # "custom" =>
    /\ ending # "saysAborted"
    /\ ending = "saysTimeout" => b.tool = "fetch" /\ b.timer = "fired"

SameTool(b, r) ==
  /\ r.tool = b.tool
  /\ b.tool = "fetch" /\ b.timer = "fired" => r.timer = "fired"

LEMMA RestedSame ==
  ASSUME NEW b \in BodySet, NEW at \in Places
  PROVE  SameTool(b, Rested(b, at))
<1>1. ASSUME NEW child, NEW t, b.timer = "fired" => t = "fired"
      PROVE  LET r == [b EXCEPT !.at = at, !.child = child, !.timer = t, !.listens = FALSE,
                                !.does = {}]
             IN  r.tool = b.tool /\ (b.timer = "fired" => r.timer = "fired")
  BY <1>1 DEF BodySet
<1>2. b.timer = "fired" => Disarmed(b.timer) = "fired"
  BY DEF Disarmed
<1>3. QED
  BY <1>1, <1>2 DEF Rested, SameTool

(* A tool ends: its body keeps its name, and its timer has fired if it had.*)
LEMMA EndSame ==
  ASSUME IInv, NEW c \in Calls, NEW ending \in Ending, Ends(c, ending)
  PROVE  \E r : /\ body' = [body EXCEPT ![c] = r] /\ SameTool(body[c], r) /\ PlaceOK(r)
<1>1. body[c] \in BodySet /\ body \in [Calls -> BodySet] /\ "ended" \in Places
  BY DEF IInv, TypesInv, Places
<1>2. Rested(body[c], "ended").at = "ended" /\ SameTool(body[c], Rested(body[c], "ended"))
  BY <1>1, RestedType, RestedSame
<1>3. PlaceOK(Rested(body[c], "ended"))
  BY <1>2 DEF PlaceOK
<1>4. body' = [body EXCEPT ![c] = Rested(body[c], "ended")]
  BY <1>1 DEF Ends
<1>5. QED
  BY <1>2, <1>3, <1>4

(* What a step of a body changes.                                          *)
BodyMoves(c) ==
  \E r :
    /\ body' = [body EXCEPT ![c] = r] /\ SameTool(body[c], r) /\ PlaceOK(r)
    /\ \/ UNCHANGED vars
       \/ \E ending \in Ending :
            ToolEnds(c, ending) /\ (~signalled[c] => Honest(body[c], ending))

LEMMA EndsMoves ==
  ASSUME IInv, NEW c \in Calls, NEW ending \in Ending, Ends(c, ending),
         ~signalled[c] => Honest(body[c], ending)
  PROVE  BodyMoves(c)
BY EndSame DEF BodyMoves, Ends

LEMMA GoesMoves ==
  ASSUME NEW c \in Calls, NEW r, Goes(c, r), SameTool(body[c], r), PlaceOK(r)
  PROVE  BodyMoves(c)
BY DEF BodyMoves, Goes

(* Those of grep and glob.                                                 *)
LEMMA SearchMoves ==
  ASSUME IInv, NEW c \in Calls, body[c].tool # "fetch",
         NEW at \in {"search", "list", "walk", "scan"},
         \/ Goes(c, Rg(c, body[c], at)) \/ Goes(c, Rested(body[c], at))
         \/ OrThrows(c, Rg(c, body[c], at)) \/ OrThrows(c, Rested(body[c], at))
  PROVE  BodyMoves(c)
<1>1. body[c] \in BodySet /\ at \in Places /\ (~signalled[c]) \in BOOLEAN
  BY DEF IInv, TypesInv, Places
<1>2. Rg(c, body[c], at).at = at /\ Rg(c, body[c], at).tool = body[c].tool
  BY <1>1 DEF Rg, Spawned, BodySet
<1>3. Rested(body[c], at).at = at /\ Rested(body[c], at).tool = body[c].tool
  BY <1>1, RestedType, RestedSame DEF SameTool
<1>4. ASSUME NEW r, r.at = at, r.tool = body[c].tool
      PROVE  SameTool(body[c], r) /\ PlaceOK(r)
  BY <1>4 DEF SameTool, PlaceOK
<1>5. CASE Goes(c, Rg(c, body[c], at)) \/ Goes(c, Rested(body[c], at))
  BY <1>2, <1>3, <1>4, <1>5, GoesMoves
<1>6. CASE signalled[c] /\ \E ending \in {"saysAborted", "threwAbort"} : Ends(c, ending)
  BY <1>6, EndsMoves DEF Ending
<1>7. QED
  BY <1>5, <1>6 DEF OrThrows

LEMMA BodyStepMoves ==
  ASSUME IInv, CauseInv, NEW c \in Calls, BodyStep(c)
  PROVE  BodyMoves(c)
<1>1. body[c] \in BodySet /\ PlaceOK(body[c]) /\ signalled[c] \in BOOLEAN
  BY DEF IInv, TypesInv, CauseInv
<1>2. ASSUME NEW ending \in {"ok", "error", "threw"}, Ends(c, ending)
      PROVE  BodyMoves(c)
  BY <1>2, EndsMoves DEF Honest, Ending
<1>3. ASSUME signalled[c], NEW ending \in Ending, Ends(c, ending) PROVE BodyMoves(c)
  BY <1>3, EndsMoves
<1>4. CASE Denied(c) \/ ShellExits(c) \/ FileWritten(c) \/ TextArrives(c)
  BY <1>2, <1>4 DEF Denied, ShellExits, FileWritten, TextArrives
<1>5. CASE CustomEnds(c)
  <2>1. body[c].tool = "custom"
    BY <1>1, <1>5 DEF CustomEnds, PlaceOK
  <2>2. QED
    BY <1>5, <2>1, EndsMoves DEF CustomEnds, Honest
<1>6. CASE ScanReturns(c)
  BY <1>2, <1>3, <1>6 DEF ScanReturns, Ending
<1>7. CASE FetchFails(c)
  <2>1. body[c].tool = "fetch" /\ Ends(c, NormalizedError(c)) /\ NormalizedError(c) \in Ending
    BY <1>1, <1>7 DEF FetchFails, PlaceOK, NormalizedError, Ending
  <2>2. ~signalled[c] => Honest(body[c], NormalizedError(c))
    BY <2>1 DEF Honest, NormalizedError
  <2>3. QED
    BY <2>1, <2>2, EndsMoves
<1>8. ASSUME Listed(c), body[c].tool # "fetch" PROVE BodyMoves(c)
  BY <1>2, <1>8, SearchMoves DEF Listed
<1>9. CASE ProbeExits(c)
  <2>1. body[c].tool # "fetch" /\ SearchOf(body[c].tool) \in {"search", "list"}
    BY <1>1, <1>9 DEF ProbeExits, Exits, PlaceOK, SearchOf
  <2>2. QED
    BY <1>9, <2>1, SearchMoves DEF ProbeExits
<1>10. CASE SearchExits(c)
  <2>1. body[c].tool # "fetch"
    BY <1>1, <1>10 DEF SearchExits, Exits, PlaceOK
  <2>2. QED
    BY <1>2, <1>10, <2>1, SearchMoves DEF SearchExits
<1>11. CASE ListExits(c)
  <2>1. body[c].tool # "fetch"
    BY <1>1, <1>11 DEF ListExits, Exits, PlaceOK
  <2>2. QED
    BY <1>8, <1>11, <2>1, SearchMoves DEF ListExits
<1>12. CASE WalkReturns(c)
  <2>1. body[c].tool # "fetch"
    BY <1>1, <1>12 DEF WalkReturns, PlaceOK
  <2>2. QED
    BY <1>2, <1>3, <1>8, <1>12, <2>1 DEF WalkReturns, Ending
<1>13. CASE OwnTimerFires(c)
  <2>1. ASSUME NEW child
        PROVE  LET r == [body[c] EXCEPT !.timer = "fired", !.child = child]
               IN  SameTool(body[c], r) /\ PlaceOK(r)
    BY <1>1 DEF BodySet, SameTool, PlaceOK
  <2>2. QED
    BY <1>13, <2>1, GoesMoves DEF OwnTimerFires
<1>14. CASE ResponseArrives(c)
  <2>1. LET r == [body[c] EXCEPT !.at = "reading"] IN
        body[c].at = "headers" => SameTool(body[c], r) /\ PlaceOK(r)
    BY <1>1 DEF BodySet, SameTool, PlaceOK
  <2>2. QED
    BY <1>2, <1>14, <2>1, GoesMoves DEF ResponseArrives
<1>15. CASE FileRead(c)
  <2>1. LET r == [body[c] EXCEPT !.at = "writing"] IN
        body[c].tool = "edit" => SameTool(body[c], r) /\ PlaceOK(r)
    BY <1>1 DEF BodySet, SameTool, PlaceOK
  <2>2. QED
    BY <1>2, <1>3, <1>15, <2>1, GoesMoves DEF FileRead, StillWrites, Ending
<1>16. QED
  BY <1>4, <1>5, <1>6, <1>7, <1>9, <1>10, <1>11, <1>12, <1>13, <1>14, <1>15 DEF BodyStep

(* A call whose result is fixed, or is not, keeps its cause.               *)
LEMMA CauseKept ==
  ASSUME NEW d \in Calls, CauseOf(d), SameTool(body[d], body'[d]), result'[d] = result[d],
         aborted => aborted', timer[d] = "fired" => timer'[d] = "fired"
  PROVE  CauseOf(d)'
BY DEF CauseOf, SameTool

LEMMA BodyKeepsCause ==
  ASSUME IInv, CauseInv, NEW c \in Calls, BodyStep(c)
  PROVE  CauseInv'
<1>1. PICK r : /\ body' = [body EXCEPT ![c] = r] /\ SameTool(body[c], r) /\ PlaceOK(r)
               /\ \/ UNCHANGED vars
                  \/ \E ending \in Ending :
                       ToolEnds(c, ending) /\ (~signalled[c] => Honest(body[c], ending))
  BY BodyStepMoves DEF BodyMoves
<1>2. TypesInv /\ \A d \in Calls : PlaceOK(body[d]) /\ CauseOf(d)
  BY DEF IInv, CauseInv
<1>3. \A d \in Calls : SameTool(body[d], body'[d]) /\ PlaceOK(body'[d])
  BY <1>1, <1>2 DEF TypesInv, SameTool
<1>4. CASE UNCHANGED vars
  <2>1. UNCHANGED <<turn, phase, signalled, result, timer, aborted>>
    BY <1>4 DEF vars
  <2>2. \A d \in Calls : CauseOf(d)'
    BY <1>2, <1>3, <2>1, CauseKept
  <2>3. QED
    BY <1>3, <2>1, <2>2 DEF CauseInv, TurnInv
<1>5. ASSUME NEW ending \in Ending, ToolEnds(c, ending), ~signalled[c] => Honest(body[c], ending)
      PROVE  CauseInv'
  <2>1. UNCHANGED <<turn, signalled, timer, aborted>>
    BY <1>5 DEF ToolEnds
  <2>2. CASE phase[c] = "racing"
    <3>1. /\ ~signalled[c] /\ turn = c /\ phase' = [phase EXCEPT ![c] = "closing"]
          /\ result' = [result EXCEPT ![c] = CodeOfEnding(ending, FALSE)]
      BY <1>2, <1>5, <2>2 DEF ToolEnds, Wins, Close, CauseInv, TurnInv, TypesInv
    <3>2. body[c].tool # "custom" =>
            /\ CodeOfEnding(ending, FALSE) # "aborted"
            /\ CodeOfEnding(ending, FALSE) = "timeout" =>
                 body[c].tool = "fetch" /\ body[c].timer = "fired"
      BY <1>5, <3>1 DEF Honest, CodeOfEnding, Ending
    <3>3. CauseOf(c)'
      BY <1>2, <1>3, <3>1, <3>2 DEF CauseOf, SameTool, TypesInv
    <3>4. \A d \in Calls \ {c} : CauseOf(d)'
      BY <1>2, <1>3, <2>1, <3>1, CauseKept DEF TypesInv
    <3>5. QED
      BY <1>2, <1>3, <2>1, <3>1, <3>3, <3>4 DEF CauseInv, TurnInv, TypesInv
  <2>3. CASE phase[c] # "racing"
    <3>1. UNCHANGED <<phase, result>>
      BY <1>5, <2>3 DEF ToolEnds, Wins
    <3>2. \A d \in Calls : CauseOf(d)'
      BY <1>2, <1>3, <2>1, <3>1, CauseKept
    <3>3. QED
      BY <1>3, <2>1, <3>1, <3>2 DEF CauseInv, TurnInv
  <2>4. QED
    BY <2>2, <2>3
<1>6. QED
  BY <1>1, <1>4, <1>5

(* The abort event changes bodies, but not which tool they are.            *)
LEMMA HeardSame ==
  ASSUME IInv, CauseInv, SignalsHeard
  PROVE  \A d \in Calls : SameTool(body[d], body'[d]) /\ PlaceOK(body'[d])
<1> SUFFICES ASSUME NEW d \in Calls
             PROVE  SameTool(body[d], body'[d]) /\ PlaceOK(body'[d])
  OBVIOUS
<1>1. body[d] \in BodySet /\ PlaceOK(body[d]) /\ "ended" \in Places
  BY DEF IInv, TypesInv, CauseInv, Places
<1>2. CASE exec'[d] # exec[d]
  <2>1. body'[d] = Rested(body[d], "ended")
    BY <1>2 DEF SignalsHeard
  <2>2. QED
    BY <1>1, <2>1, RestedType, RestedSame DEF PlaceOK
<1>3. CASE body'[d] = Heard(body[d])
  <2>1. ASSUME NEW child
        PROVE  LET r == [body[d] EXCEPT !.child = child, !.listens = FALSE]
               IN  SameTool(body[d], r) /\ PlaceOK(r)
    BY <1>1 DEF BodySet, SameTool, PlaceOK
  <2>2. QED
    BY <1>3, <2>1 DEF Heard
<1>4. CASE body'[d] = body[d]
  BY <1>1, <1>4 DEF SameTool
<1>5. QED
  BY <1>2, <1>3, <1>4 DEF SignalsHeard

(* The runner gives the call c up, or its tool ends in the abort event.    *)
LEMMA GivenUpCause ==
  ASSUME IInv, CauseInv, SignalsHeard, NEW c \in Calls, phase[c] = "racing",
         NEW code \in {"timeout", "aborted"}, GiveUp(c, code),
         code = "timeout" => timer'[c] = "fired", code = "aborted" => aborted'
  PROVE  CauseOf(c)'
<1>1. TypesInv /\ exec[c] = "running"
  BY DEF IInv, CallOK
<1>2. PICK said \in Code :
        /\ phase' = [phase EXCEPT ![c] = "closing"]
        /\ result' = [result EXCEPT ![c] = said]
        /\ \/ exec' = exec /\ said = code
           \/ exec' = [exec EXCEPT ![c] = "ended"]
  BY <1>1, GiveUpFacts
<1>3. CASE said = code
  BY <1>1, <1>2, <1>3 DEF CauseOf, TypesInv
<1>4. CASE exec' = [exec EXCEPT ![c] = "ended"]
  <2>1. body[c].tool = "custom"
    BY <1>1, <1>4 DEF SignalsHeard, TypesInv
  <2>2. body'[c].tool = "custom"
    BY <2>1, HeardSame DEF SameTool
  <2>3. QED
    BY <2>2 DEF CauseOf
<1>5. QED
  BY <1>2, <1>3, <1>4

LEMMA TimesOutKeepsCause ==
  ASSUME IInv, CauseInv, NEW c \in Calls, TimesOut(c)
  PROVE  CauseInv'
<1>1. TypesInv /\ TimerFires(c) /\ SignalsHeard
  BY DEF IInv, TimesOut
<1>2. /\ signalled' = [signalled EXCEPT ![c] = TRUE]
      /\ timer' = [timer EXCEPT ![c] = "fired"] /\ UNCHANGED <<turn, aborted>>
  BY <1>1 DEF TimerFires
<1>3. timer' \in [Calls -> {"off", "armed", "fired"}] /\ timer'[c] = "fired"
  BY <1>2 DEF CauseInv
<1>4. \A d \in Calls : /\ SameTool(body[d], body'[d]) /\ PlaceOK(body'[d]) /\ CauseOf(d)
                       /\ timer[d] = "fired" => timer'[d] = "fired"
  <2>1. \A d \in Calls : SameTool(body[d], body'[d]) /\ PlaceOK(body'[d])
    BY <1>1, HeardSame
  <2>2. \A d \in Calls : CauseOf(d) /\ (timer[d] = "fired" => timer'[d] = "fired")
    BY <1>2 DEF CauseInv
  <2>3. QED
    BY <2>1, <2>2
<1>5. CASE phase[c] = "racing" /\ GiveUp(c, "timeout")
  <2>1. PICK said \in Code : /\ phase' = [phase EXCEPT ![c] = "closing"]
                             /\ result' = [result EXCEPT ![c] = said]
    BY <1>1, <1>5, GiveUpFacts
  <2>2. CauseOf(c)'
    BY <1>1, <1>3, <1>5, GivenUpCause
  <2>3. \A d \in Calls \ {c} : CauseOf(d)'
    BY <1>1, <1>2, <1>4, <2>1, CauseKept DEF TypesInv
  <2>4. QED
    BY <1>1, <1>2, <1>3, <1>4, <1>5, <2>1, <2>2, <2>3 DEF CauseInv, TurnInv, TypesInv
<1>6. CASE phase[c] # "racing" /\ UNCHANGED <<phase, result>>
  <2>1. \A d \in Calls : CauseOf(d)'
    BY <1>2, <1>4, <1>6, CauseKept
  <2>2. QED
    BY <1>1, <1>2, <1>3, <1>4, <1>6, <2>1 DEF CauseInv, TurnInv, TypesInv
<1>7. QED
  BY <1>1, <1>5, <1>6 DEF TimerFires

LEMMA AbortsKeepCause ==
  ASSUME IInv, CauseInv, Aborts
  PROVE  CauseInv'
<1>1. TypesInv /\ AbortRun /\ SignalsHeard
  BY DEF IInv, Aborts
<1>2. /\ signalled' = [c \in Calls |-> signalled[c] \/ listening[c]]
      /\ aborted' = TRUE /\ UNCHANGED <<turn, timer>>
  BY <1>1 DEF AbortRun
<1>3. \A d \in Calls : SameTool(body[d], body'[d]) /\ PlaceOK(body'[d]) /\ CauseOf(d)
  <2>1. \A d \in Calls : SameTool(body[d], body'[d]) /\ PlaceOK(body'[d])
    BY <1>1, HeardSame
  <2>2. \A d \in Calls : CauseOf(d)
    BY DEF CauseInv
  <2>3. QED
    BY <2>1, <2>2
<1>4. ASSUME NEW c \in Calls, listening[c], phase[c] = "racing", GiveUp(c, "aborted")
      PROVE  CauseInv'
  <2>1. PICK said \in Code : /\ phase' = [phase EXCEPT ![c] = "closing"]
                             /\ result' = [result EXCEPT ![c] = said]
    BY <1>1, <1>4, GiveUpFacts
  <2>2. CauseOf(c)'
    BY <1>1, <1>2, <1>4, GivenUpCause
  <2>3. \A d \in Calls \ {c} : CauseOf(d)'
    BY <1>1, <1>2, <1>3, <2>1, CauseKept DEF TypesInv
  <2>4. \A d \in Calls \ {c} : phase[d] # "racing"
    BY <1>4 DEF CauseInv, TurnInv
  <2>5. QED
    BY <1>1, <1>2, <1>3, <1>4, <2>1, <2>2, <2>3, <2>4 DEF CauseInv, TurnInv, TypesInv
<1>5. CASE /\ \A c \in Calls : ~(listening[c] /\ phase[c] = "racing")
           /\ UNCHANGED <<phase, result>>
  <2>1. \A d \in Calls : CauseOf(d)'
    BY <1>2, <1>3, <1>5, CauseKept
  <2>2. QED
    BY <1>1, <1>2, <1>3, <1>5, <2>1 DEF CauseInv, TurnInv, TypesInv
<1>6. QED
  BY <1>1, <1>4, <1>5 DEF AbortRun

LEMMA StartsKeepsCause ==
  ASSUME IInv, CauseInv, NEW c \in Calls, Starts(c)
  PROVE  CauseInv'
<1>1. /\ TypesInv /\ phase[c] = "starting" /\ result[c] = "none" /\ exec[c] = "none"
      /\ timer \in [Calls -> {"off", "armed", "fired"}]
      /\ \A d \in Calls : PlaceOK(body[d]) /\ CauseOf(d)
  BY DEF IInv, CallOK, Starts, Dispatch, CauseInv
<1>2. /\ signalled' = [signalled EXCEPT ![c] = aborted]
      /\ timer' = [timer EXCEPT ![c] = InitialTimer] /\ InitialTimer \in {"off", "armed"}
      /\ UNCHANGED <<turn, aborted>>
  BY DEF Starts, Dispatch, InitialTimer
<1>3. \/ /\ ~aborted /\ exec'[c] = "running" /\ UNCHANGED result
         /\ phase' = [phase EXCEPT ![c] = "racing"]
      \/ /\ aborted /\ exec'[c] # "running" /\ result' = [result EXCEPT ![c] = "aborted"]
         /\ phase' = [phase EXCEPT ![c] = "closing"]
  BY <1>1 DEF Starts, Dispatch, Close, TypesInv
<1>4. \E r : body' = [body EXCEPT ![c] = r] /\ PlaceOK(r)
  <2>1. CASE exec'[c] # "running"
    BY <1>1, <2>1 DEF Starts, TypesInv
  <2>2. ASSUME NEW kind \in Kinds, NEW does \in MayDo(kind),
               body' = [body EXCEPT ![c] = [FirstAwait(kind) EXCEPT !.does = does]]
        PROVE  \E r : body' = [body EXCEPT ![c] = r] /\ PlaceOK(r)
    <3>1. /\ FirstAwait(kind) \in BodySet /\ FirstAwait(kind).tool = kind
          /\ FirstAwait(kind).at \in {"shell", "probe", "search", "list", "walk", "headers",
                                      "file", "writing", "custom"}
          /\ FirstAwait(kind).at = "headers" <=> kind = "fetch"
          /\ FirstAwait(kind).at = "custom" <=> kind = "custom"
      <4>1. FirstAwait(kind) \in BodySet
        BY <1>1, FirstAwaitType
      <4>2. available \in {"unknown", "yes", "no"}
        BY <1>1 DEF TypesInv
      <4>3. QED
        BY <4>1, <4>2, KindsAssumption
        DEF FirstAwait, FirstSearch, SearchOf, Spawned, NoBody
    <3>2. LET r == [FirstAwait(kind) EXCEPT !.does = does] IN
          r.tool = FirstAwait(kind).tool /\ r.at = FirstAwait(kind).at
      BY <3>1 DEF BodySet
    <3>3. PlaceOK([FirstAwait(kind) EXCEPT !.does = does])
      BY <3>1, <3>2 DEF PlaceOK
    <3>4. QED
      BY <2>2, <3>3
  <2>3. ASSUME NEW kind \in Kinds, body' = [body EXCEPT ![c].tool = kind, ![c].at = "denied"]
        PROVE  \E r : body' = [body EXCEPT ![c] = r] /\ PlaceOK(r)
    <3>1. body[c] \in BodySet /\ body \in [Calls -> BodySet]
      BY <1>1 DEF TypesInv
    <3>2. PlaceOK([body[c] EXCEPT !.tool = kind, !.at = "denied"])
      BY <3>1 DEF PlaceOK, BodySet
    <3>3. body' = [body EXCEPT ![c] = [body[c] EXCEPT !.tool = kind, !.at = "denied"]]
      BY <2>3, <3>1
    <3>4. QED
      BY <3>2, <3>3
  <2>4. QED
    BY <2>1, <2>2, <2>3 DEF Starts
<1>5. \A d \in Calls \ {c} : body'[d] = body[d] /\ SameTool(body[d], body'[d])
  BY <1>1, <1>4 DEF TypesInv, SameTool
<1>6. \A d \in Calls \ {c} : CauseOf(d)'
  BY <1>1, <1>2, <1>3, <1>5, CauseKept DEF TypesInv
<1>7. CauseOf(c)'
  BY <1>1, <1>2, <1>3 DEF CauseOf, TypesInv
<1>8. \A d \in Calls : PlaceOK(body'[d])
  BY <1>1, <1>4 DEF TypesInv
<1>9. \A d \in Calls : phase'[d] = "racing" => ~signalled'[d]
  BY <1>1, <1>2, <1>3 DEF CauseInv, TypesInv
<1>10. TurnInv'
  BY <1>1, <1>2, <1>3 DEF CauseInv, TurnInv, TypesInv
<1>11. QED
  BY <1>1, <1>2, <1>6, <1>7, <1>8, <1>9, <1>10 DEF CauseInv

LEMMA RunsKeepsCause ==
  ASSUME IInv, CauseInv, NEW c \in Calls, Runs(c) \/ Streams(c)
  PROVE  CauseInv'
<1>1. /\ TypesInv /\ timer \in [Calls -> {"off", "armed", "fired"}] /\ TurnInv
      /\ \A d \in Calls : PlaceOK(body[d]) /\ CauseOf(d)
  BY DEF IInv, CauseInv
<1>2. UNCHANGED <<body, signalled, aborted>>
  BY DEF Runs, Streams, Begin, Refuse, Return, Stream
<1>3. \A d \in Calls : SameTool(body[d], body'[d]) /\ PlaceOK(body'[d])
  BY <1>1, <1>2 DEF SameTool
<1>4. CASE Begin(c)
  <2>1. /\ turn = c /\ phase' = [phase EXCEPT ![c] = "starting"]
        /\ UNCHANGED <<turn, timer, result>>
    BY <1>4 DEF Begin
  <2>2. \A d \in Calls : CauseOf(d)'
    BY <1>1, <1>2, <1>3, <2>1, CauseKept
  <2>3. QED
    BY <1>1, <1>2, <1>3, <2>1, <2>2 DEF CauseInv, TurnInv, TypesInv
<1>5. CASE Refuse(c)
  <2>1. /\ phase[c] = "starting" /\ phase' = [phase EXCEPT ![c] = "closing"]
        /\ result' = [result EXCEPT ![c] = "refused"] /\ UNCHANGED <<turn, timer>>
    BY <1>5 DEF Refuse, Close
  <2>2. \A d \in Calls \ {c} : CauseOf(d)'
    BY <1>1, <1>2, <1>3, <2>1, CauseKept DEF TypesInv
  <2>3. CauseOf(c)'
    BY <1>1, <2>1 DEF CauseOf, TypesInv
  <2>4. QED
    BY <1>1, <1>2, <1>3, <2>1, <2>2, <2>3 DEF CauseInv, TurnInv, TypesInv
<1>6. CASE Return(c)
  <2>1. /\ phase[c] = "closing" /\ phase' = [phase EXCEPT ![c] = "returned"]
        /\ timer' = [timer EXCEPT ![c] = IF @ = "armed" THEN "off" ELSE @]
        /\ UNCHANGED result
    BY <1>6 DEF Return
  <2>2. \A d \in Calls : timer[d] = "fired" => timer'[d] = "fired"
    BY <1>1, <2>1
  <2>3. \A d \in Calls : CauseOf(d)'
    BY <1>1, <1>2, <1>3, <2>1, <2>2, CauseKept
  <2>4. TurnInv'
    BY <1>1, <2>1 DEF TurnInv, TypesInv
  <2>5. timer' \in [Calls -> {"off", "armed", "fired"}]
    BY <1>1, <2>1
  <2>6. QED
    BY <1>1, <1>2, <1>3, <2>1, <2>3, <2>4, <2>5 DEF CauseInv, TypesInv
<1>7. CASE Streams(c)
  <2>1. UNCHANGED <<turn, phase, timer, result>>
    BY <1>7 DEF Streams, Stream
  <2>2. \A d \in Calls : CauseOf(d)'
    BY <1>1, <1>2, <1>3, <2>1, CauseKept
  <2>3. QED
    BY <1>1, <1>2, <1>3, <2>1, <2>2 DEF CauseInv, TurnInv
<1>8. QED
  BY <1>4, <1>5, <1>6, <1>7 DEF Runs

LEMMA NextKeepsCause ==
  ASSUME IInv, CauseInv, [RoundNext]_roundVars
  PROVE  CauseInv'
<1>1. CASE \E c \in Calls : CallStep(c)
  BY <1>1, RunsKeepsCause, StartsKeepsCause, BodyKeepsCause, TimesOutKeepsCause DEF CallStep
<1>2. CASE AbortsBoth
  BY <1>2, AbortsKeepCause DEF AbortsBoth
<1>3. CASE UNCHANGED toolVars
  BY <1>3 DEF toolVars, vars, CauseInv, TurnInv, CauseOf
<1>4. QED
  BY <1>1, <1>2, <1>3
  DEF RoundNext, Verify, CommandCloses, CommandErrors, CommandTimesOut, roundVars

-----------------------------------------------------------------------------
LEMMA ReportInit == RoundInit => EventInv /\ CauseInv
<1> SUFFICES ASSUME RoundInit PROVE EventInv /\ CauseInv
  OBVIOUS
<1>1. \A c \in Calls : EventsOf(c) = {} /\ TerminalsOf(c) = {}
  BY DEF RoundInit, ToolsInit, Init, EventsOf, TerminalsOf
<1>2. EventInv
  BY <1>1 DEF RoundInit, ToolsInit, Init, EventInv, StartedOnce, ClosedOnce
<1>3. PlaceOK(NoBody)
  BY DEF PlaceOK, NoBody
<1>4. CauseInv
  BY <1>3 DEF RoundInit, ToolsInit, Init, CauseInv, TurnInv, CauseOf
<1>5. QED
  BY <1>2, <1>4

LEMMA ReportInvariance == RoundSpec => [](IInv /\ EventInv /\ CauseInv)
<1>1. RoundInit => IInv /\ EventInv /\ CauseInv
  BY InitInv, ReportInit
<1>2. ASSUME IInv, EventInv, CauseInv, [RoundNext]_roundVars
      PROVE  (IInv /\ EventInv /\ CauseInv)'
  BY <1>2, NextKeeps, StepKinds, EventsKeep, NextKeepsCause
<1>3. QED
  BY <1>1, <1>2, PTL DEF RoundSpec

(* Whatever the tools do and whenever timers fire and the run is aborted,  *)
(* every call of a response is reported by one started and one terminal    *)
(* event, and its result names the cause that ended it, for any number of  *)
(* calls and streamed events (ToolRunner.run, toTerminalEvent).            *)
THEOREM CallsReported == RoundSpec => []CallsAreReported
<1>1. ASSUME IInv, EventInv, CauseInv PROVE CallsAreReported
  <2>1. ResultNamesItsCause
    BY <1>1 DEF CauseInv, CauseOf, ResultNamesItsCause
  <2>2. EventProtocol
    BY <1>1 DEF EventInv, StartedOnce, ClosedOnce, EventProtocol, TerminalType
  <2>3. QED
    BY <2>1, <2>2 DEF CallsAreReported
<1>2. QED
  BY <1>1, ReportInvariance, PTL

-----------------------------------------------------------------------------
(* The command policy.                                                     *)

(* The first of some cases is the one before which none applies.           *)
LEMMA FirstOfIs ==
  ASSUME NEW cases, NEW i \in 1..Len(cases), Len(cases) \in Nat,
         cases[i].when, \A j \in 1..i - 1 : ~cases[j].when
  PROVE  FirstOf(cases) = cases[i].is
<1> DEFINE I == {j \in 1..Len(cases) : cases[j].when}
<1>1. i \in I /\ \A j \in I : i <= j
  OBVIOUS
<1>2. \A m \in I : (\A j \in I : m <= j) => m = i
  BY <1>1
<1>3. Min(I) = i
  <2> HIDE DEF I
  <2> QED BY <1>1, <1>2, Zenon DEF Min
<1>4. QED
  BY <1>1, <1>3, Zenon DEF FirstOf, SelectInSeq

(* A set of numbers with a member has a least one.                         *)
LEMMA HasLeast ==
  ASSUME NEW S \in SUBSET Nat, S # {}
  PROVE  \E x \in S : \A y \in S : x <= y
<1>1. IsWellFoundedOn(OpToRel(<, Nat), Nat)
  BY NatLessThanWellFounded, Zenon
<1>2. PICK x \in S : \A y \in S : ~(<<y, x>> \in OpToRel(<, Nat))
  BY <1>1, WFMin, Zenon
<1>3. \A y \in S : ~(y < x)
  BY <1>2 DEF OpToRel
<1>4. QED
  BY <1>3

(* The first of some cases is one of them, and applies.                    *)
LEMMA FirstOfSome ==
  ASSUME NEW cases, Len(cases) \in Nat \ {0}, cases[Len(cases)].when
  PROVE  \E i \in 1..Len(cases) :
           /\ cases[i].when /\ \A j \in 1..i - 1 : ~cases[j].when
           /\ FirstOf(cases) = cases[i].is
<1> DEFINE I == {j \in 1..Len(cases) : cases[j].when}
<1>1. I \in SUBSET Nat /\ Len(cases) \in I
  OBVIOUS
<1>2. PICK i \in I : \A j \in I : i <= j
  BY <1>1, HasLeast
<1>3. i \in 1..Len(cases) /\ cases[i].when /\ \A j \in 1..i - 1 : ~cases[j].when
  BY <1>2
<1>4. QED
  BY <1>3, FirstOfIs, Zenon

(* The order of the rules: for a line that is not empty and not dangerous, *)
(* the category decides.                                                   *)
LEMMA RuleOrder ==
  ASSUME NEW line, NEW profile, NEW category, category = Category(line, profile)
  PROVE  /\ line = <<>> \/ IsDangerous(line) \/ category = "shell_composition"
               => ~CanRun(line, profile)
         /\ line # <<>> /\ ~IsDangerous(line) /\ category \in {"verification", "git_read"}
               => CanRun(line, profile)
         /\ category \notin {"verification", "git_read"} => ~CanRun(line, profile)
<1> DEFINE composed == IF IsDangerousComposition(line, profile) THEN "deny" ELSE "ask"
           rules == <<
        [when |-> line = <<>>,                         is |-> "deny"],
        [when |-> IsDangerous(line),                   is |-> "deny"],
        [when |-> category = "shell_composition",      is |-> composed],
        [when |-> category = "verification",           is |-> "allow"],
        [when |-> category = "git_read",               is |-> "allow"],
        [when |-> category = "format",                 is |-> "ask"],
        [when |-> category = "dependency_mutation",    is |-> "ask"],
        [when |-> category = "git_write",              is |-> "ask"],
        [when |-> category = "network",                is |-> "ask"],
        [when |-> TRUE,                                is |-> "deny"]>>
<1>1. Decision(line, profile) = FirstOf(rules)
  BY DEF Decision
<1>2. Len(rules) = 10 /\ composed \in {"deny", "ask"}
  OBVIOUS
<1>3. /\ rules[1].when <=> line = <<>>
      /\ rules[2].when <=> IsDangerous(line)
      /\ rules[3].when <=> category = "shell_composition"
      /\ rules[4].when <=> category = "verification"
      /\ rules[5].when <=> category = "git_read"
      /\ rules[6].when <=> category = "format"
      /\ rules[7].when <=> category = "dependency_mutation"
      /\ rules[8].when <=> category = "git_write"
      /\ rules[9].when <=> category = "network"
      /\ rules[10].when
  OBVIOUS
<1>4. /\ \A i \in {1, 2, 10} : rules[i].is = "deny"
      /\ rules[3].is = composed
      /\ \A i \in {4, 5} : rules[i].is = "allow"
      /\ \A i \in {6, 7, 8, 9} : rules[i].is = "ask"
  OBVIOUS
<1>5. Len(rules) \in Nat \ {0} /\ rules[Len(rules)].when
  OBVIOUS
<1> HIDE DEF rules, composed
<1>7. PICK i \in 1..Len(rules) : /\ rules[i].when /\ \A j \in 1..i - 1 : ~rules[j].when
                         /\ FirstOf(rules) = rules[i].is
  BY <1>5, FirstOfSome, Zenon
<1>9. CanRun(line, profile) <=> i \in {4, 5}
  BY <1>1, <1>2, <1>4, <1>7 DEF CanRun
<1> QED
  BY <1>3, <1>7, <1>9

(* A segment is a verification or a reading of git only by its own words.  *)
LEMMA AllowedCategory ==
  ASSUME NEW words, NEW profile,
         CategoryOfSegment(words, profile) \in {"verification", "git_read"}
  PROVE  ReadsByName(words) \/ VerifiesByName(words)
<1> DEFINE git == <<
      [when |-> GitReads(words),                            is |-> "git_read"],
      [when |-> GitSubcommand(words) \in GitWriteCommands,  is |-> "git_write"],
      [when |-> TRUE,                                       is |-> "unknown"]>>
           cases == <<
      [when |-> words[1] \in DestructiveFsCommands,                    is |-> "destructive_fs"],
      [when |-> IsPackageScript(words, profile, VerificationScripts),  is |-> "verification"],
      [when |-> IsFormat(words),                                       is |-> "format"],
      [when |-> IsDependencyMutation(words),                           is |-> "dependency_mutation"],
      [when |-> words[1] = "git",                                      is |-> GitCategory(words)],
      [when |-> words[1] \in NetworkCommands,                          is |-> "network"],
      [when |-> TRUE,                                                  is |-> "unknown"]>>
<1>1. GitCategory(words) = FirstOf(git) /\ Len(git) = 3 /\ Len(git) \in Nat \ {0} /\ git[Len(git)].when
      /\ git[1].when = GitReads(words)
      /\ git[2].is # "git_read" /\ git[3].is # "git_read"
      /\ \A i \in 1..3 : git[i].is # "verification"
  BY DEF GitCategory
<1>2. CategoryOfSegment(words, profile) = FirstOf(cases) /\ Len(cases) = 7 /\ Len(cases) \in Nat \ {0} /\ cases[Len(cases)].when
      /\ cases[2].when = IsPackageScript(words, profile, VerificationScripts)
      /\ cases[5].when = (words[1] = "git") /\ cases[5].is = GitCategory(words)
      /\ \A i \in {1, 3, 4, 6, 7} : cases[i].is \notin {"verification", "git_read"}
  BY DEF CategoryOfSegment
<1> HIDE DEF git, cases
<1>3. PICK i \in 1..Len(cases) : cases[i].when /\ FirstOf(cases) = cases[i].is
  BY <1>2, FirstOfSome, Zenon
<1>4. PICK j \in 1..Len(git) : git[j].when /\ FirstOf(git) = git[j].is
  BY <1>1, FirstOfSome, Zenon
<1>5. CASE i = 2
  BY <1>2, <1>3, <1>5 DEF IsPackageScript, VerifiesByName
<1>6. CASE i = 5
  <2>1. git[j].is = "git_read" \/ git[j].is = "verification"
    BY <1>1, <1>2, <1>3, <1>4, <1>6
  <2>2. j = 1
    BY <1>1, <2>1
  <2>3. QED
    BY <1>1, <1>2, <1>3, <1>4, <1>6, <2>2 DEF ReadsByName
<1>7. QED
  BY <1>2, <1>3, <1>5, <1>6

(* What is let run is one command, named for verifying or for reading.     *)
LEMMA AllowedAlone ==
  ASSUME NEW line, NEW profile, CanRun(line, profile)
  PROVE  /\ line # <<>> /\ ~IsComposed(line)
         /\ ReadsByName(line) \/ VerifiesByName(line)
<1>1. PICK category : category = Category(line, profile)
  OBVIOUS
<1>2. line # <<>> /\ category \in {"verification", "git_read"}
  BY <1>1, RuleOrder
<1>3. ~IsComposed(line)
  BY <1>1, <1>2 DEF Category
<1>4. CategoryOfSegment(line, profile) \in {"verification", "git_read"}
  BY <1>1, <1>2, <1>3 DEF Category
<1>5. QED
  BY <1>2, <1>3, <1>4, AllowedCategory

(* Two commands joined by an operator make a composed line.                *)
LEMMA JoinedIsComposed ==
  ASSUME NEW Words, NEW first \in Seq(Words), NEW second \in Seq(Words),
         NEW join \in Words, join \in Separator \cup {">", "$("}
  PROVE  IsComposed(first \o <<join>> \o second)
<1> DEFINE line == first \o <<join>> \o second
<1>1. join \in {"&&", "||", ";", "|", ">", "$("}
  BY Zenon DEF Separator, ControlOperator
<1>2. Len(first) + 1 \in 1..Len(line) /\ line[Len(first) + 1] = join /\ DOMAIN line = 1..Len(line)
  <2>1. first \o <<join>> = Append(first, join)
    BY AppendIsConcat, Zenon
  <2>2. PICK start \in Seq(Words) :
          /\ start = first \o <<join>> /\ Len(start) = Len(first) + 1
          /\ start[Len(first) + 1] = join
    BY <2>1, AppendProperties
  <2>3. line = start \o second
    BY <2>2
  <2>4. /\ Len(start \o second) = Len(start) + Len(second)
        /\ (start \o second)[Len(first) + 1] = start[Len(first) + 1]
        /\ DOMAIN (start \o second) = 1..Len(start \o second)
    BY <2>2
  <2>5. QED
    BY <2>2, <2>3, <2>4
<1> HIDE DEF line
<1>3. Contains(line, join) /\ join \in ToSet(line)
  BY <1>2 DEF Contains, ToSet
<1>4. IsComposed(line)
  BY <1>3 DEF IsComposed, HasControlOperator, HasPipe, HasRedirection, HasCommandSubstitution,
              Separator, ControlOperator
<1>5. QED
  BY <1>4 DEF line

(* The first word of a git line after "git" that is not an option.         *)
LEMMA SubcommandIs ==
  ASSUME NEW Words, NEW words \in Seq(Words), words # <<>>, NEW m \in 2..Len(words),
         words[m] \notin Flags, \A j \in 2..m - 1 : words[j] \in Flags
  PROVE  GitSubcommand(words) = words[m]
<1>1. PICK tail \in Seq(Words) :
        /\ tail = Tail(words) /\ Len(tail) = Len(words) - 1 /\ DOMAIN tail = 1..Len(tail)
        /\ \A j \in 1..Len(tail) : tail[j] = words[j + 1]
  <2>1. PICK tail : tail = Tail(words)
    OBVIOUS
  <2>2. /\ tail \in Seq(Words) /\ Len(tail) = Len(words) - 1
        /\ \A j \in 1..Len(tail) : tail[j] = words[j + 1]
    BY <2>1, HeadTailProperties
  <2>3. DOMAIN tail = 1..Len(tail)
    BY <2>2
  <2>4. QED
    BY <2>1, <2>2, <2>3
<1> DEFINE I == {j \in 1..Len(tail) : tail[j] \notin Flags}
<1>2. m - 1 \in I /\ \A j \in I : m - 1 <= j
  <2>1. m \in Int /\ Len(words) \in Nat
    OBVIOUS
  <2>2. m - 1 \in I
    BY <1>1, <2>1
  <2>3. ASSUME NEW j \in I, ~(m - 1 <= j) PROVE FALSE
    <3>1. j \in Nat /\ j + 1 \in 2..m - 1 /\ tail[j] = words[j + 1]
      BY <1>1, <2>1, <2>3
    <3>2. QED
      BY <2>3, <3>1
  <2>4. QED
    BY <2>2, <2>3
<1>3. \A k \in I : (\A j \in I : k <= j) => k = m - 1
  BY <1>2
<1>4. Min(I) = m - 1
  <2> HIDE DEF I
  <2> QED BY <1>2, <1>3, Zenon DEF Min
<1>5. GitSubcommand(words) = Word(tail, m - 1)
  BY <1>1, <1>2, <1>4, Zenon DEF GitSubcommand, SelectInSeq
<1>6. m - 1 \in DOMAIN tail /\ tail[m - 1] = words[m]
  BY <1>1
<1>7. QED
  BY <1>5, <1>6 DEF Word

(* What stands behind a word that is no option, no subcommand and no       *)
(* script does not name what a line is.                                    *)
LEMMA NamedByFirst ==
  ASSUME NEW Words, NEW first \in Seq(Words), first # <<>>, NEW rest \in Seq(Words),
         NEW word \in Words,
         word \notin Flags \cup GitReadCommands \cup VerificationScripts \cup {"run"},
         NEW line, line = first \o <<word>> \o rest
  PROVE  /\ ReadsByName(line) => ReadsByName(first)
         /\ VerifiesByName(line) => VerifiesByName(first)
<1> DEFINE n == Len(first)
<1>1. /\ line \in Seq(Words) /\ n \in Nat \ {0} /\ Len(line) = n + 1 + Len(rest)
      /\ Len(rest) \in Nat /\ line[n + 1] = word /\ \A j \in 1..n : line[j] = first[j]
  <2>1. PICK start \in Seq(Words) :
          /\ start = first \o <<word>> /\ Len(start) = n + 1
          /\ start[n + 1] = word /\ \A j \in 1..n : start[j] = first[j]
    <3>1. PICK start : start = Append(first, word)
      OBVIOUS
    <3>2. start = first \o <<word>>
      BY <3>1, AppendIsConcat, Zenon
    <3>3. /\ start \in Seq(Words) /\ Len(start) = n + 1
          /\ start[n + 1] = word /\ \A j \in 1..n : start[j] = first[j]
      BY <3>1, AppendProperties
    <3>4. QED
      BY <3>2, <3>3
  <2>2. line = start \o rest
    BY <2>1
  <2>3. QED
    BY <2>1, <2>2, ConcatProperties
<1>2. DOMAIN line = 1..Len(line) /\ DOMAIN first = 1..n
  BY <1>1
<1>3. line[1] = first[1]
  BY <1>1
<1>4. ASSUME ReadsByName(line) PROVE ReadsByName(first)
  <2> DEFINE I == {j \in 2..n + 1 : line[j] \notin Flags}
  <2>1. I \in SUBSET Nat /\ n + 1 \in I
    BY <1>1
  <2>2. PICK m \in I : \A j \in I : m <= j
    BY <2>1, HasLeast
  <2>3. m \in 2..Len(line) /\ m \in 2..n + 1 /\ \A j \in 2..m - 1 : line[j] \in Flags
    BY <1>1, <2>2
  <2>4. GitSubcommand(line) = line[m]
    <3>1. line # <<>> /\ line[m] \notin Flags
      BY <1>1, <2>2
    <3>2. QED
      BY <1>1, <2>3, <3>1, SubcommandIs
  <2>5. line[m] \in GitReadCommands /\ ToSet(line) \cap GitWriteFlags = {}
    BY <1>4, <2>4 DEF ReadsByName, GitReads
  <2>6. m \in 2..n
    BY <1>1, <2>3, <2>5
  <2>7. first[m] = line[m] /\ \A j \in 2..m - 1 : first[j] \in Flags
    BY <1>1, <2>3, <2>6
  <2>8. GitSubcommand(first) = first[m]
    BY <2>2, <2>6, <2>7, SubcommandIs
  <2>9. ToSet(first) \subseteq ToSet(line)
    BY <1>1, <1>2 DEF ToSet
  <2>10. QED
    BY <1>3, <1>4, <2>5, <2>7, <2>8, <2>9 DEF ReadsByName, GitReads
<1>5. ASSUME VerifiesByName(line) PROVE VerifiesByName(first)
  <2>1. line[1] \in PackageManagers /\ PackageScriptName(line) \in VerificationScripts
    BY <1>5 DEF VerifiesByName, IsScript
  <2>2. \A i \in {2, 3} : i <= n => Word(line, i) = Word(first, i)
    <3>1. \A i \in {2, 3} : i <= n => i \in 1..Len(line) /\ i \in 1..n
      BY <1>1
    <3>2. QED
      BY <1>1, <1>2, <3>1 DEF Word
  <2>3. \A i \in {2, 3} : i = n + 1 => Word(line, i) = word
    <3>1. \A i \in {2, 3} : i = n + 1 => i \in 1..Len(line)
      BY <1>1
    <3>2. QED
      BY <1>1, <1>2, <3>1 DEF Word
  <2>4. CASE n = 1
    <3>1. Word(line, 2) = word
      BY <2>3, <2>4
    <3>2. PackageScriptName(line) \in {word, ""}
      BY <3>1, Zenon DEF PackageScriptName
    <3>3. QED
      BY <2>1, <3>2 DEF VerificationScripts
  <2>5. CASE n >= 2
    <3>1. Word(line, 2) = Word(first, 2)
      BY <2>2, <2>5
    <3>2. CASE Word(line, 2) = "run"
      <4>1. PackageScriptName(line) = Word(line, 3) /\ PackageScriptName(first) = Word(first, 3)
        BY <3>1, <3>2, Zenon DEF PackageScriptName
      <4>2. Word(line, 3) # word
        BY <2>1, <4>1
      <4>3. n >= 3
        BY <1>1, <2>3, <2>5, <4>2
      <4>4. Word(line, 3) = Word(first, 3)
        BY <2>2, <4>3
      <4>5. QED
        BY <1>3, <2>1, <4>1, <4>4 DEF VerifiesByName, IsScript
    <3>3. CASE Word(line, 2) # "run"
      <4>1. PackageScriptName(line) = PackageScriptName(first)
        BY <1>3, <3>1, <3>3 DEF PackageScriptName
      <4>2. QED
        BY <1>3, <2>1, <4>1 DEF VerifiesByName, IsScript
    <3>4. QED
      BY <3>2, <3>3
  <2>6. QED
    BY <1>1, <2>4, <2>5
<1>6. QED
  BY <1>4, <1>5

(* A command named for reading or verifying is harmless.                   *)
LEMMA NamedIsHarmless ==
  ASSUME NEW command \in Commands, ReadsByName(command) \/ VerifiesByName(command)
  PROVE  Does[command] \in Harmless \cup NotLookedFor
BY NamesAssumption DEF Harmless, NotLookedFor

(* Two commands joined by an operator of the parser do not run.            *)
LEMMA JoinedIsStopped ==
  ASSUME NEW Texts, NEW first \in Seq(Texts), NEW second \in Seq(Texts), NEW profile,
         NEW join \in Separator \cup {">", "$("}
  PROVE  ~CanRun(first \o <<join>> \o second, profile)
<1>1. PICK Words : /\ join \in Words
                   /\ first \in Seq(Words) /\ second \in Seq(Words)
  <2>1. PICK Words : Words = Texts \cup {join}
    OBVIOUS
  <2>2. Texts \subseteq Words /\ join \in Words
    BY <2>1
  <2>3. first \in Seq(Words) /\ second \in Seq(Words)
    BY <2>2, SeqMonotonic, Zenon
  <2>4. QED
    BY <2>2, <2>3
<1>2. IsComposed(first \o <<join>> \o second)
  BY <1>1, JoinedIsComposed, Zenon
<1>3. QED
  BY <1>2, AllowedAlone

(* What the policy knows of a line that it lets run is harmless.           *)
LEMMA PermittedIsHarmless ==
  ASSUME NEW does \in Permitted
  PROVE  does \subseteq Harmless \cup NotLookedFor
<1>1. PICK r \in Rulings : r.allowed /\ does = r.does
  BY DEF Permitted
<1>2. \A command \in Commands : command \in Seq(STRING) /\ command # <<>>
  BY PolicyAssumption DEF Commands
<1>3. ASSUME NEW profile \in Profiles, r = Ruling(<<>>, profile, {})
      PROVE  FALSE
  BY <1>1, <1>3, AllowedAlone DEF Ruling
<1>4. ASSUME NEW first \in Commands, NEW profile \in Profiles,
             r = Ruling(first, profile, {Does[first]})
      PROVE  does \subseteq Harmless \cup NotLookedFor
  <2>1. CanRun(first, profile) /\ does = {Does[first]}
    BY <1>1, <1>4 DEF Ruling
  <2>2. QED
    BY <2>1, AllowedAlone, NamedIsHarmless
<1>5. ASSUME NEW Words, STRING \subseteq Words, NEW first \in Commands, NEW second \in Seq(Words),
             NEW profile, NEW ends, NEW join \in Separator \cup {">", "$("},
             r = Ruling(first \o <<join>> \o second, profile, ends)
      PROVE  FALSE
  <2>1. CanRun(first \o <<join>> \o second, profile)
    BY <1>1, <1>5 DEF Ruling
  <2>2. first \in Seq(Words)
    BY <1>2, <1>5, SeqMonotonic, Zenon
  <2>3. QED
    BY <2>1, <2>2, JoinedIsStopped
<1>6. ASSUME NEW first \in Commands, NEW second \in Commands, NEW profile \in Profiles,
             r = Ruling(first \o <<Background>> \o second, profile, {Does[first], "unseen"})
      PROVE  does \subseteq Harmless \cup NotLookedFor
  <2>1. PICK line : line = first \o <<Background>> \o second
    OBVIOUS
  <2>2. CanRun(line, profile) /\ does = {Does[first], "unseen"}
    BY <1>1, <1>6, <2>1 DEF Ruling
  <2>3. ReadsByName(line) \/ VerifiesByName(line)
    BY <2>2, AllowedAlone
  <2>4. Background \notin Flags \cup GitReadCommands \cup VerificationScripts \cup {"run"}
    <3>1. Background \notin Flags
      BY FlagsAssumption, Zenon
    <3>2. Background = "&"
      BY Zenon DEF Background
    <3>3. Background \notin GitReadCommands \cup VerificationScripts \cup {"run"}
      BY <3>2 DEF GitReadCommands, VerificationScripts
    <3>4. QED
      BY <3>1, <3>3, Zenon
  <2>5. PICK Words : Words = STRING \cup {Background}
    OBVIOUS
  <2>6. STRING \subseteq Words /\ Background \in Words
    BY <2>5
  <2>7. first \in Seq(Words) /\ first # <<>> /\ second \in Seq(Words)
    BY <1>2, <2>6, SeqMonotonic, Zenon
  <2>8. ReadsByName(first) \/ VerifiesByName(first)
    BY <2>1, <2>3, <2>4, <2>6, <2>7, NamedByFirst
  <2>9. Does[first] \in Harmless \cup NotLookedFor
    BY <2>8, NamedIsHarmless
  <2>10. QED
    BY <2>2, <2>9 DEF NotLookedFor
<1>7. ASSUME NEW line, NEW profile, r = Ruling(line, profile, {"unseen"})
      PROVE  does \subseteq Harmless \cup NotLookedFor
  BY <1>1, <1>7 DEF Ruling, NotLookedFor
<1>8. CASE r \in SeenRulings
  <2> DEFINE joins == Separator \cup {"$("}
             joined(first, second, join, profile) ==
               Ruling(first \o <<join>> \o second, profile, {Does[first], Does[second]})
             redirected(first, profile) ==
               Ruling(first \o <<">", "file">>, profile, {Does[first], "writes"})
             Empty == {Ruling(<<>>, profile, {}) : profile \in Profiles}
             Single == {Ruling(first, profile, {Does[first]}) :
                          first \in Commands, profile \in Profiles}
             Redirected == {redirected(first, profile) :
                              first \in Commands, profile \in Profiles}
             Joined == {joined(first, second, join, profile) :
                          first \in Commands, second \in Commands, join \in joins,
                          profile \in Profiles}
  <2>1. SeenRulings = Empty \cup Single \cup Redirected \cup Joined
    BY DEF SeenRulings
  <2>2. CASE r \in Empty
    BY <1>3, <2>2
  <2>3. CASE r \in Single
    <3>1. \E first \in Commands, profile \in Profiles : r = Ruling(first, profile, {Does[first]})
      BY <2>3
    <3>2. QED
      BY <1>4, <3>1
  <2>4. CASE r \in Redirected
    <3> HIDE DEF redirected
    <3>1. PICK first \in Commands, profile \in Profiles : r = redirected(first, profile)
      BY <2>4
    <3>2. first \o <<">", "file">> = first \o <<">">> \o <<"file">>
      BY <1>2
    <3>3. PICK Words : Words = STRING \cup {"file"}
      OBVIOUS
    <3>4. STRING \subseteq Words /\ <<"file">> \in Seq(Words)
      BY <3>3
    <3>5. ">" \in Separator \cup {">", "$("}
      BY Zenon
    <3>6. QED
      BY <1>5, <3>1, <3>2, <3>4, <3>5, Zenon DEF redirected
  <2>5. CASE r \in Joined
    <3> HIDE DEF joined, joins
    <3>1. PICK first \in Commands, second \in Commands, join \in joins, profile \in Profiles :
            r = joined(first, second, join, profile)
      BY <2>5
    <3>2. join \in Separator \cup {">", "$("}
      BY <3>1, Zenon DEF joins
    <3>3. second \in Seq(STRING) /\ STRING \subseteq STRING
      BY <1>2, <3>1
    <3>4. QED
      BY <1>5, <3>1, <3>2, <3>3, Zenon DEF joined
  <2> HIDE DEF Empty, Single, Redirected, Joined
  <2>6. QED
    BY <1>8, <2>1, <2>2, <2>3, <2>4, <2>5
<1>9. CASE r \in UnseenRulings
  <2> DEFINE named(first, second, profile) ==
               Ruling(first \o <<Background>> \o second, profile, {Does[first], "unseen"})
             glue(first) == Front(first) \o <<GluedRedirection(Last(first))>>
             background == {named(first, second, profile) :
                              first \in Commands, second \in Commands, profile \in Profiles}
             newline == {Ruling(first \o second, profile, {"unseen"}) :
                           first \in Commands, second \in Commands, profile \in Profiles}
             glued == {Ruling(glue(first), profile, {"unseen"}) :
                         first \in Commands, profile \in Profiles}
  <2>1. UnseenRulings = background \cup newline \cup glued
    BY DEF UnseenRulings
  <2>2. CASE r \in background
    <3>1. \E first \in Commands, second \in Commands, profile \in Profiles :
            r = named(first, second, profile)
      BY <2>2
    <3>2. QED
      BY <1>6, <3>1
  <2>3. CASE r \in newline
    BY <1>7, <2>3
  <2>4. CASE r \in glued
    <3> HIDE DEF glue
    <3> QED BY <1>7, <2>4
  <2> HIDE DEF background, newline, glued
  <2>5. QED
    BY <1>9, <2>1, <2>2, <2>3, <2>4
<1>10. QED
  BY <1>1, <1>8, <1>9 DEF Rulings

(* The command that the verifier selects is one that the policy lets run.  *)
LEMMA SelectedScript ==
  ASSUME NEW profile \in Profiles
  PROVE  \/ SelectedCommands(profile) = {}
         \/ \E script \in {"typecheck", "build", "test"} \cap profile.scripts :
              SelectedCommands(profile) = {ScriptCommand(Manager(profile), script)}
<1> DEFINE scripts == <<"typecheck", "build", "test">>
           I == {i \in 1..Len(scripts) : scripts[i] \in profile.scripts}
<1>1. CASE I = {}
  BY <1>1, Zenon DEF SelectedCommands, SelectInSeq
<1>2. CASE I # {}
  <2>1. I \in SUBSET Nat /\ Len(scripts) = 3 /\ I \subseteq 1..3
    OBVIOUS
  <2>2. PICK i \in I : \A j \in I : i <= j
    BY <1>2, <2>1, HasLeast
  <2>3. \A m \in I : (\A j \in I : m <= j) => m = i
    BY <2>1, <2>2
  <2>4. Min(I) = i
    <3> HIDE DEF I
    <3> QED BY <2>2, <2>3, Zenon DEF Min
  <2>5. scripts[i] \in {"typecheck", "build", "test"} \cap profile.scripts
    BY <2>1, <2>2
  <2>6. i # 0
    BY <2>1, <2>2
  <2>7. SelectedCommands(profile) = {ScriptCommand(Manager(profile), scripts[i])}
    BY <1>2, <2>4, <2>6, Zenon DEF SelectedCommands, SelectInSeq
  <2>8. QED
    BY <2>5, <2>7
<1>3. QED
  BY <1>1, <1>2

(* A script that the verifier selects of a workspace is let run.           *)
LEMMA ScriptRuns ==
  ASSUME NEW profile \in Profiles,
         NEW script \in {"typecheck", "build", "test"} \cap profile.scripts
  PROVE  CanRun(ScriptCommand(Manager(profile), script), profile)
<1>1. PICK manager \in {"pnpm", "npm", "yarn"} : manager = Manager(profile)
  BY PolicyAssumption DEF Manager
<1>2. PICK words : words = ScriptCommand(manager, script)
  OBVIOUS
<1>3. /\ Len(words) \in {2, 3} /\ DOMAIN words = 1..Len(words) /\ words # <<>>
      /\ words[1] = manager
      /\ words[2] = IF manager = "npm" THEN "run" ELSE script
      /\ Len(words) = 3 => words[3] = script
      /\ manager = "npm" => Len(words) = 3
  <2>1. CASE manager = "npm"
    <3>1. words = <<"npm", "run", script>>
      BY <1>2, <2>1 DEF ScriptCommand
    <3>2. QED
      BY <2>1, <3>1
  <2>2. CASE manager # "npm"
    <3>1. words = <<manager, script>>
      BY <1>2, <2>2 DEF ScriptCommand
    <3>2. QED
      BY <2>2, <3>1
  <2>3. QED
    BY <2>1, <2>2
<1>4. \A i \in DOMAIN words : words[i] \in {"pnpm", "npm", "yarn", "run", "typecheck", "build", "test"}
  BY <1>3
<1>5. ~IsDangerous(words)
  BY <1>3, <1>4 DEF IsDangerous, Word
<1>6. ~IsComposed(words)
  BY <1>3, <1>4 DEF IsComposed, HasControlOperator, HasPipe, HasRedirection,
                    HasCommandSubstitution, Contains, ToSet, ControlOperator, Quoted
<1>7. IsPackageScript(words, profile, VerificationScripts) /\ words[1] \notin DestructiveFsCommands
  <2>1. Word(words, 2) = words[2] /\ (manager = "npm" => Word(words, 3) = script)
    <3>1. 2 \in DOMAIN words /\ (manager = "npm" => 3 \in DOMAIN words)
      BY <1>3
    <3>2. QED
      BY <1>3, <3>1 DEF Word
  <2>2. PackageScriptName(words) = script
    <3>1. CASE manager = "npm"
      <4>1. Word(words, 2) = "run" /\ Word(words, 3) = script
        BY <1>3, <2>1, <3>1
      <4>2. QED
        BY <4>1, Zenon DEF PackageScriptName
    <3>2. CASE manager # "npm"
      <4>1. Word(words, 2) = script /\ Word(words, 2) # "run" /\ words[1] # "npm"
        BY <1>3, <2>1, <3>2
      <4>2. QED
        BY <4>1, Zenon DEF PackageScriptName
    <3>3. QED
      BY <3>1, <3>2
  <2>3. words[1] \notin DestructiveFsCommands
    BY <1>3 DEF DestructiveFsCommands
  <2>4. IsScript(words, VerificationScripts)
    BY <1>3, <2>2 DEF IsScript, PackageManagers, VerificationScripts
  <2>5. QED
    BY <1>1, <1>3, <2>2, <2>3, <2>4 DEF IsPackageScript
<1>8. CategoryOfSegment(words, profile) = "verification"
  <2> DEFINE cases == <<
      [when |-> words[1] \in DestructiveFsCommands,                    is |-> "destructive_fs"],
      [when |-> IsPackageScript(words, profile, VerificationScripts),  is |-> "verification"],
      [when |-> IsFormat(words),                                       is |-> "format"],
      [when |-> IsDependencyMutation(words),                           is |-> "dependency_mutation"],
      [when |-> words[1] = "git",                                      is |-> GitCategory(words)],
      [when |-> words[1] \in NetworkCommands,                          is |-> "network"],
      [when |-> TRUE,                                                  is |-> "unknown"]>>
  <2>1. CategoryOfSegment(words, profile) = FirstOf(cases) /\ Len(cases) = 7
        /\ ~cases[1].when /\ cases[2].when /\ cases[2].is = "verification"
    BY <1>7 DEF CategoryOfSegment
  <2> HIDE DEF cases
  <2>2. QED
    BY <2>1, FirstOfIs
<1>9. Category(words, profile) = "verification"
  BY <1>3, <1>6, <1>8 DEF Category
<1>10. QED
  BY <1>1, <1>2, <1>3, <1>5, <1>9, RuleOrder

-----------------------------------------------------------------------------
(* The verification.                                                       *)

(* What the verifier's process may be doing.                               *)
MayVerify == Permitted \cup {{}, {"verifies"}}

(* The states of the verification.                                         *)
VerifierSet ==
  [at : {"idle", "running", "done", "threw"}, asked : 0..MaxCommands, selected : BOOLEAN,
   does : MayVerify, child : {"none", "alive", "told", "gone"},
   timer : {"off", "armed", "fired"}, listens : BOOLEAN, timedOut : BOOLEAN,
   results : Seq(Result)]

(* A result is earned, as far as its own record says.                      *)
ResultOK(r, selected) ==
  /\ r.passed => r.process = "ended"
  /\ selected => r.process # "none"

(* Between two commands nothing is left of the last one.                   *)
Between(v) ==
  /\ v \in VerifierSet
  /\ Len(v.results) <= v.asked
  /\ v.child \in {"none", "gone"} /\ v.timer # "armed" /\ ~v.listens
  /\ \A i \in 1..Len(v.results) : ResultOK(v.results[i], v.selected)

(* While a command runs its result is still to come, and its process was   *)
(* told to stop only if its time was up or the run aborted.                *)
VerdictInv ==
  IF verifier.at = "running"
  THEN /\ verifier \in VerifierSet
       /\ Len(verifier.results) < verifier.asked
       /\ verifier.child \in {"alive", "told"}
       /\ verifier.child = "told" => verifier.timedOut
       /\ \A i \in 1..Len(verifier.results) :
            ResultOK(verifier.results[i], verifier.selected)
  ELSE /\ Between(verifier)
       /\ verifier.at = "done" => Len(verifier.results) = verifier.asked
       /\ verifier.at = "idle" => verifier = Idle

(* The commands before the next that may run are passed over with a        *)
(* rejection each.                                                         *)
LEMMA SkipRejected ==
  ASSUME NEW v, Between(v), NEW n \in 0..v.asked - Len(v.results), v.selected => n = 0
  PROVE  LET w == [v EXCEPT !.results = @ \o [i \in 1..n |-> Rejected]] IN
         /\ Between(w) /\ Len(w.results) = Len(v.results) + n
         /\ w.asked = v.asked /\ w.selected = v.selected
<1>1. v.asked \in Nat /\ v.results \in Seq(Result) /\ Len(v.results) \in Nat /\ n \in Nat
  BY VerifierAssumption DEF Between, VerifierSet
<1>2. Rejected \in Result
  BY DEF Rejected, Result
<1>3. PICK more \in Seq(Result) : /\ more = [i \in 1..n |-> Rejected]
                                 /\ Len(more) = n /\ \A i \in 1..n : more[i] = Rejected
  <2>1. [i \in 1..n |-> Rejected] \in [1..n -> Result]
    BY <1>2
  <2>2. PICK more : more = [i \in 1..n |-> Rejected]
    OBVIOUS
  <2>3. more \in [1..n -> Result] /\ \A i \in 1..n : more[i] = Rejected
    BY <2>1, <2>2
  <2>4. more \in Seq(Result) /\ Len(more) = n
    BY <1>1, <2>3, LenProperties, SeqDef
  <2>5. QED
    BY <2>2, <2>3, <2>4
<1>4. PICK old \in Seq(Result) : old = v.results
  BY <1>1
<1> DEFINE results == old \o more
<1>5. /\ Len(results) = Len(v.results) + n
      /\ \A i \in 1..Len(results) :
           results[i] = IF i <= Len(v.results) THEN v.results[i] ELSE Rejected
      /\ results \in Seq(Result)
  <2>1. /\ results \in Seq(Result) /\ Len(results) = Len(old) + n
        /\ \A i \in 1..Len(old) + n :
             results[i] = IF i <= Len(old) THEN old[i] ELSE more[i - Len(old)]
    BY <1>3, ConcatProperties
  <2>2. \A i \in 1..Len(old) + n : i <= Len(old) \/ i - Len(old) \in 1..n
    BY <1>1, <1>4
  <2> HIDE DEF results
  <2>3. QED
    BY <1>3, <1>4, <2>1, <2>2
<1> HIDE DEF results
<1>6. PICK w \in VerifierSet : w = [v EXCEPT !.results = results]
  BY <1>5 DEF Between, VerifierSet
<1>7. /\ w.results = results /\ w.asked = v.asked /\ w.selected = v.selected
      /\ w.child = v.child /\ w.timer = v.timer /\ w.listens = v.listens
  BY <1>6 DEF Between, VerifierSet
<1>8. \A i \in 1..Len(results) : ResultOK(results[i], v.selected)
  BY <1>1, <1>5 DEF Between, ResultOK, Rejected
<1>9. Between(w)
  BY <1>1, <1>5, <1>7, <1>8 DEF Between
<1>10. w = [v EXCEPT !.results = @ \o [i \in 1..n |-> Rejected]]
  BY <1>3, <1>4, <1>6 DEF results
<1>11. QED
  BY <1>5, <1>7, <1>9, <1>10

(* The verification goes on to the next command, or is done.               *)
LEMMA ContinuesKeeps ==
  ASSUME NEW v, Between(v), NEW rulings, Continues(v, rulings), aborted \in BOOLEAN,
         \A r \in rulings : r.allowed => r.does \in MayVerify,
         v.selected => \A r \in rulings : r.allowed
  PROVE  VerdictInv'
<1>1. PICK n \in 0..v.asked - Len(v.results) :
        LET w == [v EXCEPT !.results = @ \o [i \in 1..n |-> Rejected]] IN
        /\ n > 0 => \E r \in rulings : ~r.allowed
        /\ \/ /\ Len(w.results) = v.asked
              /\ verifier' = [w EXCEPT !.at = "done"]
           \/ /\ Len(w.results) < v.asked
              /\ \E does \in {r.does : r \in {q \in rulings : q.allowed}} :
                   verifier' = Started(w, does)
  BY DEF Continues
<1>2. v.selected => n = 0
  BY <1>1
<1>3. PICK w : /\ w = [v EXCEPT !.results = @ \o [i \in 1..n |-> Rejected]]
               /\ Between(w) /\ w.asked = v.asked
  BY <1>2, SkipRejected
<1>4. CASE Len(w.results) = v.asked /\ verifier' = [w EXCEPT !.at = "done"]
  <2>1. /\ verifier' \in VerifierSet /\ verifier'.at = "done" /\ verifier'.results = w.results
        /\ verifier'.asked = w.asked /\ verifier'.selected = w.selected
        /\ verifier'.child = w.child /\ verifier'.timer = w.timer
        /\ verifier'.listens = w.listens
    BY <1>3, <1>4 DEF Between, VerifierSet
  <2>2. QED
    BY <1>3, <1>4, <2>1 DEF VerdictInv, Between
<1>5. ASSUME Len(w.results) < v.asked, NEW does \in MayVerify, verifier' = Started(w, does)
      PROVE  VerdictInv'
  <2>1. /\ verifier' \in VerifierSet /\ verifier'.at = "running" /\ verifier'.results = w.results
        /\ verifier'.asked = w.asked /\ verifier'.selected = w.selected
        /\ verifier'.child = "alive"
    BY <1>3, <1>5 DEF Between, VerifierSet, Started
  <2>2. QED
    BY <1>3, <1>5, <2>1 DEF VerdictInv, Between
<1>6. QED
  BY <1>1, <1>3, <1>4, <1>5

(* Nothing is left between two commands once one has closed, and what it   *)
(* reports is earned.                                                      *)
LEMMA ClosedBetween ==
  ASSUME VerdictInv, verifier.at = "running", NEW exitCode \in 0..1
  PROVE  LET v == [Closed(verifier) EXCEPT !.results =
                     Append(@, [passed  |-> Verdict(verifier, exitCode),
                                process |-> HowItEnded(verifier)])]
         IN  Between(v) /\ v.selected = verifier.selected
<1>1. /\ verifier \in VerifierSet /\ verifier.results \in Seq(Result)
      /\ Len(verifier.results) \in Nat /\ verifier.asked \in Nat
      /\ Len(verifier.results) < verifier.asked
  BY VerifierAssumption DEF VerdictInv, VerifierSet
<1>2. PICK r \in Result :
        /\ r = [passed |-> Verdict(verifier, exitCode), process |-> HowItEnded(verifier)]
        /\ ResultOK(r, verifier.selected)
  <2>1. Verdict(verifier, exitCode) \in BOOLEAN /\ HowItEnded(verifier) \in {"ended", "killed"}
        /\ (Verdict(verifier, exitCode) => HowItEnded(verifier) = "ended")
    BY DEF Verdict, HowItEnded, VerdictInv, VerifierSet
  <2>2. PICK passed \in BOOLEAN, process \in {"ended", "killed"} :
          /\ passed = Verdict(verifier, exitCode) /\ process = HowItEnded(verifier)
          /\ passed => process = "ended"
    BY <2>1
  <2>3. PICK r : r = [passed |-> passed, process |-> process]
    OBVIOUS
  <2>4. r \in Result /\ r.passed = passed /\ r.process = process
    BY <2>3 DEF Result
  <2>5. QED
    BY <2>2, <2>3, <2>4 DEF ResultOK
<1>3. PICK old \in Seq(Result) : old = verifier.results
  BY <1>1
<1>4. PICK results \in Seq(Result) :
        /\ results = Append(old, r) /\ Len(results) = Len(old) + 1
        /\ \A i \in 1..Len(old) : results[i] = old[i]
        /\ results[Len(old) + 1] = r
  BY AppendProperties
<1>5. \A i \in 1..Len(results) : ResultOK(results[i], verifier.selected)
  <2>1. \A i \in 1..Len(old) : ResultOK(old[i], verifier.selected)
    BY <1>3 DEF VerdictInv
  <2>2. QED
    BY <1>2, <1>4, <2>1
<1>6. Closed(verifier) \in VerifierSet /\ Closed(verifier).child = "gone"
      /\ Closed(verifier).timer # "armed" /\ ~Closed(verifier).listens
      /\ Closed(verifier).asked = verifier.asked /\ Closed(verifier).selected = verifier.selected
      /\ Closed(verifier).results = old
  BY <1>1, <1>3 DEF Closed, VerifierSet, Disarmed
<1>7. PICK v \in VerifierSet : v = [Closed(verifier) EXCEPT !.results = results]
  BY <1>6 DEF VerifierSet
<1>8. /\ v.results = results /\ v.child = "gone" /\ v.timer # "armed" /\ ~v.listens
      /\ v.asked = verifier.asked /\ v.selected = verifier.selected
  BY <1>6, <1>7 DEF VerifierSet
<1>9. Between(v)
  BY <1>1, <1>3, <1>4, <1>5, <1>8 DEF Between
<1>10. v = [Closed(verifier) EXCEPT !.results =
                     Append(@, [passed  |-> Verdict(verifier, exitCode),
                                process |-> HowItEnded(verifier)])]
  BY <1>2, <1>4, <1>6, <1>7
<1>11. QED
  BY <1>8, <1>9, <1>10

(* What is let run does what a verification may do.                        *)
LEMMA RulingsMayVerify ==
  \A r \in Rulings : r.allowed => r.does \in MayVerify
BY DEF Permitted, MayVerify

(* What the verification begins with.                                      *)
Asked(n, selected) ==
  [at |-> "idle", asked |-> n, selected |-> selected, does |-> {}, child |-> "none",
   timer |-> "off", listens |-> FALSE, timedOut |-> FALSE, results |-> <<>>]

(* The verification begins with nothing running and no result.             *)
LEMMA AskedBetween ==
  ASSUME NEW n \in 0..MaxCommands, NEW selected \in BOOLEAN
  PROVE  LET v == Asked(n, selected) IN Between(v) /\ v.selected = selected
<1>1. PICK v : v = Asked(n, selected)
  OBVIOUS
<1>2. /\ v.at = "idle" /\ v.asked = n /\ v.selected = selected /\ v.does = {}
      /\ v.child = "none" /\ v.timer = "off" /\ v.listens = FALSE /\ v.timedOut = FALSE
      /\ v.results = <<>>
  BY <1>1 DEF Asked
<1>3. v \in VerifierSet
  <2>1. <<>> \in Seq(Result) /\ {} \in MayVerify
    BY DEF MayVerify
  <2>2. QED
    BY <1>1, <2>1 DEF Asked, VerifierSet
<1>4. Between(v)
  BY <1>2, <1>3, VerifierAssumption DEF Between
<1>5. QED
  BY <1>1, <1>2, <1>3, <1>4

(* The verification begins.                                                *)
LEMMA VerifyKeeps ==
  ASSUME VerdictInv, Verify, aborted \in BOOLEAN
  PROVE  VerdictInv'
<1>1. verifier = Idle
  BY DEF Verify, VerdictInv
<1>2. ASSUME NEW n \in 1..MaxCommands, Continues([verifier EXCEPT !.asked = n], Rulings)
      PROVE  VerdictInv'
  <2>1. PICK v : v = [verifier EXCEPT !.asked = n] /\ Continues(v, Rulings)
    BY <1>2
  <2>2. v = Asked(n, FALSE)
    BY <1>1, <2>1 DEF Idle, Asked
  <2>3. n \in 0..MaxCommands
    BY VerifierAssumption
  <2>4. Between(v) /\ v.selected = FALSE
    BY <2>2, <2>3, AskedBetween
  <2>5. QED
    BY <2>1, <2>4, ContinuesKeeps, RulingsMayVerify
<1>3. ASSUME NEW profile \in Profiles,
             LET commands == SelectedCommands(profile)
                 v == [verifier EXCEPT !.selected = TRUE, !.asked = Cardinality(commands)]
             IN  Continues(v, {Ruling(c, profile, {"verifies"}) : c \in commands})
      PROVE  VerdictInv'
  <2>1. PICK commands : commands = SelectedCommands(profile)
    OBVIOUS
  <2>2. PICK rulings : rulings = {Ruling(c, profile, {"verifies"}) : c \in commands}
    OBVIOUS
  <2>3. PICK v : /\ v = [verifier EXCEPT !.selected = TRUE, !.asked = Cardinality(commands)]
                 /\ Continues(v, rulings)
    BY <1>3, <2>1, <2>2
  <2>4. Cardinality(commands) \in 0..1 /\ \A c \in commands : CanRun(c, profile)
    <3>1. CASE commands = {}
      BY <3>1, FS_EmptySet
    <3>2. ASSUME NEW script \in {"typecheck", "build", "test"} \cap profile.scripts,
                 commands = {ScriptCommand(Manager(profile), script)}
          PROVE  Cardinality(commands) \in 0..1 /\ \A c \in commands : CanRun(c, profile)
      BY <3>2, ScriptRuns, FS_Singleton
    <3>3. QED
      BY <2>1, <3>1, <3>2, SelectedScript
  <2>5. \A r \in rulings : r.allowed /\ r.does \in MayVerify
    BY <2>2, <2>4 DEF Ruling, MayVerify
  <2>6. v = Asked(Cardinality(commands), TRUE)
    BY <1>1, <2>3 DEF Idle, Asked
  <2>7. Cardinality(commands) \in 0..MaxCommands
    BY <2>4, VerifierAssumption
  <2>8. Between(v)
    BY <2>6, <2>7, AskedBetween
  <2>9. QED
    BY <2>3, <2>5, <2>8, ContinuesKeeps
<1>4. QED
  BY <1>2, <1>3 DEF Verify

(* Every step keeps what is known of the verification.                     *)
LEMMA VerdictKeeps ==
  ASSUME VerdictInv, [RoundNext]_roundVars, aborted \in BOOLEAN
  PROVE  VerdictInv'
<1>1. CASE UNCHANGED verifier
  BY <1>1 DEF VerdictInv, Between
<1>2. CASE Verify
  BY <1>2, VerifyKeeps
<1>3. CASE CommandCloses
  <2>1. PICK exitCode \in 0..1 :
          Continues([Closed(verifier) EXCEPT !.results =
                       Append(@, [passed  |-> Verdict(verifier, exitCode),
                                  process |-> HowItEnded(verifier)])],
                    IF verifier.selected THEN {} ELSE Rulings)
    BY <1>3 DEF CommandCloses
  <2>2. PICK rulings : rulings = IF verifier.selected THEN {} ELSE Rulings
    OBVIOUS
  <2>3. PICK v : /\ v = [Closed(verifier) EXCEPT !.results =
                            Append(@, [passed  |-> Verdict(verifier, exitCode),
                                       process |-> HowItEnded(verifier)])]
                 /\ Continues(v, rulings)
    BY <2>1, <2>2
  <2>4. Between(v) /\ v.selected = verifier.selected
    BY <1>3, <2>3, ClosedBetween DEF CommandCloses
  <2>5. verifier.selected \in BOOLEAN
    BY <1>3 DEF CommandCloses, VerdictInv, VerifierSet
  <2>6. \A r \in rulings : r.allowed => r.does \in MayVerify
    BY <2>2, RulingsMayVerify
  <2>7. v.selected => \A r \in rulings : r.allowed
    BY <2>2, <2>4
  <2>8. QED
    BY <2>3, <2>4, <2>6, <2>7, ContinuesKeeps
<1>4. CASE CommandErrors
  <2>1. /\ verifier.at = "running" /\ verifier \in VerifierSet
        /\ Len(verifier.results) < verifier.asked
        /\ verifier' = [Closed(verifier) EXCEPT !.at = "threw"]
    BY <1>4 DEF CommandErrors, VerdictInv
  <2>2. /\ verifier' \in VerifierSet /\ verifier'.at = "threw"
        /\ verifier'.child = "gone" /\ verifier'.timer # "armed" /\ ~verifier'.listens
        /\ verifier'.results = verifier.results /\ verifier'.asked = verifier.asked
        /\ verifier'.selected = verifier.selected
    BY <2>1 DEF Closed, VerifierSet, Disarmed
  <2>3. Len(verifier.results) <= verifier.asked
    BY <2>1, VerifierAssumption DEF VerifierSet
  <2>4. QED
    BY <2>1, <2>2, <2>3 DEF VerdictInv, Between
<1>5. ASSUME verifier.at = "running",
             \/ verifier' = [verifier EXCEPT !.timer = "fired", !.timedOut = TRUE,
                                             !.child = Told(@)]
             \/ verifier' = [verifier EXCEPT !.listens = FALSE, !.timedOut = TRUE,
                                             !.child = Told(@)]
      PROVE  VerdictInv'
  <2>1. /\ verifier' \in VerifierSet /\ verifier'.at = "running" /\ verifier'.timedOut = TRUE
        /\ verifier'.child = "told" /\ verifier'.results = verifier.results
        /\ verifier'.asked = verifier.asked /\ verifier'.selected = verifier.selected
    BY <1>5 DEF VerdictInv, VerifierSet, Told
  <2>2. QED
    BY <1>5, <2>1 DEF VerdictInv
<1>6. CASE CommandTimesOut
  BY <1>5, <1>6 DEF CommandTimesOut, VerdictInv, Between
<1>7. CASE AbortsBoth
  BY <1>1, <1>5, <1>7 DEF AbortsBoth, VerdictInv, Between
<1>8. QED
  BY <1>1, <1>2, <1>3, <1>4, <1>6, <1>7 DEF RoundNext, roundVars

-----------------------------------------------------------------------------
(* What is left to know of the types.                                      *)
TurnTypes ==
  /\ turn \in 1..NumCalls + 1
  /\ listening \in [Calls -> BOOLEAN]
  /\ streams \in 0..MaxStreams

(* A step of a tool's body leaves the runner's place alone.                *)
LEMMA BodyStepKeepsTurn ==
  ASSUME NEW c \in Calls, BodyStep(c)
  PROVE  UNCHANGED <<turn, listening, streams>>
BY BodyEnds DEF ToolEnds, vars

(* Every step keeps the types of the runner's place.                       *)
LEMMA TurnTypesKept ==
  ASSUME TurnTypes, [RoundNext]_roundVars
  PROVE  TurnTypes'
<1>1. CASE UNCHANGED <<turn, listening, streams>>
  BY <1>1 DEF TurnTypes
<1>2. ASSUME NEW c \in Calls, CallStep(c)
      PROVE  TurnTypes'
  <2>1. CASE Runs(c)
    <3>1. /\ UNCHANGED streams /\ turn' \in {turn, c + 1}
          /\ listening' \in {listening, [listening EXCEPT ![c] = FALSE]}
      BY <2>1 DEF Runs, Begin, Refuse, Return
    <3>2. c + 1 \in 1..NumCalls + 1
      BY CallsAssumption DEF Calls
    <3>3. QED
      BY <3>1, <3>2 DEF TurnTypes
  <2>2. CASE Starts(c)
    <3>1. /\ UNCHANGED <<turn, streams>>
          /\ listening' = [listening EXCEPT ![c] = ~aborted]
      BY <2>2 DEF Starts, Dispatch
    <3>2. QED
      BY <3>1 DEF TurnTypes
  <2>3. CASE BodyStep(c)
    BY <1>1, <2>3, BodyStepKeepsTurn
  <2>4. CASE Streams(c)
    BY <2>4, CallsAssumption DEF Streams, Stream, TurnTypes
  <2>5. CASE TimesOut(c)
    BY <1>1, <2>5 DEF TimesOut, TimerFires
  <2>6. QED
    BY <1>2, <2>1, <2>2, <2>3, <2>4, <2>5 DEF CallStep
<1>3. CASE AbortsBoth
  BY <1>1, <1>3 DEF AbortsBoth, Aborts, AbortRun
<1>4. QED
  BY <1>1, <1>2, <1>3
  DEF RoundNext, Verify, CommandCloses, CommandErrors, CommandTimesOut, Finished,
      roundVars, toolVars, vars

(* What is known of the verification holds in every state.                 *)
LEMMA VerdictInvariance == RoundSpec => [](IInv /\ VerdictInv /\ TurnTypes)
<1>1. RoundInit => VerdictInv /\ TurnTypes
  <2> SUFFICES ASSUME RoundInit PROVE VerdictInv /\ TurnTypes
    OBVIOUS
  <2>1. TurnTypes
    BY CallsAssumption DEF RoundInit, ToolsInit, Init, TurnTypes
  <2>2. verifier = Asked(0, FALSE) /\ verifier = Idle
    BY DEF RoundInit, Idle, Asked
  <2>3. Between(verifier) /\ verifier.at = "idle"
    <3>1. 0 \in 0..MaxCommands /\ FALSE \in BOOLEAN
      BY VerifierAssumption
    <3>2. Between(Asked(0, FALSE))
      BY <3>1, AskedBetween
    <3>3. QED
      BY <2>2, <3>2 DEF Asked
  <2>4. QED
    BY <2>1, <2>2, <2>3 DEF VerdictInv
<1>2. IInv /\ VerdictInv /\ TurnTypes /\ [RoundNext]_roundVars => VerdictInv' /\ TurnTypes'
  BY VerdictKeeps, TurnTypesKept DEF IInv, TypesInv
<1>3. QED
  BY <1>1, <1>2, InductiveInv, PTL DEF RoundSpec

(* What the policy knows of a process that is spawned for a line of a      *)
(* model, a caller or a configuration only reads or verifies, for every    *)
(* table of commands that keeps what its names promise, and every way to   *)
(* join two of them: CommandPolicy.canRun before each spawn.  Excepted are *)
(* a branch that "git branch" makes, an option that the classifier does    *)
(* not list, and what stands behind a join that the parser does not know.  *)
THEOREM HarmlessOnly == RoundSpec => []OnlyHarmlessCommandsRun
<1>1. ASSUME IInv, VerdictInv PROVE OnlyHarmlessCommandsRun
  <2>1. verifier.does \in MayVerify
    BY <1>1 DEF VerdictInv, Between, VerifierSet
  <2>2. \A does \in MayVerify : does \subseteq Harmless \cup NotLookedFor
    BY PermittedIsHarmless DEF MayVerify, Harmless
  <2>3. \A c \in Calls : body[c].does \in MayVerify
    BY <1>1 DEF IInv, TypesInv, BodySet, MayVerify
  <2>4. QED
    BY <2>1, <2>2, <2>3 DEF OnlyHarmlessCommandsRun
<1>2. QED
  BY <1>1, VerdictInvariance, PTL

(* A verification has one result per command, leaves no process, passes no *)
(* command that was killed, and selects only commands that the policy lets *)
(* run, however many commands are asked for and whatever the scanner found *)
(* in the workspace: Verifier.verify and runCommand, selectCommands.       *)
THEOREM VerdictEarned == RoundSpec => []VerdictIsEarned
<1>1. ASSUME VerdictInv PROVE VerdictIsEarned
  <2>1. DOMAIN verifier.results = 1..Len(verifier.results)
    BY <1>1 DEF VerdictInv, Between, VerifierSet
  <2>2. QED
    BY <1>1, <2>1 DEF VerdictInv, Between, ResultOK, VerdictIsEarned
<1>2. QED
  BY <1>1, VerdictInvariance, PTL

(* Calls, tools and verification keep to their types, and a tool executes  *)
(* exactly while its body is at one of its awaits.                         *)
THEOREM RoundTypes == RoundSpec => []VerifierTypeOK
<1>1. ASSUME IInv, VerdictInv, TurnTypes, EventInv, CauseInv
      PROVE  VerifierTypeOK
  <2>1. TypeOK
    BY <1>1 DEF IInv, TypesInv, TurnTypes, EventInv, CauseInv, TypeOK
  <2>2. \A does \in MayVerify : does \subseteq Effects
    BY PermittedIsHarmless DEF MayVerify, Harmless, NotLookedFor, Effects
  <2>3. BodySet \subseteq [tool : Kinds \cup {"none"}, at : Places,
                           child : {"none", "alive", "told", "gone"},
                           timer : {"off", "armed", "fired"}, listens : BOOLEAN,
                           does : SUBSET Effects]
    BY <2>2 DEF BodySet, MayVerify
  <2>4. ToolsTypeOK
    BY <1>1, <2>1, <2>3 DEF IInv, TypesInv, CallOK, ToolsTypeOK
  <2>5. verifier \in VerifierSet
    BY <1>1 DEF VerdictInv, Between
  <2>6. QED
    BY <2>2, <2>4, <2>5 DEF VerifierSet, VerifierTypeOK
<1>2. QED
  BY <1>1, VerdictInvariance, ReportInvariance, PTL
===============================================================================
