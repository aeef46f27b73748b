----------------------------- MODULE ContextBuild -----------------------------
(***************************************************************************)
(* The context of one run: ContextManager of                               *)
(* src/src/agent/runtime/context-manager.ts, the ContextCollector with its *)
(* provider executor, and the pipeline of ContextWindow, driven by the     *)
(* loops of agent.ts and verification-pipeline.ts.                         *)
(*                                                                         *)
(* Providers are raced against their timeouts once, while the run is       *)
(* prepared.  After that the transcript grows turn by turn, and each turn  *)
(* begins with a request built anew from all of it: nothing a build        *)
(* archives, summarises or drops is remembered by the next one.            *)
(***************************************************************************)
EXTENDS ContextWindow

CONSTANTS
  Providers,       \* the context providers, in order
  Timed,           \* those with a timeoutMs
  Limits,          \* token limits a configuration may set
  Histories,       \* message lists a caller may pass as input.messages
  CallIds,         \* ids the model gives to tool calls
  PromptTok, AnswerToks, ResultToks,           \* sizes of messages
  WorkspaceTok, UserTok, ProvidedTok, FailureTok, \* sizes of sections
  Priorities,      \* priorities a caller or a provider may give to its value
  MaxTurns         \* maxIterations

ASSUME ProvidersAssumption == Providers \in Seq(STRING) /\ Timed \subseteq STRING
ASSUME TurnsAssumption == MaxTurns \in Nat /\ Limits \subseteq Nat

(* A message has the tokens of its role at least; a section may be empty.  *)
ASSUME TextsAssumption ==
  /\ {PromptTok, FailureTok} \cup AnswerToks \cup ResultToks \subseteq Nat \ {0}
  /\ {WorkspaceTok, UserTok, ProvidedTok} \subseteq Nat

(* A value that names no priority has that of its source.                  *)
ASSUME PrioritiesAssumption == Priorities \subseteq Int

(* The results of calls have keys of their own.                            *)
ASSUME CallsAssumption == IsFiniteSet(CallIds) /\ NoKey \notin CallIds /\ "failure" \notin CallIds

Message ==
  {m \in [role : {"system", "user", "assistant", "tool"}, id : Nat, calls : SUBSET CallIds,
          for : CallIds \cup {NoKey}, tok : Nat \ {0}] :
     m.calls # {} => m.role = "assistant"}

(* Each call is answered by the messages behind it, and each result        *)
(* follows its call.                                                       *)
Whole(ms) ==
  \A i \in DOMAIN ms :
    /\ ms[i].calls # {} => Complete(ms, i)
    /\ ms[i].role = "tool" => \E k \in Exchanges(ms) : i \in ExchangeOf(ms, k)

(* What a caller passes holds whole exchanges.  Nothing checks it: it is   *)
(* the caller's duty, and a run that throws inside a hook of a tool leaves *)
(* a call at its end that nothing answers.                                 *)
ASSUME HistoriesAssumption == \A history \in Histories : history \in Seq(Message) /\ Whole(history)

VARIABLES
  limit,        \* config.runtime.tokensLimit
  race,         \* what became of each provider's race
  sections,     \* document.sections of the ContextManager's run state
  transcript,   \* run.messages
  at,           \* where the run is
  stage,        \* options.stage of the build
  turn,         \* run.iteration
  request       \* what the last build made, or NoRequest

vars == <<limit, race, sections, transcript, at, stage, turn, request>>

Indexes == DOMAIN Providers

NoRequest == [status |-> "none", messages |-> <<>>, included |-> <<>>, part |-> 0,
              dropped |-> <<>>, compacted |-> FALSE, total |-> 0]

Section(kind, pri, key, tok) == [key |-> key, pri |-> pri, kind |-> kind, tok |-> tok]

System(tok) == [role |-> "system", id |-> 0, calls |-> {}, for |-> NoKey, tok |-> tok]

User(tok) == [role |-> "user", id |-> 0, calls |-> {}, for |-> NoKey, tok |-> tok]

Assistant(calls, tok) ==
  [role |-> "assistant", id |-> 0, calls |-> calls, for |-> NoKey, tok |-> tok]

ToolResult(call, tok) ==
  [role |-> "tool", id |-> 0, calls |-> {}, for |-> call, tok |-> tok]

Pushed_FromZero(ms, more) ==
  ms \o [i \in DOMAIN more |-> [more[i] EXCEPT !.id = Len(ms) + i - 1]]

(* Appends messages to the transcript, each with its place as its id.      *)
Pushed(ms, more) ==
  ms \o [i \in DOMAIN more |-> [more[i] EXCEPT !.id = Len(ms) + i]]

-------------------------------------------------------------------------------

Init ==
  /\ limit \in Limits
  /\ race = [i \in Indexes |-> "running"]
  /\ sections = <<>>
  /\ transcript = <<>>
  /\ at = "collecting"
  /\ stage = "agent"
  /\ turn = 0
  /\ request = NoRequest

(***************************************************************************)
(* executeProvider: the race ends with the provider's value, with none,    *)
(* with its error, or with the timer.  Providers without a timeout have no *)
(* timer; a provider that lost to its timer is not heard again.            *)
(***************************************************************************)
ProviderSettles(i) ==
  /\ race[i] = "running"
  /\ \E outcome \in {"value", "undefined", "error"} : race' = [race EXCEPT ![i] = outcome]
  /\ UNCHANGED <<limit, sections, transcript, at, stage, turn, request>>

ProviderTimesOut_Inverted(i) ==
  /\ race[i] = "running"
  /\ Providers[i] \notin Timed
  /\ race' = [race EXCEPT ![i] = "timeout"]
  /\ UNCHANGED <<limit, sections, transcript, at, stage, turn, request>>

ProviderTimesOut(i) ==
  /\ race[i] = "running"
  /\ Providers[i] \in Timed
  /\ race' = [race EXCEPT ![i] = "timeout"]
  /\ UNCHANGED <<limit, sections, transcript, at, stage, turn, request>>

Given == {i \in Indexes : race[i] = "value"}

(* What the collector makes of the races: failures and empty values are    *)
(* skipped, the others follow the order of the providers.  Memory comes as *)
(* what the user provides does.                                            *)
Collected(user, provided) ==
  <<Section("user", user, NoKey, UserTok), Section("workspace", 100, NoKey, WorkspaceTok)>>
  \o [k \in DOMAIN provided |-> Section("provider", provided[k], NoKey, ProvidedTok)]

(* ContextManager.prepare, once Promise.all has every race: the results go *)
(* into the sections, and no race is looked at again.                      *)
Prepare ==
  /\ at = "collecting"
  /\ \A i \in Indexes : race[i] # "running"
  /\ race' = [i \in Indexes |-> "collected"]
  /\ \E user \in Priorities \cup {80},
        provided \in [1..Cardinality(Given) -> Priorities \cup {50}] :
        sections' = Collected(user, provided)
  /\ \E history \in Histories :
        transcript' = Pushed(Pushed(<<>>, history), <<User(PromptTok)>>)
  /\ at' = "looping"
  /\ UNCHANGED <<limit, stage, turn, request>>

VerificationFailure == Section("verification", 1000, "failure", FailureTok)

(* canContinue, nextIteration and buildModelRequest.                       *)
BuildModelRequest ==
  /\ at = "looping"
  /\ turn < MaxTurns
  /\ turn' = turn + 1
  /\ \E sumShare, share \in Shares :
        request' = Build(limit,
                         sections \o IF stage = "repair" THEN <<VerificationFailure>> ELSE <<>>,
                         transcript, sumShare, share)
  /\ at' = IF request'.status = "refused" THEN "failed" ELSE "asking"
  /\ UNCHANGED <<limit, race, sections, transcript, stage>>

(* The model answers; without calls the agent's loop is over, while a      *)
(* repair goes on to the next verification either way.                     *)
AppendAssistantResponse ==
  /\ at = "asking"
  /\ \E calls \in SUBSET CallIds, tok \in AnswerToks :
        /\ transcript' = Pushed(transcript, <<Assistant(calls, tok)>>)
        /\ at' = IF calls = {} THEN "verifying" ELSE "executing"
  /\ UNCHANGED <<limit, race, sections, stage, turn, request>>

(* Every call of the response has a result, whatever became of it.         *)
AppendToolResults ==
  /\ at = "executing"
  /\ LET calls == transcript[Len(transcript)].calls
     IN  \E order \in [1..Cardinality(calls) -> calls], tok \in ResultToks :
            /\ \A c \in calls : \E i \in DOMAIN order : order[i] = c
            /\ transcript' = Pushed(transcript,
                                    [i \in DOMAIN order |-> ToolResult(order[i], tok)])
  /\ at' = IF stage = "repair" \/ turn = MaxTurns THEN "verifying" ELSE "looping"
  /\ UNCHANGED <<limit, race, sections, stage, turn, request>>

(* verifyAndRepair: a failure starts a repair turn if one is left.         *)
VerificationFails ==
  /\ at = "verifying"
  /\ at' = IF turn < MaxTurns THEN "looping" ELSE "done"
  /\ stage' = "repair"
  /\ UNCHANGED <<limit, race, sections, transcript, turn, request>>

VerificationPasses ==
  /\ at = "verifying"
  /\ at' = "done"
  /\ UNCHANGED <<limit, race, sections, transcript, stage, turn, request>>

Next ==
  \/ \E i \in Indexes : ProviderSettles(i) \/ ProviderTimesOut(i)
  \/ Prepare
  \/ BuildModelRequest
  \/ AppendAssistantResponse
  \/ AppendToolResults
  \/ VerificationFails
  \/ VerificationPasses

(* Timers fire and the run goes on; a provider or a model may never answer. *)
Fairness ==
  /\ \A i \in Indexes : WF_vars(ProviderTimesOut(i))
  /\ WF_vars(Prepare)

Spec == Init /\ [][Next]_vars /\ Fairness
-------------------------------------------------------------------------------

(* The variables have their types.                                         *)
TypeOK ==
  /\ limit \in Limits
  /\ race \in [Indexes -> {"running", "value", "undefined", "error", "timeout", "collected"}]
  /\ \A i \in DOMAIN transcript : transcript[i].id = i /\ transcript[i].tok \in Nat
  /\ at \in {"collecting", "looping", "asking", "executing", "verifying", "done", "failed"}
  /\ stage \in {"agent", "repair"}
  /\ turn \in 0..MaxTurns
  /\ request.status \in {"none", "built", "refused"}

(***************************************************************************)
(* A request is one a provider accepts: each tool result in it follows its *)
(* call, and each call in it is followed by its results.  Projection and   *)
(* compaction may not cut an exchange in two.                              *)
(***************************************************************************)
ExchangesStayWhole == Whole(request.messages)

(* The message a run was started with, and what it was built from.         *)
Task == CHOOSE m \in Range(transcript) : m.role = "user" /\
          \A n \in Range(transcript) : n.role = "user" => n.id <= m.id

Plain(m) == m.role \in {"user", "assistant"} /\ m.calls = {}

Seen == IF at = "asking" THEN transcript ELSE <<>>

(***************************************************************************)
(* Whatever is compacted, a request holds the task of the run, every plain *)
(* answer given since, and the newest exchange.                            *)
(***************************************************************************)
TaskSurvives ==
  \A i \in DOMAIN Seen :
    (\/ i >= Task.id /\ Plain(Seen[i])
     \/ \E k \in Latest(Seen) : i \in ExchangeOf(Seen, k))
    => Seen[i] \in Range(request.messages)

(* A section says all that another does, or is a cut of one too long.      *)
Says(section, whole, longest) ==
  /\ section.key = whole.key
  /\ section.tok = whole.tok \/ whole.tok > longest

(***************************************************************************)
(* A build that does not report itself as compacted left out no message of *)
(* the user, no plain answer, and for every call id the newest result is   *)
(* there, as a message or in full as a section.  Two losses are not        *)
(* reported and excepted: the projector ignores the system messages of a   *)
(* caller, and the compressor keeps only head and tail of a result that is *)
(* longer than its limit for a section, around a marker of the cut.        *)
(***************************************************************************)
UnreportedLossless ==
  ~request.compacted =>
    \A i \in DOMAIN Seen :
      /\ Plain(Seen[i]) => Seen[i] \in Range(request.messages)
      /\ Seen[i].role = "tool" =>
           \E j \in i..Len(Seen) :
             /\ Seen[j].for = Seen[i].for
             /\ \/ Seen[j] \in Range(request.messages)
                \/ \E s \in Range(request.included) :
                     Says(s, SectionOf(Seen, Seen[j]),
                          SectionLimit(Available(limit, request.messages)))

(***************************************************************************)
(* A repair request shows nothing that is less urgent than the failure     *)
(* unless it shows the whole failure before it.  What a caller or a        *)
(* provider gives the priority of the failure, or a greater one, may come  *)
(* first and take its room.                                                *)
(***************************************************************************)
RepairSeesFailure ==
  request.status = "built" /\ stage = "repair" /\ at = "asking" =>
    LET shown == request.included \o
                 IF request.part > 0 THEN <<request.dropped[1]>> ELSE <<>>
    IN  \A k \in DOMAIN shown :
          shown[k].pri < VerificationFailure.pri =>
            \E j \in 1..k - 1 : shown[j] = VerificationFailure

(***************************************************************************)
(* A run gets past its providers unless one without a timeout hangs.       *)
(***************************************************************************)
CollectedUnlessProviderHangs ==
  \/ <>(at # "collecting")
  \/ <>[](\E i \in Indexes : Providers[i] \notin Timed /\ race[i] = "running")

(***************************************************************************)
(* "Model request cannot fit the configured context window after safe      *)
(* compaction": a build is refused only when the system prompt, the tools  *)
(* and the protected messages alone exceed the limit.                      *)
(***************************************************************************)
RefusedOnlyWhenUnfittable ==
  request.status = "refused" =>
    LET projected == Projected(transcript)
        guarded == SubSeq(projected, ProtectedStart(projected), Len(projected))
    IN  RequestTokens(SystemTok, guarded) > HardInputLimit(limit)
===============================================================================
