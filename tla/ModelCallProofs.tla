--------------------------- MODULE ModelCallProofs ---------------------------
(***************************************************************************)
(* Proofs about ModelCall, for any number of retries.  The inductive       *)
(* invariant IInv counts the requests against the attempts of both modes,  *)
(* separates the current request from those that lost their race, and      *)
(* says what of the stream has been shown.                                 *)
(***************************************************************************)
EXTENDS ModelCall, TLAPS

(* One request per attempt; the fallback starts to count again.            *)
BudgetInv ==
  /\ at = "new" => requests = 0 /\ attempt = 0 /\ mode = "stream"
  /\ at # "new" => requests > 0
  /\ at = "backoff" => attempt < MaxRetries
  /\ requests <= attempt + 1 + (IF mode = "stream" THEN 0 ELSE MaxRetries + 1)

(* The request whose answer is awaited, read or taken has not lost a race. *)
RaceInv ==
  /\ abandoned \subseteq 1..requests
  /\ at \in {"request", "reading", "returned"} => requests \notin abandoned

(* Only the stream that is read, or was read last, has been shown.         *)
ShownInv ==
  /\ at = "reading" => mode = "stream"
  /\ emitted => at \in {"reading", "returned", "thrown"} /\ mode = "stream"
  /\ shown = IF emitted THEN {requests} ELSE {}

AnswerInv ==
  at = "returned" => answer = <<requests, Parsed(sent)>>

IInv == TypeOK /\ BudgetInv /\ RaceInv /\ ShownInv /\ AnswerInv

-----------------------------------------------------------------------------
LEMMA InitInv == Init => IInv
<1> SUFFICES ASSUME Init PROVE IInv
  OBVIOUS
<1>1. TypeOK
  <2>1. 0 \in 0..MaxRequests /\ 0 \in 0..MaxRetries
    BY RetriesAssumption DEF MaxRequests
  <2>2. /\ adapter \in {"openai", "anthropic"} /\ mode = "stream" /\ at = "new"
        /\ attempt = 0 /\ requests = 0 /\ abandoned = {} /\ shown = {}
        /\ toolCall = "none" /\ sent = "none" /\ code = "none"
    BY DEF Init
  <2>3. emitted \in BOOLEAN
    BY DEF Init
  <2>4. answer \in (0..MaxRequests) \X (Arguments \cup {"empty"})
    BY <2>1 DEF Init, NoAnswer, Arguments
  <2>5. QED
    BY <2>1, <2>2, <2>3, <2>4 DEF TypeOK, Arguments
<1>2. BudgetInv /\ RaceInv /\ ShownInv /\ AnswerInv
  BY RetriesAssumption DEF Init, BudgetInv, RaceInv, ShownInv, AnswerInv
<1>3. QED
  BY <1>1, <1>2 DEF IInv

(* A request that is sent is within the bound, and it is a new one.        *)
LEMMA SendIsNew ==
  ASSUME TypeOK, RaceInv, NEW newMode, Send(newMode), NEW n \in 0..MaxRetries,
         requests <= n + (IF newMode = "stream" THEN 0 ELSE MaxRetries + 1)
  PROVE  /\ requests' \in 1..MaxRequests /\ requests' = requests + 1
         /\ requests' \notin abandoned \cup {requests}
         /\ at' \in {"request", "reading"}
         /\ at' = "reading" => newMode = "stream"
BY RetriesAssumption DEF TypeOK, RaceInv, Send, MaxRequests

-----------------------------------------------------------------------------
(* A request or a stream fails: what the call does next.  The caller has   *)
(* settled which requests have been given up.                              *)
LEMMA ModeThrowsKeeps ==
  ASSUME IInv, NEW c \in Codes, ModeThrows(c), at \in {"request", "reading"},
         abandoned' \subseteq abandoned \cup {requests},
         UNCHANGED <<adapter, emitted, shown, sent>>
  PROVE  IInv'
<1> USE DEF IInv
<1>1. requests \in 1..MaxRequests /\ requests \in 1..requests
  BY DEF TypeOK, BudgetInv
<1>2. abandoned' \subseteq 1..requests /\ abandoned' \subseteq 1..MaxRequests
  BY <1>1 DEF TypeOK, RaceInv
<1>3. CASE mode = "stream" /\ MayFallBack
  <2>1. /\ mode' = "generate" /\ attempt' = 0 /\ toolCall' = "none" /\ Send("generate")
        /\ UNCHANGED <<answer, code>>
    BY <1>3 DEF ModeThrows
  <2>2. 0 \in 0..MaxRetries /\ requests <= attempt + 1 /\ attempt <= MaxRetries
    BY <1>3, RetriesAssumption DEF BudgetInv, TypeOK
  <2>3. /\ requests' \in 1..MaxRequests /\ requests' = requests + 1
        /\ requests' \notin abandoned \cup {requests}
        /\ at' = "request"
    BY <2>1, <2>2, RetriesAssumption DEF Send, TypeOK, RaceInv, MaxRequests
  <2>4. TypeOK'
    BY <1>2, <2>1, <2>2, <2>3 DEF TypeOK, Arguments
  <2>5. BudgetInv' /\ RaceInv'
    BY <1>3, <1>2, <2>1, <2>2, <2>3, RetriesAssumption DEF BudgetInv, RaceInv, TypeOK
  <2>6. ShownInv' /\ AnswerInv'
    BY <1>3, <2>1, <2>3 DEF ShownInv, AnswerInv, MayFallBack
  <2>7. QED
    BY <2>4, <2>5, <2>6
<1>4. CASE ~(mode = "stream" /\ MayFallBack)
  <2>1. /\ at' = "thrown" /\ code' = c
        /\ UNCHANGED <<mode, attempt, requests, toolCall, answer>>
    BY <1>4 DEF ModeThrows
  <2>2. TypeOK' /\ RaceInv'
    BY <1>2, <2>1 DEF TypeOK, RaceInv
  <2>3. BudgetInv' /\ ShownInv' /\ AnswerInv'
    BY <2>1 DEF BudgetInv, ShownInv, AnswerInv
  <2>4. QED
    BY <2>2, <2>3
<1>5. QED
  BY <1>3, <1>4

LEMMA RequestThrowsKeeps ==
  ASSUME IInv, NEW c \in Codes, RequestThrows(c), at = "request",
         abandoned' \subseteq abandoned \cup {requests},
         UNCHANGED <<adapter, emitted, shown, sent>>
  PROVE  IInv'
<1>1. CASE MayRetry(c)
  BY <1>1 DEF IInv, RequestThrows, MayRetry, TypeOK, BudgetInv, RaceInv, ShownInv, AnswerInv
<1>2. CASE ~MayRetry(c)
  BY <1>2, ModeThrowsKeeps DEF RequestThrows
<1>3. QED
  BY <1>1, <1>2

LEMMA CodesKnown == /\ \A failure \in Failure : Classified(failure) \in Codes
                    /\ {"llm_timeout", "llm_response_format"} \subseteq Codes
BY DEF Failure, Classified, Codes

LEMMA ReturnsKeeps ==
  ASSUME IInv, NEW arguments \in Arguments, Returns(requests, arguments),
         at \in {"request", "reading"}, abandoned' \subseteq abandoned,
         UNCHANGED <<adapter, emitted, shown>>
  PROVE  IInv'
<1>1. Parsed(arguments) \in Arguments \cup {"empty"} /\ requests \in 0..MaxRequests
  BY DEF IInv, TypeOK, Parsed
<1>2. QED
  BY <1>1 DEF IInv, Returns, TypeOK, BudgetInv, RaceInv, ShownInv, AnswerInv

-----------------------------------------------------------------------------
LEMMA BeginKeeps == ASSUME IInv, Begin PROVE IInv'
<1> USE DEF IInv
<1>1. /\ requests = 0 /\ attempt = 0 /\ 0 \in 0..MaxRetries /\ mode = "stream" /\ Send(mode)
      /\ UNCHANGED <<adapter, mode, attempt, abandoned, toolCall, emitted, answer, code, shown,
                     sent>>
  BY RetriesAssumption DEF Begin, BudgetInv
<1>2. /\ requests' \in 1..MaxRequests /\ requests' = 1 /\ requests' \notin abandoned
      /\ at' \in {"request", "reading"}
  BY <1>1, SendIsNew
<1>3. TypeOK' /\ BudgetInv' /\ RaceInv'
  BY <1>1, <1>2, RetriesAssumption DEF TypeOK, BudgetInv, RaceInv
<1>4. ShownInv' /\ AnswerInv'
  BY <1>1, <1>2 DEF Begin, ShownInv, AnswerInv
<1>5. QED
  BY <1>3, <1>4

LEMMA BackoffKeeps == ASSUME IInv, BackoffEnds PROVE IInv'
<1> USE DEF IInv
<1>1. /\ at = "backoff" /\ attempt' = attempt + 1 /\ Send(mode)
      /\ UNCHANGED <<adapter, mode, abandoned, toolCall, emitted, answer, code, shown, sent>>
  BY DEF BackoffEnds
<1>2. attempt + 1 \in 0..MaxRetries
  BY <1>1, RetriesAssumption DEF BudgetInv, TypeOK
<1>3. /\ requests' \in 1..MaxRequests /\ requests' = requests + 1
      /\ requests' \notin abandoned /\ at' \in {"request", "reading"}
      /\ at' = "reading" => mode = "stream"
  BY <1>1, <1>2, SendIsNew DEF BudgetInv
<1>4. TypeOK' /\ BudgetInv' /\ RaceInv'
  BY <1>1, <1>2, <1>3, RetriesAssumption DEF TypeOK, BudgetInv, RaceInv
<1>5. ShownInv' /\ AnswerInv'
  BY <1>1, <1>3 DEF ShownInv, AnswerInv
<1>6. QED
  BY <1>4, <1>5

LEMMA AnswersKeeps ==
  ASSUME IInv, NEW r \in 1..MaxRequests, ProviderAnswers(r)
  PROVE  IInv'
<1>1. UNCHANGED <<adapter, emitted, shown>> /\ abandoned' = abandoned \ {r}
  BY DEF ProviderAnswers
<1>2. CASE InRace(r) /\ mode = "stream" /\ at' = "reading"
           /\ UNCHANGED <<mode, attempt, requests, toolCall, answer, code, sent>>
  BY <1>1, <1>2 DEF InRace, IInv, TypeOK, BudgetInv, RaceInv, ShownInv, AnswerInv
<1>3. CASE InRace(r) /\ \E arguments \in Generated : Returns(r, arguments)
  BY <1>1, <1>3, ReturnsKeeps DEF InRace, Generated
<1>4. CASE InRace(r) /\ ModeThrows("llm_response_format") /\ UNCHANGED sent
  BY <1>1, <1>4, ModeThrowsKeeps, CodesKnown DEF InRace
<1>5. CASE ~InRace(r) /\ UNCHANGED <<mode, at, attempt, requests, toolCall, answer, code, sent>>
  BY <1>1, <1>5 DEF IInv, TypeOK, BudgetInv, RaceInv, ShownInv, AnswerInv
<1>6. QED
  BY <1>2, <1>3, <1>4, <1>5 DEF ProviderAnswers

LEMMA FailsKeeps ==
  ASSUME IInv, NEW r \in 1..MaxRequests, ProviderFails(r)
  PROVE  IInv'
<1>1. UNCHANGED <<adapter, emitted, shown, sent>> /\ abandoned' = abandoned \ {r}
  BY DEF ProviderFails
<1>2. CASE InRace(r) /\ \E failure \in Failure : RequestThrows(Classified(failure))
  BY <1>1, <1>2, RequestThrowsKeeps, CodesKnown DEF InRace
<1>3. CASE ~InRace(r) /\ UNCHANGED <<mode, at, attempt, requests, toolCall, answer, code>>
  BY <1>1, <1>3 DEF IInv, TypeOK, BudgetInv, RaceInv, ShownInv, AnswerInv
<1>4. QED
  BY <1>2, <1>3 DEF ProviderFails

LEMMA TimerKeeps == ASSUME IInv, TimerFires PROVE IInv'
BY RequestThrowsKeeps, CodesKnown DEF TimerFires

LEMMA ReadKeeps ==
  ASSUME IInv, ContentDelta \/ ToolCallDelta \/ ReadFails \/ ReadEnds
  PROVE  IInv'
<1>1. CASE ContentDelta
  BY <1>1 DEF ContentDelta, IInv, TypeOK, BudgetInv, RaceInv, ShownInv, AnswerInv
<1>2. CASE ToolCallDelta
  BY <1>2 DEF ToolCallDelta, IInv, TypeOK, Arguments, BudgetInv, RaceInv, ShownInv, AnswerInv
<1>3. CASE ReadFails
  BY <1>3, ModeThrowsKeeps, CodesKnown DEF ReadFails
<1>4. CASE ReadEnds
  BY <1>4, ReturnsKeeps DEF ReadEnds, IInv, TypeOK
<1>5. QED
  BY <1>1, <1>2, <1>3, <1>4

LEMMA StutterKeeps == ASSUME IInv, UNCHANGED vars PROVE IInv'
BY DEF IInv, vars, TypeOK, BudgetInv, RaceInv, ShownInv, AnswerInv

LEMMA Invariance == Spec => []IInv
<1>1. IInv /\ [Next]_vars => IInv'
  BY BeginKeeps, BackoffKeeps, TimerKeeps, AnswersKeeps, FailsKeeps, ReadKeeps, StutterKeeps
     DEF Next
<1>2. QED
  BY InitInv, <1>1, PTL DEF Spec

-----------------------------------------------------------------------------
(* Both modes together send no more requests than their retries allow      *)
(* (requestWithRetry, generateStreamingModelResponse).                     *)
THEOREM TypeCorrect == Spec => []TypeOK
<1>1. IInv => TypeOK
  BY DEF IInv
<1>2. QED
  BY Invariance, <1>1, PTL

(* The answer is that of the last request, and none that lost its race     *)
(* (requestWithTimeout, parseJsonObject).                                  *)
THEOREM AnswerCorrect == Spec => []AnswerIsCurrent
<1>1. IInv => AnswerIsCurrent
  BY DEF IInv, AnswerIsCurrent, AnswerInv, RaceInv, Parsed
<1>2. QED
  BY Invariance, <1>1, PTL

(* What was shown is what was answered (emittedContent).                   *)
THEOREM ShownCorrect == Spec => []ShownIsAnswered
<1>1. IInv => ShownIsAnswered
  BY DEF IInv, ShownIsAnswered, TypeOK, ShownInv, AnswerInv
<1>2. QED
  BY Invariance, <1>1, PTL
=============================================================================
