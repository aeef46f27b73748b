------------------------------ MODULE ModelCall ------------------------------
(***************************************************************************)
(* One model request of a run: generateStreamingModelResponse of           *)
(* src/src/agent/runtime/model-runtime.ts, the stream() and generate() of  *)
(* the two provider adapters (llm/provider), and requestWithRetry of       *)
(* llm/request.ts under both.                                              *)
(*                                                                         *)
(* A request is a race of the provider against a timer; one that lost the  *)
(* race is told to stop, and may answer all the same.  In stream mode the  *)
(* race is for the stream object only, which the OpenAI adapter gets with  *)
(* the response headers and the Anthropic adapter at once; reading the     *)
(* chunks is neither timed nor retried.                                    *)
(***************************************************************************)
EXTENDS Naturals

CONSTANT
  MaxRetries    \* options.maxRetries ?? config.maxRetries

ASSUME RetriesAssumption == MaxRetries \in Nat

VARIABLES
  adapter,    \* the provider client, fixed by the configuration
  mode,       \* "stream", then "generate" as the fallback
  at,         \* the await the call is suspended at, or how it ended
  attempt,    \* of requestWithRetry
  requests,   \* requests sent, over both modes; the last is the current one
  abandoned,  \* requests that lost their race and have not settled yet
  toolCall,   \* arguments of the tool call streamed so far
  emitted,    \* emittedContent
  answer,     \* what the call returned: <<request, arguments>>, or NoAnswer
  code,       \* what it threw
  (* history, read by properties only *)
  shown,      \* the requests whose content the observer has published
  sent        \* the arguments the provider put in its answer

vars == <<adapter, mode, at, attempt, requests, abandoned, toolCall, emitted, answer,
          code, shown, sent>>

MaxRequests == 2 * (MaxRetries + 1)

NoAnswer == <<0, "none">>

(* A tool call's JSON: absent, complete, or cut off inside.                *)
Arguments == {"none", "whole", "cut"}

(* The Anthropic API sends the arguments of generate() as an object.       *)
Generated == IF adapter = "openai" THEN Arguments ELSE Arguments \ {"cut"}

(* How a provider request fails: an HTTP status, or an exception.          *)
Failure == {"429", "401", "404", "5xx", "AbortError", "connection", "other"}

Codes == {"llm_rate_limit", "llm_auth", "llm_model", "llm_network", "llm_timeout",
          "llm_error", "llm_response_format"}

TypeOK ==
  /\ adapter \in {"openai", "anthropic"}
  /\ mode \in {"stream", "generate"}
  /\ at \in {"new", "request", "backoff", "reading", "returned", "thrown"}
  /\ attempt \in 0..MaxRetries
  /\ requests \in 0..MaxRequests
  /\ abandoned \subseteq 1..MaxRequests
  /\ toolCall \in Arguments
  /\ emitted \in BOOLEAN
  /\ answer \in (0..MaxRequests) \X (Arguments \cup {"empty"})
  /\ code \in Codes \cup {"none"}
  /\ shown \subseteq 1..MaxRequests
  /\ sent \in Arguments

Init ==
  /\ adapter \in {"openai", "anthropic"}
  /\ mode = "stream"
  /\ at = "new"
  /\ attempt = 0
  /\ requests = 0
  /\ abandoned = {}
  /\ toolCall = "none"
  /\ emitted = FALSE
  /\ answer = NoAnswer
  /\ code = "none"
  /\ shown = {}
  /\ sent = "none"

-----------------------------------------------------------------------------
Classified_AsIs(failure) == failure

(* classifyLLMError *)
Classified(failure) ==
  CASE failure = "429"                    -> "llm_rate_limit"
    [] failure = "401"                    -> "llm_auth"
    [] failure = "404"                    -> "llm_model"
    [] failure \in {"5xx", "connection"}  -> "llm_network"
    [] failure = "AbortError"             -> "llm_timeout"
    [] OTHER                              -> "llm_error"

Retryable(c) == c \in {"llm_rate_limit", "llm_network", "llm_timeout"}

MayRetry(c) == Retryable(c) /\ attempt < MaxRetries

(* parseJsonObject: what is no JSON object becomes {}.                     *)
Parsed(arguments) == IF arguments = "cut" THEN "empty" ELSE arguments

(* The race of the current request is on, and this request is in it.       *)
InRace_Stale(r) == at = "request"

InRace(r) == at = "request" /\ r = requests

MayFallBack_Always == TRUE

(* Nothing of the stream has been shown to the user.                       *)
MayFallBack == ~emitted

(* requestWithRetry sends a request.  messages.stream of the Anthropic SDK *)
(* returns its stream object before anything is sent.                      *)
Send(newMode) ==
  /\ requests' = requests + 1
  /\ at' = IF newMode = "stream" /\ adapter = "anthropic" THEN "reading" ELSE "request"

(* stream() throws: without a trace of content the call starts over with   *)
(* generate(), which has retries of its own, whatever the error was.       *)
ModeThrows(c) ==
  \/ /\ mode = "stream" /\ MayFallBack
     /\ mode' = "generate"
     /\ attempt' = 0
     /\ toolCall' = "none"
     /\ Send("generate")
     /\ UNCHANGED <<answer, code>>
  \/ /\ ~(mode = "stream" /\ MayFallBack)
     /\ at' = "thrown"
     /\ code' = c
     /\ UNCHANGED <<mode, attempt, requests, toolCall, answer>>

RequestThrows(c) ==
  \/ /\ MayRetry(c)
     /\ at' = "backoff"
     /\ UNCHANGED <<mode, attempt, requests, toolCall, answer, code>>
  \/ /\ ~MayRetry(c)
     /\ ModeThrows(c)

Returns(request, arguments) ==
  /\ at' = "returned"
  /\ answer' = <<request, Parsed(arguments)>>
  /\ sent' = arguments
  /\ UNCHANGED <<mode, attempt, requests, toolCall, code>>

-----------------------------------------------------------------------------
Begin ==
  /\ at = "new"
  /\ Send(mode)
  /\ UNCHANGED <<adapter, mode, attempt, abandoned, toolCall, emitted, answer, code,
                 shown, sent>>

BackoffEnds ==
  /\ at = "backoff"
  /\ attempt' = attempt + 1
  /\ Send(mode)
  /\ UNCHANGED <<adapter, mode, abandoned, toolCall, emitted, answer, code, shown, sent>>

(* The provider answers the current request, or one that lost its race,    *)
(* which nobody awaits any more.  A complete response may not have the     *)
(* expected format (parseResponse); that is not retried.                   *)
ProviderAnswers(r) ==
  /\ r \in abandoned \/ InRace(r)
  /\ abandoned' = abandoned \ {r}
  /\ \/ /\ InRace(r) /\ mode = "stream"
        /\ at' = "reading"
        /\ UNCHANGED <<mode, attempt, requests, toolCall, answer, code, sent>>
     \/ /\ InRace(r) /\ mode = "generate"
        /\ \E arguments \in Generated : Returns(r, arguments)
     \/ /\ InRace(r) /\ mode = "generate"
        /\ ModeThrows("llm_response_format")
        /\ UNCHANGED sent
     \/ /\ ~InRace(r)
        /\ UNCHANGED <<mode, at, attempt, requests, toolCall, answer, code, sent>>
  /\ UNCHANGED <<adapter, emitted, shown>>

ProviderFails(r) ==
  /\ r \in abandoned \/ InRace(r)
  /\ abandoned' = abandoned \ {r}
  /\ \/ /\ InRace(r)
        /\ \E failure \in Failure : RequestThrows(Classified(failure))
     \/ /\ ~InRace(r)
        /\ UNCHANGED <<mode, at, attempt, requests, toolCall, answer, code>>
  /\ UNCHANGED <<adapter, emitted, shown, sent>>

TimerRuns_WhenStreaming == mode = "stream"

TimerRuns == TRUE

(* The timer aborts the request and settles the race.  The abort may make  *)
(* the request reject first, with an AbortError: the same code.            *)
TimerFires ==
  /\ at = "request"
  /\ TimerRuns
  /\ abandoned' = abandoned \cup {requests}
  /\ RequestThrows("llm_timeout")
  /\ UNCHANGED <<adapter, emitted, shown, sent>>

-----------------------------------------------------------------------------
(* Reading the stream.                                                     *)

ContentDelta ==
  /\ at = "reading"
  /\ emitted' = TRUE
  /\ shown' = shown \cup {requests}
  /\ UNCHANGED <<adapter, mode, at, attempt, requests, abandoned, toolCall, answer, code,
                 sent>>

ToolCallDelta ==
  /\ at = "reading"
  /\ toolCall' \in {"whole", "cut"}
  /\ UNCHANGED <<adapter, mode, at, attempt, requests, abandoned, emitted, answer, code,
                 shown, sent>>

ReadFails ==
  /\ at = "reading"
  /\ \E failure \in Failure : ModeThrows(Classified(failure))
  /\ UNCHANGED <<adapter, abandoned, emitted, shown, sent>>

(* The stream ends: the adapter yields "done" with what it has collected.  *)
ReadEnds ==
  /\ at = "reading"
  /\ Returns(requests, toolCall)
  /\ UNCHANGED <<adapter, abandoned, emitted, shown>>

Ended == at \in {"returned", "thrown"}

Next ==
  \/ Begin \/ BackoffEnds \/ TimerFires
  \/ \E r \in 1..MaxRequests : ProviderAnswers(r) \/ ProviderFails(r)
  \/ ContentDelta \/ ToolCallDelta \/ ReadFails \/ ReadEnds
  \/ Ended /\ UNCHANGED vars

(* Timers fire; the provider need not answer, nor end its stream.          *)
Fairness == WF_vars(Begin) /\ WF_vars(BackoffEnds) /\ WF_vars(TimerFires)

Spec == Init /\ [][Next]_vars

FairSpec == Spec /\ Fairness

-----------------------------------------------------------------------------
(* Properties.                                                             *)

(* The answer is that of the last request sent: one that lost its race     *)
(* never becomes the answer, however late or early it comes.  It has the   *)
(* arguments the provider sent; of JSON that was cut off, an empty object. *)
AnswerIsCurrent ==
  at = "returned" =>
    /\ answer[1] = requests /\ answer[1] \notin abandoned
    /\ answer[2] = IF sent = "cut" THEN "empty" ELSE sent

(* What the user has seen streaming is the answer the run goes on with: a  *)
(* call that showed something and then failed throws, it does not ask the  *)
(* model again (emittedContent).                                           *)
ShownIsAnswered ==
  /\ at = "returned" /\ shown # {} => shown = {answer[1]}
  /\ mode = "generate" => shown = {}

(* A call ends unless the provider leaves its stream open: that read is    *)
(* the only await without a timer.                                         *)
EndsUnlessStreamHangs == <>Ended \/ <>[](at = "reading")

===============================================================================
