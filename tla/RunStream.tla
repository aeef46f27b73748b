----------------------------- MODULE RunStream -----------------------------
(***************************************************************************)
(* Agent.stream of src/src/agent/agent.ts: an async generator between a    *)
(* run, which pushes its events, and a consumer, which asks for them with  *)
(* next() or gives up with return().                                       *)
(*                                                                         *)
(* The run is the code of module AgentRun, seen here as a source of events *)
(* numbered 1, 2, ...  The generator and the run are two computations of   *)
(* one event loop: they meet in queue and waiters, and the generator goes  *)
(* on some time after push has resolved the promise it waits for.          *)
(***************************************************************************)
EXTENDS Naturals, SequencesExt

CONSTANTS
  MaxEvents,    \* bound: events of the run
  MaxRequests   \* bound: calls of next() the consumer makes ahead

ASSUME StreamAssumption == MaxEvents \in Nat /\ MaxRequests \in Nat \ {0}

VARIABLES
  run,        \* runPromise: "new" until the generator starts
  pushed,     \* events the run has pushed
  queue,
  waiting,    \* waiters: a resolver the generator put there
  gen,        \* where the generator is suspended
  requests,   \* calls of the consumer the generator has not settled
  received,   \* what the consumer got, in order
  closedBy    \* how the generator ended

vars == <<run, pushed, queue, waiting, gen, requests, received, closedBy>>

(* StreamQueueItem; n numbers the events.                                  *)
EventItem(n)  == [type |-> "event", n |-> n]
EndItem(type) == [type |-> type, n |-> 0]

End  == {"done", "error"}
Item == {EventItem(n) : n \in 1..MaxEvents} \cup {EndItem(type) : type \in End}

TypeOK ==
  /\ run \in {"new", "running", "settled"}
  /\ pushed \in 0..MaxEvents
  /\ queue \in Seq(Item)
  /\ waiting \in BOOLEAN
  /\ gen \in {"start", "waiting", "yielded", "finally", "closed"}
  /\ requests \in Seq({"next", "return"}) /\ Len(requests) <= MaxRequests + 1
  /\ received \in Seq(1..MaxEvents)
  /\ closedBy \in {"open", "return"} \cup End

Init ==
  /\ run = "new"
  /\ pushed = 0
  /\ queue = <<>>
  /\ waiting = FALSE
  /\ gen = "start"
  /\ requests = <<>>
  /\ received = <<>>
  /\ closedBy = "open"

-----------------------------------------------------------------------------
(* The run.                                                                *)

Wakes_EventsOnly(item) == item.type = "event"

(* push resolves every waiter, whatever the item is.                       *)
Wakes(item) == TRUE

Push(item) ==
  /\ queue' = Append(queue, item)
  /\ waiting' = (waiting /\ ~Wakes(item))

RunPushes ==
  /\ run = "running"
  /\ pushed < MaxEvents
  /\ pushed' = pushed + 1
  /\ Push(EventItem(pushed + 1))
  /\ UNCHANGED <<run, gen, requests, received, closedBy>>

(* runPromise: the last item is pushed before the promise settles.         *)
RunSettles ==
  /\ run = "running"
  /\ run' = "settled"
  /\ \E type \in End : Push(EndItem(type))
  /\ UNCHANGED <<pushed, gen, requests, received, closedBy>>

-----------------------------------------------------------------------------
(* The consumer.  Calls it makes while the generator is busy are queued.   *)

Ask ==
  /\ Len(requests) < MaxRequests
  /\ gen # "closed"
  /\ "return" \notin ToSet(requests)
  /\ requests' = Append(requests, "next")
  /\ UNCHANGED <<run, pushed, queue, waiting, gen, received, closedBy>>

GiveUp ==
  /\ gen # "closed"
  /\ "return" \notin ToSet(requests)
  /\ requests' = Append(requests, "return")
  /\ UNCHANGED <<run, pushed, queue, waiting, gen, received, closedBy>>

-----------------------------------------------------------------------------
(* The generator: one turn of its loop.                                    *)

(* Every way out of the loop goes through "finally", which awaits the run. *)
PlaceAfterEnd == "finally"

Leave(reason) ==
  /\ gen' = PlaceAfterEnd
  /\ closedBy' = reason

Yield(n) ==
  /\ received' = Append(received, n)
  /\ gen' = "yielded"
  /\ requests' = Tail(requests)
  /\ UNCHANGED closedBy

Sleep ==
  /\ gen' = "waiting"
  /\ waiting' = TRUE
  /\ UNCHANGED <<queue, received, requests, closedBy>>

TakeItem ==
  /\ queue # <<>>
  /\ queue' = Tail(queue)
  /\ \/ /\ Head(queue).type = "event"
        /\ Yield(Head(queue).n)
     \/ /\ Head(queue).type \in End
        /\ Leave(Head(queue).type)
        /\ UNCHANGED <<received, requests>>

TakeOrWait ==
  \/ TakeItem /\ UNCHANGED waiting
  \/ queue = <<>> /\ Sleep

(* The first next() runs the body: it starts the run, whose first events   *)
(* (one stands for them) are pushed before its first await, unless an      *)
(* event listener throws.                                                  *)
Starts ==
  /\ gen = "start"
  /\ requests # <<>> /\ Head(requests) = "next"
  /\ run' = "running"
  /\ \/ /\ MaxEvents > 0
        /\ pushed' = 1
        /\ Yield(1)
        /\ UNCHANGED <<queue, waiting>>
     \/ Sleep /\ UNCHANGED pushed

(* return() on a generator that has not started never starts the run.      *)
ClosedUnstarted ==
  /\ gen = "start"
  /\ requests # <<>> /\ Head(requests) = "return"
  /\ gen' = "closed"
  /\ closedBy' = "return"
  /\ requests' = Tail(requests)
  /\ UNCHANGED <<run, pushed, queue, waiting, received>>

Continues ==
  /\ gen = "yielded"
  /\ requests # <<>> /\ Head(requests) = "next"
  /\ TakeOrWait
  /\ UNCHANGED <<run, pushed>>

(* return(), or a break of the consumer's loop, at the yield.              *)
Abandons ==
  /\ gen = "yielded"
  /\ requests # <<>> /\ Head(requests) = "return"
  /\ Leave("return")
  /\ UNCHANGED <<run, pushed, queue, waiting, requests, received>>

(* The promise of the waiter is resolved.                                  *)
Wakened ==
  /\ gen = "waiting"
  /\ ~waiting
  /\ TakeOrWait
  /\ UNCHANGED <<run, pushed>>

Closes ==
  /\ gen = "finally"
  /\ run = "settled"
  /\ gen' = "closed"
  /\ requests' = <<>>
  /\ UNCHANGED <<run, pushed, queue, waiting, received, closedBy>>

GeneratorStep ==
  Starts \/ ClosedUnstarted \/ Continues \/ Abandons \/ Wakened \/ Closes

Next == RunPushes \/ RunSettles \/ Ask \/ GiveUp \/ GeneratorStep

Spec == Init /\ [][Next]_vars

-----------------------------------------------------------------------------
(* Properties.                                                             *)

(* The consumer receives the events of the run in order, none twice and    *)
(* none left out, and the end only after all of them.  A generator that    *)
(* sleeps has missed nothing: the queue is empty and the run goes on, so   *)
(* no wakeup is lost.  When the stream is over, the run it started is over *)
(* as well: whoever reads "the stream ended" may start the next run.       *)
StreamIsTheRun ==
  /\ received = [i \in 1..Len(received) |-> i]
  /\ closedBy \in End => Len(received) = pushed
  /\ waiting => queue = <<>> /\ run = "running"
  /\ gen = "closed" => run # "running"

=============================================================================
