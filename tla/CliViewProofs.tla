---------------------------- MODULE CliViewProofs -----------------------------
(***************************************************************************)
(* Proofs about RunStream and CliView, for every number of events, calls   *)
(* and rows: the stream of a run is a reliable queue that ends with its    *)
(* run, and the view built from it is in the order of time and tells what  *)
(* has arrived.                                                            *)
(***************************************************************************)
EXTENDS CliView, SequenceTheorems, FiniteSetTheorems, WellFoundedInduction, TLAPS

(***************************************************************************)
(* The stream of the run.                                                  *)
(***************************************************************************)

(* The queue continues what was received: its items are the next events,   *)
(* and the end comes behind the last of them.                              *)
QueueInv ==
  \A i \in 1..Len(queue) :
    IF Len(received) + i <= pushed
      THEN queue[i] = EventItem(Len(received) + i)
      ELSE queue[i].type \in End

(* How many items the run has pushed, and where they are.                  *)
CountInv ==
  /\ run = "new" => queue = <<>> /\ received = <<>> /\ pushed = 0
  /\ run = "running" => closedBy \notin End /\ Len(received) + Len(queue) = pushed
  /\ run = "settled" /\ closedBy \notin End =>
       Len(received) <= pushed /\ Len(received) + Len(queue) = pushed + 1
  /\ closedBy \in End => queue = <<>>

(* The generator's place tells whether its run exists, and how it ended.   *)
PlaceInv ==
  /\ gen = "start" => run = "new"
  /\ gen \in {"waiting", "yielded", "finally"} => run # "new"
  /\ gen \in {"start", "waiting", "yielded"} <=> closedBy = "open"
  /\ waiting => gen = "waiting"

(* A sleeping generator has a request to answer, and only a return() is    *)
(* queued beyond the bound.                                                *)
RequestsInv ==
  /\ gen = "waiting" => requests # <<>>
  /\ Len(requests) <= MaxRequests \/ "return" \in ToSet(requests)

IInv == TypeOK /\ QueueInv /\ CountInv /\ PlaceInv /\ RequestsInv /\ StreamIsTheRun

-----------------------------------------------------------------------------
(* Before the first next() nothing has been pushed or received.            *)
LEMMA InitEstablishes == Init => IInv
<1> SUFFICES ASSUME Init PROVE IInv
  OBVIOUS
<1>1. /\ run = "new" /\ pushed = 0 /\ queue = <<>> /\ waiting = FALSE /\ gen = "start"
      /\ requests = <<>> /\ received = <<>> /\ closedBy = "open"
  BY DEF Init
<1>2. Len(queue) = 0 /\ Len(received) = 0 /\ Len(requests) = 0 /\ 1..0 = {}
  BY <1>1
<1>3. TypeOK
  <2>1. pushed \in 0..MaxEvents /\ Len(requests) <= MaxRequests + 1
    BY <1>1, <1>2, StreamAssumption
  <2>2. queue \in Seq(Item) /\ requests \in Seq({"next", "return"}) /\ received \in Seq(1..MaxEvents)
    BY <1>1
  <2> QED BY <1>1, <2>1, <2>2 DEF TypeOK
<1>4. QueueInv
  BY <1>2 DEF QueueInv
<1>5. CountInv
  BY <1>1 DEF CountInv, End
<1>6. PlaceInv
  BY <1>1 DEF PlaceInv
<1>7. received = [i \in 1..Len(received) |-> i]
  BY <1>1, <1>2
<1>8. StreamIsTheRun
  BY <1>1, <1>7 DEF StreamIsTheRun, End
<1>9. RequestsInv
  BY <1>1, <1>2, StreamAssumption DEF RequestsInv
<1> QED BY <1>3, <1>4, <1>5, <1>6, <1>8, <1>9 DEF IInv

(* The run pushes an item: it goes behind those of the queue, and whoever  *)
(* waits is woken.                                                         *)
LEMMA PushFacts ==
  ASSUME TypeOK, NEW item \in Item, Push(item)
  PROVE  /\ queue' \in Seq(Item)
         /\ Len(queue') = Len(queue) + 1
         /\ \A i \in 1..Len(queue) : queue'[i] = queue[i]
         /\ queue'[Len(queue) + 1] = item
         /\ waiting' = FALSE
<1>1. queue \in Seq(Item) /\ waiting \in BOOLEAN
  BY DEF TypeOK
<1>2. queue' = Append(queue, item) /\ waiting' = FALSE
  BY DEF Push, Wakes
<1> QED BY <1>1, <1>2, AppendProperties

(* The run pushes its next event.                                          *)
LEMMA EventPushed ==
  ASSUME IInv, RunPushes
  PROVE  IInv'
<1> USE DEF IInv
<1>1. pushed \in Nat /\ pushed + 1 \in 1..MaxEvents /\ pushed' = pushed + 1
  BY StreamAssumption DEF TypeOK, RunPushes
<1>2. EventItem(pushed + 1) \in Item /\ Push(EventItem(pushed + 1))
  BY <1>1 DEF Item, RunPushes
<1>3. /\ queue' \in Seq(Item)
      /\ Len(queue') = Len(queue) + 1
      /\ \A i \in 1..Len(queue) : queue'[i] = queue[i]
      /\ queue'[Len(queue) + 1] = EventItem(pushed + 1)
      /\ waiting' = FALSE
  BY <1>2, PushFacts
<1>4. /\ run = "running" /\ closedBy \notin End
      /\ UNCHANGED <<run, gen, requests, received, closedBy>>
  BY DEF RunPushes, CountInv
<1>5. Len(queue) \in Nat /\ Len(received) \in Nat /\ Len(received) + Len(queue) = pushed
  BY <1>4 DEF CountInv, TypeOK
<1>6. TypeOK'
  <2>1. pushed' \in 0..MaxEvents
    BY <1>1
  <2> QED BY <2>1, <1>3, <1>4 DEF TypeOK
<1>7. QueueInv'
  <2> SUFFICES ASSUME NEW i \in 1..Len(queue')
               PROVE  queue'[i] = EventItem(Len(received') + i) /\ Len(received') + i <= pushed'
    BY DEF QueueInv
  <2>1. CASE i \in 1..Len(queue)
    <3>1. Len(received) + i <= pushed
      BY <2>1, <1>1, <1>5
    <3>2. queue[i] = EventItem(Len(received) + i)
      BY <2>1, <3>1 DEF QueueInv
    <3> QED BY <2>1, <3>1, <3>2, <1>1, <1>3, <1>4
  <2>2. CASE i = Len(queue) + 1
    BY <2>2, <1>1, <1>3, <1>4, <1>5
  <2> QED BY <2>1, <2>2, <1>3, <1>5
<1>8. CountInv'
  BY <1>1, <1>3, <1>4, <1>5 DEF CountInv
<1>9. PlaceInv'
  BY <1>3, <1>4 DEF PlaceInv
<1>10. StreamIsTheRun'
  BY <1>3, <1>4 DEF StreamIsTheRun
<1>11. RequestsInv'
  BY <1>4 DEF RequestsInv
<1> QED BY <1>6, <1>7, <1>8, <1>9, <1>10, <1>11

(* The run settles and its end is pushed.                                  *)
LEMMA EndPushed ==
  ASSUME IInv, RunSettles
  PROVE  IInv'
<1> USE DEF IInv
<1>1. PICK type \in End : Push(EndItem(type))
  BY DEF RunSettles
<1>2. EndItem(type) \in Item /\ EndItem(type).type \in End
  BY DEF Item, EndItem
<1>3. /\ queue' \in Seq(Item)
      /\ Len(queue') = Len(queue) + 1
      /\ \A i \in 1..Len(queue) : queue'[i] = queue[i]
      /\ queue'[Len(queue) + 1] = EndItem(type)
      /\ waiting' = FALSE
  BY <1>1, <1>2, PushFacts
<1>4. /\ run = "running" /\ run' = "settled" /\ closedBy \notin End
      /\ UNCHANGED <<pushed, gen, requests, received, closedBy>>
  BY DEF RunSettles, CountInv
<1>5. /\ Len(queue) \in Nat /\ Len(received) \in Nat /\ pushed \in Nat
      /\ Len(received) + Len(queue) = pushed
  BY <1>4, StreamAssumption DEF CountInv, TypeOK
<1>6. TypeOK'
  BY <1>3, <1>4 DEF TypeOK
<1>7. QueueInv'
  <2> SUFFICES ASSUME NEW i \in 1..Len(queue')
               PROVE  IF Len(received') + i <= pushed'
                        THEN queue'[i] = EventItem(Len(received') + i)
                        ELSE queue'[i].type \in End
    BY DEF QueueInv
  <2>1. CASE i \in 1..Len(queue)
    BY <2>1, <1>3, <1>4, <1>5 DEF QueueInv
  <2>2. CASE i = Len(queue) + 1
    BY <2>2, <1>2, <1>3, <1>4, <1>5
  <2> QED BY <2>1, <2>2, <1>3, <1>5
<1>8. CountInv'
  BY <1>3, <1>4, <1>5 DEF CountInv
<1>9. PlaceInv'
  BY <1>3, <1>4 DEF PlaceInv
<1>10. StreamIsTheRun'
  BY <1>3, <1>4 DEF StreamIsTheRun
<1>11. RequestsInv'
  BY <1>4 DEF RequestsInv
<1> QED BY <1>6, <1>7, <1>8, <1>9, <1>10, <1>11

-----------------------------------------------------------------------------
(* The consumer's calls touch nothing but its requests.                    *)
LEMMA RequestKeeps ==
  ASSUME IInv, Ask \/ GiveUp
  PROVE  IInv'
<1> USE DEF IInv
<1>1. PICK call \in {"next", "return"} :
        /\ requests' = Append(requests, call)
        /\ call = "next" => Len(requests) < MaxRequests
        /\ call = "return" => "return" \notin ToSet(requests)
  BY DEF Ask, GiveUp
<1>2. /\ requests' \in Seq({"next", "return"})
      /\ Len(requests') = Len(requests) + 1
      /\ requests'[Len(requests) + 1] = call
      /\ Len(requests) \in Nat
  BY <1>1, AppendProperties DEF TypeOK
<1>3. UNCHANGED <<run, pushed, queue, waiting, gen, received, closedBy>>
  BY DEF Ask, GiveUp
<1>4. \/ Len(requests') <= MaxRequests
      \/ call = "return" /\ Len(requests') <= MaxRequests + 1
  BY <1>1, <1>2, StreamAssumption DEF RequestsInv
<1>5. call = "return" => "return" \in ToSet(requests')
  BY <1>2 DEF ToSet
<1>6. RequestsInv'
  BY <1>2, <1>4, <1>5 DEF RequestsInv
<1>7. TypeOK'
  BY <1>2, <1>3, <1>4, StreamAssumption DEF TypeOK
<1>8. QueueInv' /\ CountInv' /\ PlaceInv' /\ StreamIsTheRun'
  BY <1>3 DEF QueueInv, CountInv, PlaceInv, StreamIsTheRun
<1> QED BY <1>6, <1>7, <1>8

-----------------------------------------------------------------------------
(* The generator answers the first request.                                *)
LEMMA RequestAnswered ==
  ASSUME TypeOK, requests # <<>>, requests' = Tail(requests)
  PROVE  requests' \in Seq({"next", "return"}) /\ Len(requests') <= MaxRequests
<1>1. /\ requests \in Seq({"next", "return"}) /\ Len(requests) <= MaxRequests + 1
      /\ Len(requests) \in Nat
  BY DEF TypeOK
<1>2. Tail(requests) \in Seq({"next", "return"}) /\ Len(Tail(requests)) = Len(requests) - 1
  BY <1>1
<1> QED BY <1>1, <1>2, StreamAssumption

(* Taking an item: the next event is received, or the end is reached and   *)
(* nothing is left behind it.                                              *)
LEMMA TakeKeeps ==
  ASSUME IInv, TakeItem, gen \in {"yielded", "waiting"}, requests # <<>>, ~waiting,
         UNCHANGED <<run, pushed, waiting>>
  PROVE  IInv'
<1> USE DEF IInv
<1>1. /\ queue \in Seq(Item) /\ queue # <<>> /\ queue' = Tail(queue)
      /\ received \in Seq(1..MaxEvents)
      /\ Len(received) \in Nat /\ Len(queue) \in Nat /\ pushed \in Nat
  BY StreamAssumption DEF TypeOK, TakeItem
<1>2. /\ Len(queue) >= 1 /\ Head(queue) = queue[1]
      /\ queue' \in Seq(Item) /\ Len(queue') = Len(queue) - 1
      /\ \A i \in 1..Len(queue') : queue'[i] = queue[i + 1]
  BY <1>1
<1>3. run \in {"running", "settled"} /\ closedBy = "open"
  BY DEF PlaceInv, TypeOK
<1>4. closedBy \notin End
  BY <1>3 DEF End
<1>5. /\ run = "running" => Len(received) + Len(queue) = pushed
      /\ run = "settled" => Len(received) + Len(queue) = pushed + 1
  BY <1>4 DEF CountInv
<1>6. IF Len(received) + 1 <= pushed
        THEN Head(queue) = EventItem(Len(received) + 1)
        ELSE Head(queue).type \in End
  BY <1>1, <1>2 DEF QueueInv
<1>7. CASE Head(queue).type = "event" /\ Yield(Head(queue).n)
  <2>1. Len(received) + 1 <= pushed /\ Head(queue).n = Len(received) + 1
    BY <1>6, <1>7 DEF End, EventItem
  <2>2. /\ received' = Append(received, Len(received) + 1) /\ gen' = "yielded"
        /\ requests' = Tail(requests) /\ closedBy' = closedBy
    BY <1>7, <2>1 DEF Yield
  <2>3. Len(received) + 1 \in 1..MaxEvents
    BY <1>1, <2>1, StreamAssumption DEF TypeOK
  <2>4. /\ received' \in Seq(1..MaxEvents) /\ Len(received') = Len(received) + 1
        /\ \A i \in 1..Len(received) : received'[i] = received[i]
        /\ received'[Len(received) + 1] = Len(received) + 1
    BY <1>1, <2>2, <2>3, AppendProperties
  <2>5. requests' \in Seq({"next", "return"}) /\ Len(requests') <= MaxRequests
    BY <2>2, RequestAnswered
  <2>6. Len(requests') <= MaxRequests + 1
    BY <2>5, StreamAssumption
  <2>7. TypeOK'
    BY <1>2, <2>2, <2>4, <2>5, <2>6 DEF TypeOK
  <2>8. QueueInv'
    <3> SUFFICES ASSUME NEW i \in 1..Len(queue')
                 PROVE  IF Len(received') + i <= pushed'
                          THEN queue'[i] = EventItem(Len(received') + i)
                          ELSE queue'[i].type \in End
      BY DEF QueueInv
    <3>1. i + 1 \in 1..Len(queue) /\ Len(received') + i = Len(received) + (i + 1)
      BY <1>1, <1>2, <2>4
    <3> QED BY <3>1, <1>2 DEF QueueInv
  <2>9. CountInv'
    <3>1. Len(received') + Len(queue') = Len(received) + Len(queue)
      BY <1>1, <1>2, <2>4
    <3>2. run' = run /\ run' # "new" /\ pushed' = pushed /\ closedBy' \notin End
      BY <1>3, <1>4, <2>2
    <3>3. Len(received') <= pushed'
      BY <2>1, <2>4, <3>2
    <3> QED BY <1>5, <3>1, <3>2, <3>3 DEF CountInv
  <2>10. PlaceInv' /\ RequestsInv'
    BY <1>3, <2>2, <2>5 DEF PlaceInv, RequestsInv
  <2>11. received' = [i \in 1..Len(received') |-> i]
    <3>1. received = [i \in 1..Len(received) |-> i]
      BY DEF StreamIsTheRun
    <3>2. \A i \in 1..Len(received') : received'[i] = i
      BY <1>1, <2>4, <3>1
    <3> QED BY <2>4, <3>2
  <2>12. StreamIsTheRun'
    BY <1>4, <2>2, <2>11 DEF StreamIsTheRun
  <2> QED BY <2>7, <2>8, <2>9, <2>10, <2>12
<1>8. CASE Head(queue).type \in End /\ Leave(Head(queue).type) /\ UNCHANGED <<received, requests>>
  <2>1. gen' = "finally" /\ closedBy' \in End /\ UNCHANGED <<received, requests>>
    BY <1>8 DEF Leave, PlaceAfterEnd
  <2>2. ~(Len(received) + 1 <= pushed)
    BY <1>6, <1>8 DEF End, EventItem
  <2>3. run = "settled" /\ Len(received) = pushed /\ Len(queue') = 0
    BY <1>1, <1>2, <1>3, <1>5, <2>2
  <2>4. queue' = <<>>
    BY <1>2, <2>3
  <2>5. TypeOK'
    BY <1>2, <2>1 DEF TypeOK
  <2>6. QueueInv'
    BY <2>3 DEF QueueInv
  <2>7. CountInv'
    BY <2>1, <2>3, <2>4 DEF CountInv
  <2>8. PlaceInv' /\ RequestsInv'
    BY <2>1, <2>3 DEF PlaceInv, RequestsInv, End
  <2>9. StreamIsTheRun'
    BY <2>1, <2>3 DEF StreamIsTheRun
  <2> QED BY <2>5, <2>6, <2>7, <2>8, <2>9
<1> QED BY <1>7, <1>8 DEF TakeItem

(* The generator goes to sleep only when the queue is empty and its run    *)
(* still goes on: nothing it waits for has happened.                       *)
LEMMA SleepKeeps ==
  ASSUME IInv, queue = <<>>, Sleep, gen \in {"yielded", "waiting"}, requests # <<>>,
         UNCHANGED <<run, pushed>>
  PROVE  IInv'
<1> USE DEF IInv
<1>1. closedBy = "open" /\ closedBy \notin End /\ run # "new"
  BY DEF PlaceInv, End
<1>2. Len(queue) = 0 /\ Len(received) \in Nat /\ pushed \in Nat
  BY StreamAssumption DEF TypeOK
<1>3. gen' = "waiting" /\ waiting' = TRUE /\ UNCHANGED <<queue, received, requests, closedBy>>
  BY DEF Sleep
<1>4. run = "running"
  <2>1. SUFFICES ASSUME run = "settled" PROVE FALSE
    BY <1>1 DEF TypeOK
  <2>2. Len(received) = pushed + 1 /\ Len(received) <= pushed
    BY <1>1, <1>2, <2>1 DEF CountInv
  <2> QED BY <1>2, <2>2
<1>5. TypeOK'
  BY <1>3 DEF TypeOK
<1>6. QueueInv' /\ CountInv'
  BY <1>3 DEF QueueInv, CountInv
<1>7. PlaceInv' /\ RequestsInv'
  BY <1>1, <1>3 DEF PlaceInv, RequestsInv
<1>8. StreamIsTheRun'
  BY <1>3, <1>4 DEF StreamIsTheRun
<1> QED BY <1>5, <1>6, <1>7, <1>8

-----------------------------------------------------------------------------
(* One step per action of the generator.                                   *)
LEMMA GeneratorKeeps ==
  ASSUME IInv, GeneratorStep
  PROVE  IInv'
<1> USE DEF IInv
<1>1. CASE Starts
  <2>1. /\ run = "new" /\ run' = "running" /\ closedBy = "open" /\ ~waiting
        /\ queue = <<>> /\ received = <<>> /\ pushed = 0 /\ requests # <<>>
    BY <1>1 DEF Starts, PlaceInv, CountInv, TypeOK
  <2>2. CASE MaxEvents > 0 /\ pushed' = 1 /\ Yield(1) /\ UNCHANGED <<queue, waiting>>
    <3>1. /\ received' = Append(received, 1) /\ gen' = "yielded"
          /\ requests' = Tail(requests) /\ closedBy' = "open" /\ queue' = <<>> /\ ~waiting'
      BY <2>1, <2>2 DEF Yield
    <3>2. received' = <<1>> /\ Len(received') = 1 /\ 1 \in 1..MaxEvents
      BY <2>1, <2>2, <3>1, StreamAssumption
    <3>3. requests' \in Seq({"next", "return"}) /\ Len(requests') <= MaxRequests
      BY <2>1, <3>1, RequestAnswered
    <3>4. Len(requests') <= MaxRequests + 1
      BY <3>3, StreamAssumption
    <3>5. pushed' \in 0..MaxEvents /\ received' \in Seq(1..MaxEvents)
      BY <2>2, <3>2, StreamAssumption
    <3>6. TypeOK'
      BY <2>1, <3>1, <3>3, <3>4, <3>5, <2>2 DEF TypeOK
    <3>7. Len(queue') = 0 /\ 1..0 = {}
      BY <3>1
    <3>8. QueueInv'
      BY <3>7 DEF QueueInv
    <3>9. CountInv'
      BY <2>1, <2>2, <3>1, <3>2, <3>7 DEF CountInv, End
    <3>10. PlaceInv' /\ RequestsInv'
      BY <2>1, <3>1, <3>3 DEF PlaceInv, RequestsInv
    <3>11. received' = [i \in 1..Len(received') |-> i]
      BY <3>2
    <3>12. StreamIsTheRun'
      BY <3>1, <3>11 DEF StreamIsTheRun, End
    <3> QED BY <3>6, <3>8, <3>9, <3>10, <3>12
  <2>3. CASE Sleep /\ UNCHANGED pushed
    <3>1. /\ gen' = "waiting" /\ waiting' = TRUE /\ pushed' = pushed
          /\ UNCHANGED <<queue, received, requests, closedBy>>
      BY <2>3 DEF Sleep
    <3>2. Len(queue) = 0 /\ Len(received) = 0
      BY <2>1
    <3>3. TypeOK'
      BY <2>1, <3>1 DEF TypeOK
    <3>4. QueueInv' /\ CountInv'
      BY <2>1, <3>1, <3>2 DEF QueueInv, CountInv, End
    <3>5. PlaceInv' /\ RequestsInv'
      BY <2>1, <3>1 DEF PlaceInv, RequestsInv
    <3>6. StreamIsTheRun'
      BY <2>1, <3>1 DEF StreamIsTheRun
    <3> QED BY <3>3, <3>4, <3>5, <3>6
  <2> QED BY <1>1, <2>2, <2>3 DEF Starts
<1>2. CASE ClosedUnstarted
  <2>1. /\ run = "new" /\ requests # <<>> /\ ~waiting
        /\ gen' = "closed" /\ closedBy' = "return" /\ requests' = Tail(requests)
        /\ UNCHANGED <<run, pushed, queue, waiting, received>>
    BY <1>2 DEF ClosedUnstarted, PlaceInv, TypeOK
  <2>2. requests' \in Seq({"next", "return"}) /\ Len(requests') <= MaxRequests
    BY <2>1, RequestAnswered
  <2>3. Len(requests') <= MaxRequests + 1
    BY <2>2, StreamAssumption
  <2>4. TypeOK'
    BY <2>1, <2>2, <2>3 DEF TypeOK
  <2>5. QueueInv' /\ CountInv'
    BY <2>1 DEF QueueInv, CountInv, End
  <2>6. PlaceInv' /\ RequestsInv'
    BY <2>1, <2>2 DEF PlaceInv, RequestsInv
  <2>7. StreamIsTheRun'
    BY <2>1 DEF StreamIsTheRun, End
  <2> QED BY <2>4, <2>5, <2>6, <2>7
<1>3. CASE Continues \/ Wakened
  <2>1. /\ gen \in {"yielded", "waiting"} /\ requests # <<>> /\ ~waiting
        /\ TakeOrWait /\ UNCHANGED <<run, pushed>>
    BY <1>3 DEF Continues, Wakened, PlaceInv, RequestsInv
  <2> QED BY <2>1, TakeKeeps, SleepKeeps DEF TakeOrWait
<1>4. CASE Abandons
  <2>1. /\ gen = "yielded" /\ gen' = "finally" /\ closedBy' = "return"
        /\ UNCHANGED <<run, pushed, queue, waiting, requests, received>>
    BY <1>4 DEF Abandons, Leave, PlaceAfterEnd
  <2>2. closedBy = "open" /\ run # "new" /\ ~waiting
    BY <2>1 DEF PlaceInv, TypeOK
  <2>3. TypeOK'
    BY <2>1 DEF TypeOK
  <2>4. QueueInv' /\ CountInv'
    BY <2>1, <2>2 DEF QueueInv, CountInv, End
  <2>5. PlaceInv' /\ RequestsInv'
    BY <2>1, <2>2 DEF PlaceInv, RequestsInv
  <2>6. StreamIsTheRun'
    BY <2>1, <2>2 DEF StreamIsTheRun, End
  <2> QED BY <2>3, <2>4, <2>5, <2>6
<1>5. CASE Closes
  <2>1. /\ gen = "finally" /\ gen' = "closed" /\ run = "settled" /\ requests' = <<>>
        /\ UNCHANGED <<run, pushed, queue, waiting, received, closedBy>>
    BY <1>5 DEF Closes
  <2>2. closedBy # "open" /\ ~waiting
    BY <2>1 DEF PlaceInv, TypeOK
  <2>3. requests' \in Seq({"next", "return"}) /\ Len(requests') <= MaxRequests
        /\ Len(requests') <= MaxRequests + 1
    BY <2>1, StreamAssumption
  <2>4. TypeOK'
    BY <2>1, <2>3 DEF TypeOK
  <2>5. QueueInv' /\ CountInv'
    BY <2>1 DEF QueueInv, CountInv
  <2>6. PlaceInv' /\ RequestsInv'
    BY <2>1, <2>2, <2>3 DEF PlaceInv, RequestsInv
  <2>7. StreamIsTheRun'
    BY <2>1, <2>2 DEF StreamIsTheRun
  <2> QED BY <2>4, <2>5, <2>6, <2>7
<1> QED BY <1>1, <1>2, <1>3, <1>4, <1>5 DEF GeneratorStep

(* Every step of the stream keeps the invariant.                           *)
LEMMA StepKeeps == IInv /\ [Next]_vars => IInv'
<1> SUFFICES ASSUME IInv, [Next]_vars PROVE IInv'
  OBVIOUS
<1>1. CASE Next
  BY <1>1, EventPushed, EndPushed, RequestKeeps, GeneratorKeeps DEF Next
<1>2. CASE UNCHANGED vars
  BY <1>2 DEF vars, IInv, TypeOK, QueueInv, CountInv, PlaceInv, RequestsInv, StreamIsTheRun
<1> QED BY <1>1, <1>2

-----------------------------------------------------------------------------
(* The inductive invariant holds in every state of a stream.               *)
THEOREM StreamInvariance == Spec => []IInv
<1>1. Init => IInv
  BY InitEstablishes
<1>2. IInv /\ [Next]_vars => IInv'
  BY StepKeeps
<1> QED BY <1>1, <1>2, PTL DEF Spec

(* However many events a run pushes and however far ahead its consumer     *)
(* asks: it receives them in order and all of them before the end, sleeps  *)
(* only while there is nothing to receive, and finds the stream closed     *)
(* only when the run is over.                                              *)
THEOREM StreamCorrect == Spec => []StreamIsTheRun
<1>1. IInv => StreamIsTheRun
  BY DEF IInv
<1> QED BY <1>1, StreamInvariance, PTL

(***************************************************************************)
(* The rows of the view.                                                   *)
(***************************************************************************)

By == {"run", "cli"}

MessageRows ==
  [role : {"user", "assistant", "error"}, id : Nat, text : Seq(Nat), streaming : BOOLEAN,
   at : Nat, order : Nat, n : Nat, by : By]

ToolRows ==
  [id : CallIds \cup {NoCall}, status : {"running", "success", "error"}, streams : Seq(Nat),
   at : Nat, order : Nat, n : Nat, by : By]

NoteRows == [at : Nat, order : Nat, n : Nat, by : By]

Views ==
  [messages : Seq(MessageRows), tools : Seq(ToolRows), notes : Seq(NoteRows), eventCount : Nat]

Events ==
  [kind : Kinds \cup {"clear"}, call : CallIds \cup {NoCall}, by : By, at : Nat, n : Nat]

Same(a, b) == a.at = b.at /\ a.order = b.order /\ a.n = b.n /\ a.by = b.by

Fresh(a, v, e) == a.at = e.at /\ a.order = v.eventCount + 1 /\ a.n = e.n /\ a.by = e.by

(* A function on 1..m is a sequence of length m.                           *)
LEMMA SequenceOf ==
  ASSUME NEW S, NEW m \in Nat, NEW f \in [1..m -> S]
  PROVE  f \in Seq(S) /\ Len(f) = m
<1>1. f \in Seq(S)
  BY SeqDef
<1> QED BY <1>1, LenProperties

(* The latest rows of a list are a suffix of it.                           *)
LEMMA LatestIs ==
  ASSUME NEW S, NEW s \in Seq(S), NEW max \in Nat
  PROVE  /\ Latest(s, max) \in Seq(S)
         /\ Len(Latest(s, max)) <= max /\ Len(Latest(s, max)) <= Len(s)
         /\ \E d \in Nat :
              /\ d = IF Len(s) > max THEN Len(s) - max ELSE 0
              /\ Len(s) = Len(Latest(s, max)) + d
              /\ \A i \in 1..Len(Latest(s, max)) : Latest(s, max)[i] = s[i + d]
<1> DEFINE d == IF Len(s) > max THEN Len(s) - max ELSE 0
<1>1. Len(s) \in Nat /\ d \in Nat /\ d <= Len(s) /\ d + 1 \in Int /\ Len(s) \in Int
  BY LenProperties
<1>2. Latest(s, max) = SubSeq(s, d + 1, Len(s))
  BY DEF Latest
<1>0. d = IF Len(s) > max THEN Len(s) - max ELSE 0
  OBVIOUS
<1> HIDE DEF d
<1>3. \A i \in (d + 1)..Len(s) : s[i] \in S
  BY <1>1, ElementOfSeq
<1>4. /\ Latest(s, max) \in Seq(S)
      /\ Len(Latest(s, max)) = IF d + 1 <= Len(s) THEN Len(s) - (d + 1) + 1 ELSE 0
      /\ \A i \in 1..(Len(s) - (d + 1) + 1) : Latest(s, max)[i] = s[d + 1 + i - 1]
  <2> DEFINE m == d + 1
             t == Len(s)
  <2>1. m \in Int /\ t \in Int /\ \A i \in m..t : s[i] \in S
    BY <1>1, <1>3
  <2>2. Latest(s, max) = SubSeq(s, m, t)
    BY <1>2
  <2> HIDE DEF m, t
  <2>3. /\ SubSeq(s, m, t) \in Seq(S)
        /\ Len(SubSeq(s, m, t)) = IF m <= t THEN t - m + 1 ELSE 0
        /\ \A i \in 1..(t - m + 1) : SubSeq(s, m, t)[i] = s[m + i - 1]
    BY <2>1, SubSeqProperties
  <2> QED BY <2>2, <2>3 DEF m, t
<1>5. Len(Latest(s, max)) = Len(s) - d
  BY <1>1, <1>4
<1>6. \A i \in 1..Len(Latest(s, max)) : Latest(s, max)[i] = s[i + d]
  <2> TAKE i \in 1..Len(Latest(s, max))
  <2>1. i \in 1..(Len(s) - (d + 1) + 1) /\ d + 1 + i - 1 = i + d
    BY <1>1, <1>5
  <2> QED BY <1>4, <2>1
<1>7. Len(Latest(s, max)) <= max /\ Len(Latest(s, max)) <= Len(s) /\ Len(s) = Len(Latest(s, max)) + d
  BY <1>0, <1>1, <1>5
<1> QED BY <1>0, <1>1, <1>4, <1>6, <1>7

(* A filtered list has the kept rows and no others, each in one place.     *)
LEMMA FilteredIs ==
  ASSUME NEW S, NEW s \in Seq(S), NEW kept \in SUBSET (1..Len(s))
  PROVE  /\ Filtered(s, kept) \in Seq(S)
         /\ \E f \in [1..Len(Filtered(s, kept)) -> kept] :
              /\ \A k \in 1..Len(Filtered(s, kept)) : Filtered(s, kept)[k] = s[f[k]]
              /\ \A k, l \in 1..Len(Filtered(s, kept)) : f[k] = f[l] => k = l
              /\ \A i \in kept : \E k \in 1..Len(Filtered(s, kept)) : f[k] = i
<1> DEFINE upTo(i) == {j \in kept : j <= i}
           size == Cardinality(kept)
           rank == [i \in kept |-> Cardinality(upTo(i))]
           f == [k \in 1..size |-> CHOOSE i \in kept : Cardinality(upTo(i)) = k]
<1>1. Len(s) \in Nat /\ IsFiniteSet(1..Len(s))
  BY FS_Interval, LenProperties
<1>2. IsFiniteSet(kept) /\ size \in Nat
  BY <1>1, FS_Subset, FS_CardinalityType
<1>3. ASSUME NEW i \in kept
      PROVE  IsFiniteSet(upTo(i)) /\ Cardinality(upTo(i)) \in 1..size
  <2>1. upTo(i) \in SUBSET kept /\ i \in upTo(i)
    BY <1>1
  <2>2. IsFiniteSet(upTo(i)) /\ Cardinality(upTo(i)) <= size
    BY <1>2, <2>1, FS_Subset
  <2>3. Cardinality(upTo(i)) # 0
    BY <2>1, <2>2, FS_EmptySet
  <2>4. Cardinality(upTo(i)) \in Nat
    BY <2>2, FS_CardinalityType
  <2> QED BY <1>2, <2>2, <2>3, <2>4
<1>4. ASSUME NEW i \in kept, NEW j \in kept, i < j
      PROVE  Cardinality(upTo(i)) # Cardinality(upTo(j))
  <2>0. i \in Nat /\ j \in Nat /\ \A x \in kept : x \in Nat
    BY <1>1
  <2>1. upTo(i) \in SUBSET upTo(j) /\ j \in upTo(j) /\ j \notin upTo(i)
    <3>1. \A x \in kept : x <= i => x <= j
      BY <2>0, <1>4
    <3>2. upTo(i) \in SUBSET upTo(j)
      BY <3>1
    <3>3. j <= j /\ ~(j <= i)
      BY <2>0, <1>4
    <3> QED BY <3>2, <3>3
  <2> QED BY <1>3, <2>1, FS_Subset
<1>5. rank \in Injection(kept, 1..size)
  <2>1. rank \in [kept -> 1..size]
    BY <1>3
  <2>2. ASSUME NEW i \in kept, NEW j \in kept, rank[i] = rank[j]
        PROVE  i = j
    <3>1. Cardinality(upTo(i)) = Cardinality(upTo(j))
      BY <2>2
    <3>2. i \in Nat /\ j \in Nat
      BY <1>1
    <3>3. i < j \/ j < i \/ i = j
      BY <3>2
    <3> QED BY <1>4, <3>1, <3>3
  <2> QED BY <2>1, <2>2 DEF Injection, IsInjective
<1>6. IsFiniteSet(1..size) /\ Cardinality(1..size) = size
  BY <1>2, FS_Interval
<1>7. rank \in Surjection(kept, 1..size)
  BY <1>5, <1>6, FS_Injection
<1>8. \A k \in 1..size : \E i \in kept : Cardinality(upTo(i)) = k
  BY <1>7 DEF Surjection
<1>9. \A k \in 1..size : f[k] \in kept /\ Cardinality(upTo(f[k])) = k
  BY <1>8
<1>10. Filtered(s, kept) = [k \in 1..size |-> s[f[k]]]
  BY DEF Filtered
<1>11. Len(Filtered(s, kept)) = size /\ Filtered(s, kept) \in Seq(S)
  <2>1. \A k \in 1..size : s[f[k]] \in S
    BY <1>9, ElementOfSeq
  <2>2. Filtered(s, kept) \in [1..size -> S]
    BY <1>10, <2>1
  <2> HIDE DEF size
  <2> QED BY <1>2, <2>2, SequenceOf
<1>12. f \in [1..size -> kept] /\ \A k \in 1..size : Filtered(s, kept)[k] = s[f[k]]
  BY <1>9, <1>10
<1>13. \A k, l \in 1..size : f[k] = f[l] => k = l
  BY <1>9
<1>14. ASSUME NEW i \in kept PROVE \E k \in 1..size : f[k] = i
  <2> DEFINE k == Cardinality(upTo(i))
  <2>1. k \in 1..size
    BY <1>3
  <2>2. f[k] \in kept /\ Cardinality(upTo(f[k])) = k
    BY <1>9, <2>1
  <2>3. rank[f[k]] = rank[i]
    BY <2>2
  <2>4. f[k] = i
    BY <1>5, <2>2, <2>3 DEF Injection, IsInjective
  <2> QED BY <2>1, <2>4
<1> HIDE DEF f, size
<1> QED BY <1>11, <1>12, <1>13, <1>14

(***************************************************************************)
(* What an event does to each list.                                        *)
(***************************************************************************)

(* A row that an event puts at the end of the messages.                    *)
NewMessage(v, e, role, id, text, streaming) ==
  [role |-> role, id |-> id, text |-> text, streaming |-> streaming,
   at |-> e.at, order |-> v.eventCount + 1, n |-> e.n, by |-> e.by]

(* A row that is placed keeps the rest of its fields.                      *)
LEMMA PlacedIs ==
  ASSUME NEW row, NEW v, NEW e
  PROVE  Placed(row, v, e) =
           [f \in DOMAIN row |-> IF f = "at" THEN e.at
                                 ELSE IF f = "order" THEN v.eventCount + 1
                                 ELSE IF f = "n" THEN e.n
                                 ELSE IF f = "by" THEN e.by ELSE row[f]]
  BY DEF Placed

(* A new message has the time and the number of its event, and the next    *)
(* place.                                                                  *)
LEMMA NewMessageIs ==
  ASSUME NEW v \in Views, NEW e \in Events,
         NEW role \in {"user", "assistant", "error"}, NEW id \in Nat,
         NEW text \in Seq(Nat), NEW streaming \in BOOLEAN
  PROVE  /\ Placed(MessageRow(role, id, text, streaming), v, e) = NewMessage(v, e, role, id, text, streaming)
         /\ NewMessage(v, e, role, id, text, streaming) \in MessageRows
         /\ Fresh(NewMessage(v, e, role, id, text, streaming), v, e)
<1>1. v.eventCount + 1 \in Nat /\ e.at \in Nat /\ e.n \in Nat /\ e.by \in By
  BY DEF Views, Events
<1>2. Placed(MessageRow(role, id, text, streaming), v, e) = NewMessage(v, e, role, id, text, streaming)
  BY PlacedIs DEF MessageRow, NewMessage
<1>3. NewMessage(v, e, role, id, text, streaming) \in MessageRows
  BY <1>1 DEF NewMessage, MessageRows
<1> QED BY <1>2, <1>3 DEF NewMessage, Fresh

(* The next delta goes to the end of the row's text.                       *)
LEMMA DeltaPlaced ==
  ASSUME NEW v, NEW e, NEW m \in MessageRows
  PROVE  Placed([m EXCEPT !.text = WithDelta(@, e), !.streaming = TRUE], v, e)
           = NewMessage(v, e, m.role, m.id, Append(m.text, e.n), TRUE)
<1> DEFINE t == [m EXCEPT !.text = WithDelta(@, e), !.streaming = TRUE]
<1>1. t = [f \in DOMAIN m |-> IF f = "text" THEN Append(m.text, e.n) ELSE IF f = "streaming" THEN TRUE ELSE m[f]]
  BY DEF WithDelta
<1>2. DOMAIN m = {"role", "id", "text", "streaming", "at", "order", "n", "by"}
  BY DEF MessageRows
<1> HIDE DEF t
<1>3. t = [role |-> m.role, id |-> m.id, text |-> Append(m.text, e.n), streaming |-> TRUE,
           at |-> m.at, order |-> m.order, n |-> m.n, by |-> m.by]
  BY <1>1, <1>2
<1>4. Placed(t, v, e) = NewMessage(v, e, m.role, m.id, Append(m.text, e.n), TRUE)
  BY <1>3, PlacedIs DEF NewMessage
<1> QED
  BY <1>4 DEF t

(* What an event does to the messages, before the lists are compacted.     *)
LEMMA ReducedMessages ==
  ASSUME NEW v \in Views, NEW e \in Events
  PROVE  LET p == ReducedEvent(v, e).messages
         IN  /\ e.kind \in {"user", "error"} =>
                  p = Append(v.messages, NewMessage(v, e, e.kind, e.n, <<>>, FALSE))
             /\ e.kind = "stage" =>
                  p = IF Shown(v, MessageId(e)) THEN v.messages
                      ELSE Append(v.messages, NewMessage(v, e, "assistant", MessageId(e), <<>>, TRUE))
             /\ e.kind = "delta" /\ ~Shown(v, MessageId(e)) =>
                  p = Append(v.messages, NewMessage(v, e, "assistant", MessageId(e), <<e.n>>, TRUE))
             /\ e.kind = "delta" /\ Shown(v, MessageId(e)) =>
                  p = [i \in DOMAIN v.messages |->
                         IF v.messages[i].id = MessageId(e)
                           THEN NewMessage(v, e, v.messages[i].role, MessageId(e),
                                           Append(v.messages[i].text, e.n), TRUE)
                           ELSE v.messages[i]]
             /\ e.kind = "done" =>
                  p = [i \in DOMAIN v.messages |->
                         IF v.messages[i].id = MessageId(e)
                           THEN [v.messages[i] EXCEPT !.streaming = FALSE]
                           ELSE v.messages[i]]
             /\ e.kind = "clear" => p = <<>>
             /\ e.kind \in {"start", "ok", "failed", "stream", "note"} => p = v.messages
<1> DEFINE p == ReducedEvent(v, e).messages
<1>0. v = [messages |-> v.messages, tools |-> v.tools, notes |-> v.notes, eventCount |-> v.eventCount]
  BY DEF Views
<1>1. /\ v.messages \in Seq(MessageRows) /\ e.n \in Nat /\ MessageId(e) \in Nat
      /\ <<>> \in Seq(Nat) /\ <<e.n>> \in Seq(Nat)
  BY DEF Views, Events, MessageId
<1>2. e.kind \in {"user", "error"} =>
        p = Append(v.messages, NewMessage(v, e, e.kind, e.n, <<>>, FALSE))
  <2>1. e.kind = "user" => p = Append(v.messages, NewMessage(v, e, e.kind, e.n, <<>>, FALSE))
    <3>1. Placed(MessageRow("user", e.n, <<>>, FALSE), v, e) = NewMessage(v, e, "user", e.n, <<>>, FALSE)
      BY <1>1, NewMessageIs
    <3>2. e.kind = "user" => p = Append(v.messages, Placed(MessageRow("user", e.n, <<>>, FALSE), v, e))
      BY <1>0 DEF ReducedEvent
    <3> QED BY <3>1, <3>2
  <2>2. e.kind = "error" => p = Append(v.messages, NewMessage(v, e, e.kind, e.n, <<>>, FALSE))
    <3>1. Placed(MessageRow("error", e.n, <<>>, FALSE), v, e) = NewMessage(v, e, "error", e.n, <<>>, FALSE)
      BY <1>1, NewMessageIs
    <3>2. e.kind = "error" => p = Append(v.messages, Placed(MessageRow("error", e.n, <<>>, FALSE), v, e))
      BY <1>0 DEF ReducedEvent
    <3> QED BY <3>1, <3>2
  <2> QED BY <2>1, <2>2
<1>3. e.kind = "stage" =>
        p = IF Shown(v, MessageId(e)) THEN v.messages
            ELSE Append(v.messages, NewMessage(v, e, "assistant", MessageId(e), <<>>, TRUE))
  BY <1>0, <1>1, NewMessageIs DEF ReducedEvent, AssistantStage
<1>4. e.kind = "delta" /\ ~Shown(v, MessageId(e)) =>
        p = Append(v.messages, NewMessage(v, e, "assistant", MessageId(e), <<e.n>>, TRUE))
  BY <1>0, <1>1, NewMessageIs DEF ReducedEvent, AssistantDelta
<1>5. ASSUME e.kind = "delta", Shown(v, MessageId(e))
      PROVE  p = [i \in DOMAIN v.messages |->
                    IF v.messages[i].id = MessageId(e)
                      THEN NewMessage(v, e, v.messages[i].role, MessageId(e),
                                      Append(v.messages[i].text, e.n), TRUE)
                      ELSE v.messages[i]]
  <2>1. ASSUME NEW m \in MessageRows, m.id = MessageId(e)
        PROVE  Placed([m EXCEPT !.text = WithDelta(@, e), !.streaming = TRUE], v, e)
                 = NewMessage(v, e, m.role, MessageId(e), Append(m.text, e.n), TRUE)
    BY <2>1, DeltaPlaced
  <2>2. p = [i \in DOMAIN v.messages |->
               IF v.messages[i].id = MessageId(e)
                 THEN Placed([v.messages[i] EXCEPT !.text = WithDelta(@, e), !.streaming = TRUE], v, e)
                 ELSE v.messages[i]]
    BY <1>0, <1>5 DEF ReducedEvent, AssistantDelta, Updated
  <2>3. \A i \in DOMAIN v.messages : v.messages[i] \in MessageRows
    BY <1>1
  <2> QED BY <2>1, <2>2, <2>3
<1>6. e.kind = "done" =>
        p = [i \in DOMAIN v.messages |->
               IF v.messages[i].id = MessageId(e)
                 THEN [v.messages[i] EXCEPT !.streaming = FALSE]
                 ELSE v.messages[i]]
  BY <1>0 DEF ReducedEvent, AssistantDone, Updated
<1>7. e.kind = "clear" => p = <<>>
  BY <1>0 DEF ReducedEvent, Cleared
<1>8. e.kind \in {"start", "ok", "failed", "stream", "note"} => p = v.messages
  BY <1>0 DEF ReducedEvent, ToolStart, ToolEnd, ToolStream
<1> QED BY <1>2, <1>3, <1>4, <1>5, <1>6, <1>7, <1>8

NewTool(v, e) ==
  [id |-> e.call, status |-> "running", streams |-> <<>>,
   at |-> e.at, order |-> v.eventCount + 1, n |-> e.n, by |-> e.by]

NewNote(v, e) == [at |-> e.at, order |-> v.eventCount + 1, n |-> e.n, by |-> e.by]

(* What an event does to the tools and the notes.                          *)
LEMMA ReducedTools ==
  ASSUME NEW v \in Views, NEW e \in Events
  PROVE  LET p == ReducedEvent(v, e).tools
         IN  /\ e.kind = "start" =>
                  p = Append(Filtered(v.tools, {i \in DOMAIN v.tools : v.tools[i].id # e.call}), NewTool(v, e))
             /\ e.kind \in {"ok", "failed"} =>
                  p = [i \in DOMAIN v.tools |->
                         IF v.tools[i].id = e.call
                           THEN [v.tools[i] EXCEPT !.status = IF e.kind = "ok" THEN "success" ELSE "error"]
                           ELSE v.tools[i]]
             /\ e.kind = "stream" =>
                  p = [i \in DOMAIN v.tools |->
                         IF v.tools[i].id = e.call
                           THEN [v.tools[i] EXCEPT !.streams = Append(@, e.n)]
                           ELSE v.tools[i]]
             /\ e.kind = "clear" => p = <<>>
             /\ e.kind \in {"user", "error", "stage", "delta", "done", "note"} => p = v.tools
<1> DEFINE p == ReducedEvent(v, e).tools
<1>0. v = [messages |-> v.messages, tools |-> v.tools, notes |-> v.notes, eventCount |-> v.eventCount]
  BY DEF Views
<1>1. Placed(ToolRow(e.call), v, e) = NewTool(v, e)
  BY PlacedIs DEF ToolRow, NewTool
<1>2. e.kind = "start" =>
        p = Append(Filtered(v.tools, {i \in DOMAIN v.tools : v.tools[i].id # e.call}), NewTool(v, e))
  BY <1>0, <1>1 DEF ReducedEvent, ToolStart
<1>3. e.kind \in {"ok", "failed"} =>
        p = [i \in DOMAIN v.tools |->
               IF v.tools[i].id = e.call
                 THEN [v.tools[i] EXCEPT !.status = IF e.kind = "ok" THEN "success" ELSE "error"]
                 ELSE v.tools[i]]
  BY <1>0 DEF ReducedEvent, ToolEnd, Updated
<1>4. e.kind = "stream" =>
        p = [i \in DOMAIN v.tools |->
               IF v.tools[i].id = e.call
                 THEN [v.tools[i] EXCEPT !.streams = Append(@, e.n)]
                 ELSE v.tools[i]]
  BY <1>0 DEF ReducedEvent, ToolStream, Updated
<1>5. e.kind = "clear" => p = <<>>
  BY <1>0 DEF ReducedEvent, Cleared
<1>6. e.kind \in {"user", "error", "stage", "delta", "done", "note"} => p = v.tools
  BY <1>0 DEF ReducedEvent, AssistantStage, AssistantDelta, AssistantDone
<1> QED BY <1>2, <1>3, <1>4, <1>5, <1>6

(* An event puts a note at the end of the notes, or leaves them.           *)
LEMMA ReducedNotes ==
  ASSUME NEW v \in Views, NEW e \in Events
  PROVE  LET p == ReducedEvent(v, e).notes
         IN  /\ e.kind = "note" => p = Append(v.notes, NewNote(v, e))
             /\ e.kind = "clear" => p = <<>>
             /\ e.kind \notin {"note", "clear"} => p = v.notes
<1> DEFINE p == ReducedEvent(v, e).notes
<1>0. v = [messages |-> v.messages, tools |-> v.tools, notes |-> v.notes, eventCount |-> v.eventCount]
  BY DEF Views
<1>1. Placed(NoteRow, v, e) = NewNote(v, e)
  BY PlacedIs DEF NoteRow, NewNote
<1>2. e.kind = "note" => p = Append(v.notes, NewNote(v, e))
  BY <1>0, <1>1 DEF ReducedEvent
<1>3. e.kind = "clear" => p = <<>>
  BY <1>0 DEF ReducedEvent, Cleared
<1>4. e.kind \notin {"note", "clear"} => p = v.notes
  BY <1>0 DEF ReducedEvent, AssistantStage, AssistantDelta, AssistantDone, ToolStart, ToolEnd, ToolStream,
              Events, Kinds
<1> QED BY <1>2, <1>3, <1>4

(***************************************************************************)
(* Places in the order.                                                    *)
(***************************************************************************)

(* How an event moves the rows of a list: those it does not place keep     *)
(* their stamps, and no two rows get the same place.                       *)
Apart(rows) == \A i, j \in 1..Len(rows) : rows[i].order = rows[j].order => i = j

Moved(t, s, v, e, places) ==
  /\ Apart(t)
  /\ \A i \in 1..Len(t) :
       \/ \E j \in 1..Len(s) : Same(t[i], s[j])
       \/ (places /\ Fresh(t[i], v, e))

(* The places taken so far.                                                *)
Taken(s, v) == Apart(s) /\ \A i \in 1..Len(s) : s[i].order \in Nat /\ s[i].order <= v.eventCount

(* A row put at the end of a list, in the next place.                      *)
LEMMA AppendMoves ==
  ASSUME NEW S, NEW s \in Seq(S), NEW row \in S, NEW v \in Views, NEW e,
         Taken(s, v), Fresh(row, v, e)
  PROVE  Moved(Append(s, row), s, v, e, TRUE)
<1> DEFINE t == Append(s, row)
<1>1. /\ Len(s) \in Nat /\ Len(t) = Len(s) + 1
      /\ \A i \in 1..Len(s) : t[i] = s[i]
      /\ t[Len(s) + 1] = row
  BY AppendProperties, LenProperties
<1> HIDE DEF t
<1>2. v.eventCount \in Nat
  BY DEF Views
<1>3. \A i \in 1..Len(t) : i \in 1..Len(s) \/ i = Len(s) + 1
  BY <1>1
<1>4. \A i \in 1..Len(s) : t[i].order # t[Len(s) + 1].order
  BY <1>1, <1>2 DEF Taken, Fresh
<1>5. Apart(t)
  <2> SUFFICES ASSUME NEW i \in 1..Len(t), NEW j \in 1..Len(t), t[i].order = t[j].order
               PROVE  i = j
    BY DEF Apart
  <2> QED BY <1>1, <1>3, <1>4 DEF Taken, Apart
<1>6. ASSUME NEW i \in 1..Len(t)
      PROVE  (\E j \in 1..Len(s) : Same(t[i], s[j])) \/ Fresh(t[i], v, e)
  BY <1>1, <1>3 DEF Same
<1>7. Moved(t, s, v, e, TRUE)
  BY <1>5, <1>6 DEF Moved
<1> QED BY <1>7 DEF t

(* A list whose rows are changed where they are, each placed or not.       *)
LEMMA ChangeMoves ==
  ASSUME NEW S, NEW s \in Seq(S), NEW t, Len(t) = Len(s), NEW v \in Views, NEW e, NEW places \in BOOLEAN,
         Taken(s, v),
         \A i \in 1..Len(s) : Same(t[i], s[i]) \/ (places /\ Fresh(t[i], v, e)),
         \A i, j \in 1..Len(s) : ~Same(t[i], s[i]) /\ ~Same(t[j], s[j]) => i = j
  PROVE  Moved(t, s, v, e, places)
<1>1. v.eventCount \in Nat
  BY DEF Views
<1>0. \A i \in 1..Len(s) :
        /\ Same(t[i], s[i]) => t[i].order = s[i].order
        /\ ~Same(t[i], s[i]) => t[i].order = v.eventCount + 1
  BY DEF Same, Fresh
<1>2. ASSUME NEW i \in 1..Len(s), NEW j \in 1..Len(s), t[i].order = t[j].order
      PROVE  i = j
  <2>1. CASE Same(t[i], s[i]) /\ Same(t[j], s[j])
    BY <1>0, <1>2, <2>1 DEF Taken, Apart
  <2>2. CASE ~Same(t[i], s[i]) /\ Same(t[j], s[j])
    BY <1>0, <1>1, <1>2, <2>2 DEF Taken
  <2>3. CASE Same(t[i], s[i]) /\ ~Same(t[j], s[j])
    BY <1>0, <1>1, <1>2, <2>3 DEF Taken
  <2>4. CASE ~Same(t[i], s[i]) /\ ~Same(t[j], s[j])
    BY <2>4
  <2> QED BY <2>1, <2>2, <2>3, <2>4
<1>3. Apart(t)
  BY <1>2 DEF Apart
<1> QED BY <1>3 DEF Moved

(* A list some rows of which are dropped.                                  *)
LEMMA FilterMoves ==
  ASSUME NEW S, NEW s \in Seq(S), NEW kept \in SUBSET (1..Len(s)), NEW v \in Views,
         Taken(s, v)
  PROVE  Taken(Filtered(s, kept), v) /\ \A k \in 1..Len(Filtered(s, kept)) :
                                          \E j \in 1..Len(s) : Filtered(s, kept)[k] = s[j]
<1> DEFINE t == Filtered(s, kept)
<1>1. PICK f \in [1..Len(t) -> kept] :
        /\ \A k \in 1..Len(t) : t[k] = s[f[k]]
        /\ \A k, l \in 1..Len(t) : f[k] = f[l] => k = l
  BY FilteredIs
<1> HIDE DEF t
<1>2. \A k \in 1..Len(t) : f[k] \in 1..Len(s)
  BY <1>1
<1>3. Apart(t)
  BY <1>1, <1>2 DEF Apart, Taken
<1>4. Taken(t, v)
  BY <1>1, <1>2, <1>3 DEF Taken
<1> QED BY <1>1, <1>2, <1>4 DEF t

(* A list that is compacted has rows with the same stamps.                 *)
LEMMA CompactMoves ==
  ASSUME NEW t, NEW u, NEW s, NEW v, NEW e, NEW places \in BOOLEAN, Len(t) \in Nat, Len(u) \in Nat,
         Moved(u, s, v, e, places),
         NEW d \in Nat, Len(u) = Len(t) + d,
         \A i \in 1..Len(t) : Same(t[i], u[i + d])
  PROVE  Moved(t, s, v, e, places)
<1>1. \A i \in 1..Len(t) : i + d \in 1..Len(u)
  OBVIOUS
<1>2. \A i, j \in 1..Len(t) : i + d = j + d => i = j
  OBVIOUS
<1>3. Apart(t)
  BY <1>1, <1>2 DEF Apart, Moved, Same
<1>4. ASSUME NEW i \in 1..Len(t)
      PROVE  (\E j \in 1..Len(s) : Same(t[i], s[j])) \/ (places /\ Fresh(t[i], v, e))
  <2> DEFINE a == t[i]
             b == u[i + d]
  <2>1. Same(a, b) /\ i + d \in 1..Len(u)
    BY <1>1
  <2>2. (\E j \in 1..Len(s) : Same(b, s[j])) \/ (places /\ Fresh(b, v, e))
    <3>1. \A k \in 1..Len(u) : (\E j \in 1..Len(s) : Same(u[k], s[j])) \/ (places /\ Fresh(u[k], v, e))
      BY DEF Moved
    <3> QED BY <2>1, <3>1
  <2> HIDE DEF a, b
  <2>3. (\E j \in 1..Len(s) : Same(a, s[j])) \/ (places /\ Fresh(a, v, e))
    <3>1. \A j : Same(b, s[j]) => Same(a, s[j])
      BY <2>1 DEF Same
    <3>2. Fresh(b, v, e) => Fresh(a, v, e)
      BY <2>1 DEF Same, Fresh
    <3> QED BY <2>2, <3>1, <3>2
  <2> QED BY <2>3 DEF a
<1> QED BY <1>3, <1>4 DEF Moved

IdsApart(v) == \A i, j \in 1..Len(v.messages) : v.messages[i].id = v.messages[j].id => i = j

Placing(e, l) ==
  \/ l = "messages" /\ e.kind \in {"user", "error", "stage", "delta"}
  \/ l = "tools" /\ e.kind = "start"
  \/ l = "notes" /\ e.kind = "note"

(* An event moves the messages.                                            *)
LEMMA MessagesReduced ==
  ASSUME NEW v \in Views, NEW e \in Events
  PROVE  ReducedEvent(v, e).messages \in Seq(MessageRows)
<1> DEFINE p == ReducedEvent(v, e).messages
<1>1. /\ v.messages \in Seq(MessageRows) /\ e.n \in Nat /\ MessageId(e) \in Nat
      /\ <<>> \in Seq(Nat) /\ <<e.n>> \in Seq(Nat)
  BY DEF Views, Events, MessageId
<1>2. CASE e.kind \in {"user", "error"}
  <2>1. NewMessage(v, e, e.kind, e.n, <<>>, FALSE) \in MessageRows
    BY <1>1, <1>2, NewMessageIs
  <2>2. p = Append(v.messages, NewMessage(v, e, e.kind, e.n, <<>>, FALSE))
    BY <1>2, ReducedMessages
  <2> QED BY <1>1, <2>1, <2>2, AppendProperties
<1>3. CASE e.kind = "stage"
  <2>1. NewMessage(v, e, "assistant", MessageId(e), <<>>, TRUE) \in MessageRows
    BY <1>1, NewMessageIs
  <2>2. Append(v.messages, NewMessage(v, e, "assistant", MessageId(e), <<>>, TRUE)) \in Seq(MessageRows)
    BY <1>1, <2>1, AppendProperties
  <2> QED BY <1>1, <1>3, <2>2, ReducedMessages
<1>4. CASE e.kind = "delta" /\ ~Shown(v, MessageId(e))
  <2>1. NewMessage(v, e, "assistant", MessageId(e), <<e.n>>, TRUE) \in MessageRows
    BY <1>1, NewMessageIs
  <2>2. p = Append(v.messages, NewMessage(v, e, "assistant", MessageId(e), <<e.n>>, TRUE))
    BY <1>4, ReducedMessages
  <2> QED BY <1>1, <2>1, <2>2, AppendProperties
<1>5. CASE e.kind = "delta" /\ Shown(v, MessageId(e))
  <2>1. ASSUME NEW m \in MessageRows
        PROVE  NewMessage(v, e, m.role, MessageId(e), Append(m.text, e.n), TRUE) \in MessageRows
    <3>1. m.role \in {"user", "assistant", "error"} /\ m.text \in Seq(Nat)
      BY DEF MessageRows
    <3>2. Append(m.text, e.n) \in Seq(Nat)
      BY <1>1, <3>1, AppendProperties
    <3> QED BY <1>1, <3>1, <3>2, NewMessageIs
  <2>2. p = [i \in DOMAIN v.messages |->
               IF v.messages[i].id = MessageId(e)
                 THEN NewMessage(v, e, v.messages[i].role, MessageId(e),
                                 Append(v.messages[i].text, e.n), TRUE)
                 ELSE v.messages[i]]
    BY <1>5, ReducedMessages
  <2>3. \A i \in DOMAIN v.messages : v.messages[i] \in MessageRows
    BY <1>1
  <2>4. p \in [1..Len(v.messages) -> MessageRows] /\ Len(v.messages) \in Nat
    <3>1. DOMAIN v.messages = 1..Len(v.messages) /\ Len(v.messages) \in Nat
      BY <1>1, LenProperties
    <3> HIDE DEF p
    <3> QED BY <2>1, <2>2, <2>3, <3>1
  <2> HIDE DEF p
  <2>5. p \in Seq(MessageRows)
    BY <2>4, SequenceOf
  <2> QED BY <2>5 DEF p
<1>6. CASE e.kind = "done"
  <2>1. ASSUME NEW m \in MessageRows
        PROVE  [m EXCEPT !.streaming = FALSE] \in MessageRows
    BY DEF MessageRows
  <2>2. p = [i \in DOMAIN v.messages |->
               IF v.messages[i].id = MessageId(e)
                 THEN [v.messages[i] EXCEPT !.streaming = FALSE]
                 ELSE v.messages[i]]
    BY <1>6, ReducedMessages
  <2>3. \A i \in DOMAIN v.messages : v.messages[i] \in MessageRows
    BY <1>1
  <2>4. p \in [1..Len(v.messages) -> MessageRows] /\ Len(v.messages) \in Nat
    <3>1. DOMAIN v.messages = 1..Len(v.messages) /\ Len(v.messages) \in Nat
      BY <1>1, LenProperties
    <3> HIDE DEF p
    <3> QED BY <2>1, <2>2, <2>3, <3>1
  <2> HIDE DEF p
  <2>5. p \in Seq(MessageRows)
    BY <2>4, SequenceOf
  <2> QED BY <2>5 DEF p
<1>7. CASE e.kind \in {"clear", "start", "ok", "failed", "stream", "note"}
  <2>1. p = v.messages \/ p = <<>>
    BY <1>7, ReducedMessages
  <2>2. <<>> \in Seq(MessageRows)
    BY EmptySeq
  <2> HIDE DEF p
  <2>3. p \in Seq(MessageRows)
    BY <1>1, <2>1, <2>2
  <2> QED BY <2>3 DEF p
<1>8. e.kind \in Kinds \cup {"clear"}
  BY DEF Events
<1> QED BY <1>2, <1>3, <1>4, <1>5, <1>6, <1>7, <1>8 DEF Kinds

(* An event moves the tools.                                               *)
LEMMA ToolsReduced ==
  ASSUME NEW v \in Views, NEW e \in Events
  PROVE  ReducedEvent(v, e).tools \in Seq(ToolRows)
<1> DEFINE p == ReducedEvent(v, e).tools
<1>1. v.tools \in Seq(ToolRows) /\ e.n \in Nat
  BY DEF Views, Events
<1>2. \A i \in DOMAIN v.tools : v.tools[i] \in ToolRows
  BY <1>1
<1>3. CASE e.kind = "start"
  <2>1. NewTool(v, e) \in ToolRows
    BY DEF NewTool, ToolRows, Views, Events
  <2>2. Filtered(v.tools, {i \in DOMAIN v.tools : v.tools[i].id # e.call}) \in Seq(ToolRows)
    BY <1>1, FilteredIs
  <2>3. p = Append(Filtered(v.tools, {i \in DOMAIN v.tools : v.tools[i].id # e.call}), NewTool(v, e))
    BY <1>3, ReducedTools
  <2> QED BY <2>1, <2>2, <2>3, AppendProperties
<1>4. CASE e.kind \in {"ok", "failed"}
  <2>1. ASSUME NEW t \in ToolRows
        PROVE  [t EXCEPT !.status = IF e.kind = "ok" THEN "success" ELSE "error"] \in ToolRows
    BY DEF ToolRows
  <2>2. p = [i \in DOMAIN v.tools |->
               IF v.tools[i].id = e.call
                 THEN [v.tools[i] EXCEPT !.status = IF e.kind = "ok" THEN "success" ELSE "error"]
                 ELSE v.tools[i]]
    BY <1>4, ReducedTools
  <2>3. p \in [1..Len(v.tools) -> ToolRows] /\ Len(v.tools) \in Nat
    BY <1>1, <1>2, <2>1, <2>2
  <2> HIDE DEF p
  <2>4. p \in Seq(ToolRows)
    BY <2>3, SequenceOf
  <2> QED BY <2>4 DEF p
<1>5. CASE e.kind = "stream"
  <2>1. ASSUME NEW t \in ToolRows
        PROVE  [t EXCEPT !.streams = Append(@, e.n)] \in ToolRows
    <3>1. Append(t.streams, e.n) \in Seq(Nat)
      BY <1>1, AppendProperties DEF ToolRows
    <3> QED BY <3>1 DEF ToolRows
  <2>2. p = [i \in DOMAIN v.tools |->
               IF v.tools[i].id = e.call
                 THEN [v.tools[i] EXCEPT !.streams = Append(@, e.n)]
                 ELSE v.tools[i]]
    BY <1>5, ReducedTools
  <2>3. p \in [1..Len(v.tools) -> ToolRows] /\ Len(v.tools) \in Nat
    BY <1>1, <1>2, <2>1, <2>2
  <2> HIDE DEF p
  <2>4. p \in Seq(ToolRows)
    BY <2>3, SequenceOf
  <2> QED BY <2>4 DEF p
<1>6. CASE e.kind \in {"clear", "user", "error", "stage", "delta", "done", "note"}
  <2>1. p = v.tools \/ p = <<>>
    BY <1>6, ReducedTools
  <2>2. <<>> \in Seq(ToolRows)
    BY EmptySeq
  <2> HIDE DEF p
  <2>3. p \in Seq(ToolRows)
    BY <1>1, <2>1, <2>2
  <2> QED BY <2>3 DEF p
<1>7. e.kind \in Kinds \cup {"clear"}
  BY DEF Events
<1> QED BY <1>3, <1>4, <1>5, <1>6, <1>7 DEF Kinds

(* An event moves the notes.                                               *)
LEMMA NotesReduced ==
  ASSUME NEW v \in Views, NEW e \in Events
  PROVE  ReducedEvent(v, e).notes \in Seq(NoteRows)
<1>1. v.notes \in Seq(NoteRows) /\ NewNote(v, e) \in NoteRows
  BY DEF NewNote, NoteRows, Views, Events
<1>2. <<>> \in Seq(NoteRows) /\ Append(v.notes, NewNote(v, e)) \in Seq(NoteRows)
  BY <1>1, EmptySeq, AppendProperties
<1> QED BY <1>1, <1>2, ReducedNotes

(* An event is counted, unless it clears the view.                         *)
LEMMA CountReduced ==
  ASSUME NEW v \in Views, NEW e \in Events
  PROVE  ReducedEvent(v, e).eventCount = v.eventCount
<1>0. v = [messages |-> v.messages, tools |-> v.tools, notes |-> v.notes, eventCount |-> v.eventCount]
  BY DEF Views
<1>1. e.kind \in Kinds \cup {"clear"}
  BY DEF Events
<1> QED BY <1>0, <1>1 DEF ReducedEvent, AssistantStage, AssistantDelta, AssistantDone, ToolStart, ToolEnd,
                          ToolStream, Cleared, Kinds

(* The view after an event, before its lists are compacted: each list is   *)
(* moved.                                                                  *)
LEMMA ReducedIs ==
  ASSUME NEW v \in Views, NEW e \in Events
  PROVE  ReducedEvent(v, e) \in Views
<1> DEFINE p == ReducedEvent(v, e)
<1>0. v = [messages |-> v.messages, tools |-> v.tools, notes |-> v.notes, eventCount |-> v.eventCount]
  BY DEF Views
<1>1. e.kind \in Kinds \cup {"clear"}
  BY DEF Events
<1>2. p = [messages |-> p.messages, tools |-> p.tools, notes |-> p.notes, eventCount |-> p.eventCount]
  BY <1>0, <1>1 DEF ReducedEvent, AssistantStage, AssistantDelta, AssistantDone, ToolStart, ToolEnd,
                     ToolStream, Cleared, Kinds
<1>3. /\ p.messages \in Seq(MessageRows) /\ p.tools \in Seq(ToolRows) /\ p.notes \in Seq(NoteRows)
      /\ p.eventCount \in Nat
  BY MessagesReduced, ToolsReduced, NotesReduced, CountReduced DEF Views
<1> HIDE DEF p
<1>4. p \in Views
  BY <1>2, <1>3 DEF Views
<1> QED BY <1>4 DEF p

(***************************************************************************)
(* Compaction.                                                             *)
(***************************************************************************)

(* A text cut short is a text, of at most the marker more than its bound.  *)
LEMMA TruncateIs ==
  ASSUME NEW text \in Seq(Nat)
  PROVE  /\ TruncateText(text) \in Seq(Nat)
         /\ Len(text) <= MaxText => TruncateText(text) = text
         /\ Len(text) > MaxText =>
              /\ Len(TruncateText(text)) = MaxText + 1
              /\ TruncateText(text)[MaxText + 1] = Marker
              /\ \A i \in 1..MaxText : TruncateText(text)[i] = text[i]
<1>1. MaxText \in Nat /\ Len(text) \in Nat /\ Marker \in Nat
  BY ViewAssumption, LenProperties DEF Marker
<1>2. CASE Len(text) <= MaxText
  BY <1>1, <1>2 DEF TruncateText
<1>3. CASE Len(text) > MaxText
  <2> DEFINE head == SubSeq(text, 1, MaxText)
  <2>1. \A i \in 1..MaxText : text[i] \in Nat
    BY <1>1, <1>3, ElementOfSeq
  <2>2. head \in Seq(Nat) /\ Len(head) = MaxText /\ \A i \in 1..MaxText : head[i] = text[i]
    BY <1>1, <1>3, <2>1, SubSeqProperties
  <2>3. TruncateText(text) = Append(head, Marker)
    BY <1>1, <1>3 DEF TruncateText
  <2> HIDE DEF head
  <2>4. /\ Append(head, Marker) \in Seq(Nat) /\ Len(Append(head, Marker)) = MaxText + 1
        /\ Append(head, Marker)[MaxText + 1] = Marker
        /\ \A i \in 1..MaxText : Append(head, Marker)[i] = head[i]
    BY <1>1, <2>2, AppendProperties
  <2> QED BY <1>1, <1>3, <2>2, <2>3, <2>4
<1> QED BY <1>1, <1>2, <1>3

(* compactCliState keeps the latest rows of each list in their places, and *)
(* shortens their texts and streams.                                       *)
LEMMA CompactIs ==
  ASSUME NEW v \in Views
  PROVE  /\ Compact(v) \in Views
         /\ Compact(v).eventCount = v.eventCount
         /\ \E d \in Nat :
              /\ d = 0 <=> Len(v.messages) <= MaxRows
              /\ Len(v.messages) = Len(Compact(v).messages) + d
              /\ Len(Compact(v).messages) <= MaxRows
              /\ \A i \in 1..Len(Compact(v).messages) :
                   Compact(v).messages[i] = [v.messages[i + d] EXCEPT !.text = TruncateText(@)]
         /\ \E d \in Nat :
              /\ d = 0 <=> Len(v.tools) <= MaxRows
              /\ Len(v.tools) = Len(Compact(v).tools) + d
              /\ Len(Compact(v).tools) <= MaxRows
              /\ \A i \in 1..Len(Compact(v).tools) :
                   Compact(v).tools[i] = [v.tools[i + d] EXCEPT !.streams = Latest(@, MaxText)]
         /\ \E d \in Nat :
              /\ d = 0 <=> Len(v.notes) <= MaxRows
              /\ Len(v.notes) = Len(Compact(v).notes) + d
              /\ Len(Compact(v).notes) <= MaxRows
              /\ \A i \in 1..Len(Compact(v).notes) : Compact(v).notes[i] = v.notes[i + d]
<1> DEFINE c == Compact(v)
           messages == Latest(v.messages, MaxRows)
           tools == Latest(v.tools, MaxRows)
           notes == Latest(v.notes, MaxRows)
<1>1. /\ v.messages \in Seq(MessageRows) /\ v.tools \in Seq(ToolRows) /\ v.notes \in Seq(NoteRows)
      /\ v.eventCount \in Nat /\ MaxRows \in Nat
  BY ViewAssumption DEF Views
<1>2. v = [messages |-> v.messages, tools |-> v.tools, notes |-> v.notes, eventCount |-> v.eventCount]
  BY DEF Views
<1>3. c = [messages |-> [i \in DOMAIN messages |-> [messages[i] EXCEPT !.text = TruncateText(@)]],
           tools |-> [i \in DOMAIN tools |-> [tools[i] EXCEPT !.streams = Latest(@, MaxText)]],
           notes |-> notes, eventCount |-> v.eventCount]
  <2>1. c = [f \in DOMAIN v |->
               IF f = "messages" THEN [i \in DOMAIN messages |-> [messages[i] EXCEPT !.text = TruncateText(@)]]
               ELSE IF f = "tools" THEN [i \in DOMAIN tools |-> [tools[i] EXCEPT !.streams = Latest(@, MaxText)]]
               ELSE IF f = "notes" THEN notes ELSE v[f]]
    BY Zenon DEF Compact
  <2> HIDE DEF c, messages, tools, notes
  <2> QED BY <1>2, <2>1
<1>4. PICK d \in Nat :
        /\ d = IF Len(v.messages) > MaxRows THEN Len(v.messages) - MaxRows ELSE 0
        /\ Len(v.messages) = Len(messages) + d
        /\ \A i \in 1..Len(messages) : messages[i] = v.messages[i + d]
  BY <1>1, LatestIs
<1>5. PICK f \in Nat :
        /\ f = IF Len(v.tools) > MaxRows THEN Len(v.tools) - MaxRows ELSE 0
        /\ Len(v.tools) = Len(tools) + f
        /\ \A i \in 1..Len(tools) : tools[i] = v.tools[i + f]
  BY <1>1, LatestIs
<1>6. PICK g \in Nat :
        /\ g = IF Len(v.notes) > MaxRows THEN Len(v.notes) - MaxRows ELSE 0
        /\ Len(v.notes) = Len(notes) + g
        /\ \A i \in 1..Len(notes) : notes[i] = v.notes[i + g]
  BY <1>1, LatestIs
<1>7. /\ messages \in Seq(MessageRows) /\ Len(messages) <= MaxRows
      /\ tools \in Seq(ToolRows) /\ Len(tools) <= MaxRows
      /\ notes \in Seq(NoteRows) /\ Len(notes) <= MaxRows
  BY <1>1, LatestIs
<1>8. /\ Len(messages) \in Nat /\ DOMAIN messages = 1..Len(messages)
      /\ Len(tools) \in Nat /\ DOMAIN tools = 1..Len(tools)
      /\ Len(notes) \in Nat /\ DOMAIN notes = 1..Len(notes)
      /\ Len(v.messages) \in Nat /\ Len(v.tools) \in Nat /\ Len(v.notes) \in Nat
  BY <1>1, <1>7, LenProperties
<1> HIDE DEF c, messages, tools, notes
<1>9. c.messages \in Seq(MessageRows) /\ Len(c.messages) = Len(messages)
  <2>1. ASSUME NEW m \in MessageRows PROVE [m EXCEPT !.text = TruncateText(@)] \in MessageRows
    <3>1. TruncateText(m.text) \in Seq(Nat)
      BY TruncateIs DEF MessageRows
    <3> QED BY <3>1 DEF MessageRows
  <2>2. \A i \in 1..Len(messages) : messages[i] \in MessageRows
    BY <1>7
  <2>3. c.messages \in [1..Len(messages) -> MessageRows]
    BY <1>3, <1>8, <2>1, <2>2
  <2> QED BY <1>8, <2>3, SequenceOf
<1>10. c.tools \in Seq(ToolRows) /\ Len(c.tools) = Len(tools)
  <2>1. ASSUME NEW t \in ToolRows PROVE [t EXCEPT !.streams = Latest(@, MaxText)] \in ToolRows
    <3>1. Latest(t.streams, MaxText) \in Seq(Nat)
      BY LatestIs, ViewAssumption DEF ToolRows
    <3> QED BY <3>1 DEF ToolRows
  <2>2. \A i \in 1..Len(tools) : tools[i] \in ToolRows
    BY <1>7
  <2>3. c.tools \in [1..Len(tools) -> ToolRows]
    BY <1>3, <1>8, <2>1, <2>2
  <2> QED BY <1>8, <2>3, SequenceOf
<1>11. c.notes = notes /\ c.eventCount = v.eventCount
  BY <1>3
<1>12. c \in Views
  BY <1>1, <1>3, <1>7, <1>9, <1>10, <1>11 DEF Views
<1>13. /\ d = 0 <=> Len(v.messages) <= MaxRows
       /\ f = 0 <=> Len(v.tools) <= MaxRows
       /\ g = 0 <=> Len(v.notes) <= MaxRows
  <2>1. d = 0 <=> Len(v.messages) <= MaxRows
    <3> DEFINE len == Len(v.messages)
    <3>1. len \in Nat /\ d = IF len > MaxRows THEN len - MaxRows ELSE 0
      BY <1>4, <1>5, <1>6, <1>8
    <3> HIDE DEF len
    <3>2. d = 0 <=> len <= MaxRows
      BY <1>1, <3>1
    <3> QED BY <3>2 DEF len
  <2>2. f = 0 <=> Len(v.tools) <= MaxRows
    <3> DEFINE len == Len(v.tools)
    <3>1. len \in Nat /\ f = IF len > MaxRows THEN len - MaxRows ELSE 0
      BY <1>4, <1>5, <1>6, <1>8
    <3> HIDE DEF len
    <3>2. f = 0 <=> len <= MaxRows
      BY <1>1, <3>1
    <3> QED BY <3>2 DEF len
  <2>3. g = 0 <=> Len(v.notes) <= MaxRows
    <3> DEFINE len == Len(v.notes)
    <3>1. len \in Nat /\ g = IF len > MaxRows THEN len - MaxRows ELSE 0
      BY <1>4, <1>5, <1>6, <1>8
    <3> HIDE DEF len
    <3>2. g = 0 <=> len <= MaxRows
      BY <1>1, <3>1
    <3> QED BY <3>2 DEF len
  <2> QED BY <2>1, <2>2, <2>3
<1>14. /\ Len(v.messages) = Len(c.messages) + d
       /\ Len(c.messages) <= MaxRows
       /\ \A i \in 1..Len(c.messages) : c.messages[i] = [v.messages[i + d] EXCEPT !.text = TruncateText(@)]
  BY <1>3, <1>4, <1>7, <1>8, <1>9
<1>15. /\ Len(v.tools) = Len(c.tools) + f
       /\ Len(c.tools) <= MaxRows
       /\ \A i \in 1..Len(c.tools) : c.tools[i] = [v.tools[i + f] EXCEPT !.streams = Latest(@, MaxText)]
  BY <1>3, <1>5, <1>7, <1>8, <1>10
<1>16. /\ Len(v.notes) = Len(c.notes) + g
       /\ Len(c.notes) <= MaxRows
       /\ \A i \in 1..Len(c.notes) : c.notes[i] = v.notes[i + g]
  BY <1>6, <1>7, <1>11
<1>17. /\ c \in Views
       /\ c.eventCount = v.eventCount
       /\ \E d1 \in Nat :
            /\ d1 = 0 <=> Len(v.messages) <= MaxRows
            /\ Len(v.messages) = Len(c.messages) + d1
            /\ Len(c.messages) <= MaxRows
            /\ \A i \in 1..Len(c.messages) :
                 c.messages[i] = [v.messages[i + d1] EXCEPT !.text = TruncateText(@)]
  BY <1>11, <1>12, <1>13, <1>14
<1>18. \E d1 \in Nat :
            /\ d1 = 0 <=> Len(v.tools) <= MaxRows
            /\ Len(v.tools) = Len(c.tools) + d1
            /\ Len(c.tools) <= MaxRows
            /\ \A i \in 1..Len(c.tools) :
                 c.tools[i] = [v.tools[i + d1] EXCEPT !.streams = Latest(@, MaxText)]
  BY <1>13, <1>15
<1>19. \E d1 \in Nat :
            /\ d1 = 0 <=> Len(v.notes) <= MaxRows
            /\ Len(v.notes) = Len(c.notes) + d1
            /\ Len(c.notes) <= MaxRows
            /\ \A i \in 1..Len(c.notes) : c.notes[i] = v.notes[i + d1]
  BY <1>13, <1>16
<1> QED BY <1>17, <1>18, <1>19 DEF c

(* An event reduced: the lists of ReducedEvent, compacted.                 *)
LEMMA ReduceIs ==
  ASSUME NEW v \in Views, NEW e \in Events
  PROVE  LET p == ReducedEvent(v, e)
             r == Reduce(v, e)
         IN
         /\ r \in Views
         /\ r.eventCount = v.eventCount + 1
         /\ \E d \in Nat :
              /\ d = 0 <=> Len(p.messages) <= MaxRows
              /\ Len(p.messages) = Len(r.messages) + d
              /\ Len(r.messages) <= MaxRows
              /\ \A i \in 1..Len(r.messages) :
                   r.messages[i] = [p.messages[i + d] EXCEPT !.text = TruncateText(@)]
         /\ \E d \in Nat :
              /\ d = 0 <=> Len(p.tools) <= MaxRows
              /\ Len(p.tools) = Len(r.tools) + d
              /\ Len(r.tools) <= MaxRows
              /\ \A i \in 1..Len(r.tools) :
                   r.tools[i] = [p.tools[i + d] EXCEPT !.streams = Latest(@, MaxText)]
         /\ \E d \in Nat :
              /\ d = 0 <=> Len(p.notes) <= MaxRows
              /\ Len(p.notes) = Len(r.notes) + d
              /\ Len(r.notes) <= MaxRows
              /\ \A i \in 1..Len(r.notes) : r.notes[i] = p.notes[i + d]
<1> DEFINE p == ReducedEvent(v, e)
           q == [p EXCEPT !.eventCount = @ + 1]
           r == Reduce(v, e)
<1>1. p \in Views /\ p.eventCount = v.eventCount
  BY ReducedIs, CountReduced
<1>2. r = Compact(q)
  BY Zenon DEF Reduce
<1> HIDE DEF p, r
<1>3. /\ q \in Views /\ q.eventCount = v.eventCount + 1
      /\ q.messages = p.messages /\ q.tools = p.tools /\ q.notes = p.notes
  <2>0. p.eventCount + 1 \in Nat
    BY <1>1 DEF Views
  <2>1. q \in Views
    BY <1>1, <2>0 DEF Views
  <2>2. q.eventCount = v.eventCount + 1 /\ q.messages = p.messages /\ q.tools = p.tools /\ q.notes = p.notes
    BY <1>1 DEF Views
  <2> QED BY <2>1, <2>2
<1> HIDE DEF q
<1>4. r \in Views /\ r.eventCount = v.eventCount + 1
  BY <1>2, <1>3, CompactIs
<1>5. \E d \in Nat :
        /\ d = 0 <=> Len(q.messages) <= MaxRows
        /\ Len(q.messages) = Len(r.messages) + d
        /\ Len(r.messages) <= MaxRows
        /\ \A i \in 1..Len(r.messages) :
             r.messages[i] = [q.messages[i + d] EXCEPT !.text = TruncateText(@)]
  BY <1>2, <1>3, CompactIs, Zenon
<1>6. \E d \in Nat :
        /\ d = 0 <=> Len(q.tools) <= MaxRows
        /\ Len(q.tools) = Len(r.tools) + d
        /\ Len(r.tools) <= MaxRows
        /\ \A i \in 1..Len(r.tools) :
             r.tools[i] = [q.tools[i + d] EXCEPT !.streams = Latest(@, MaxText)]
  BY <1>2, <1>3, CompactIs, Zenon
<1>7. \E d \in Nat :
        /\ d = 0 <=> Len(q.notes) <= MaxRows
        /\ Len(q.notes) = Len(r.notes) + d
        /\ Len(r.notes) <= MaxRows
        /\ \A i \in 1..Len(r.notes) : r.notes[i] = q.notes[i + d]
  BY <1>2, <1>3, CompactIs, Zenon
<1>8. \E d \in Nat :
        /\ d = 0 <=> Len(p.messages) <= MaxRows
        /\ Len(p.messages) = Len(r.messages) + d
        /\ Len(r.messages) <= MaxRows
        /\ \A i \in 1..Len(r.messages) :
             r.messages[i] = [p.messages[i + d] EXCEPT !.text = TruncateText(@)]
  BY <1>3, <1>5, Zenon
<1>9. \E d \in Nat :
        /\ d = 0 <=> Len(p.tools) <= MaxRows
        /\ Len(p.tools) = Len(r.tools) + d
        /\ Len(r.tools) <= MaxRows
        /\ \A i \in 1..Len(r.tools) :
             r.tools[i] = [p.tools[i + d] EXCEPT !.streams = Latest(@, MaxText)]
  BY <1>3, <1>6, Zenon
<1>10. \E d \in Nat :
        /\ d = 0 <=> Len(p.notes) <= MaxRows
        /\ Len(p.notes) = Len(r.notes) + d
        /\ Len(r.notes) <= MaxRows
        /\ \A i \in 1..Len(r.notes) : r.notes[i] = p.notes[i + d]
  BY <1>3, <1>7, Zenon
<1> QED BY <1>4, <1>8, <1>9, <1>10, Zenon DEF p, r

(* A list whose rows are changed in place, but not placed.                 *)
LEMMA Unmoved ==
  ASSUME NEW S, NEW s \in Seq(S), NEW t, Len(t) = Len(s), NEW v \in Views, NEW e, NEW places \in BOOLEAN,
         Taken(s, v), \A i \in 1..Len(s) : Same(t[i], s[i])
  PROVE  Moved(t, s, v, e, places)
BY ChangeMoves

(* The rows of an empty list are moved, there being none.                  *)
LEMMA EmptyMoves ==
  ASSUME NEW s, NEW v, NEW e, NEW places
  PROVE  Moved(<<>>, s, v, e, places)
<1>1. Len(<<>>) = 0 /\ 1..0 = {}
  OBVIOUS
<1> QED BY <1>1 DEF Moved, Apart

(* What reduceCliState does to the messages, by the kind of the event.     *)
LEMMA MessagesMoved ==
  ASSUME NEW v \in Views, NEW e \in Events, Taken(v.messages, v), IdsApart(v)
  PROVE  Moved(ReducedEvent(v, e).messages, v.messages, v, e, Placing(e, "messages"))
<1> DEFINE p == ReducedEvent(v, e).messages
           s == v.messages
<1>1. /\ s \in Seq(MessageRows) /\ e.n \in Nat /\ MessageId(e) \in Nat
      /\ <<>> \in Seq(Nat) /\ <<e.n>> \in Seq(Nat)
      /\ Len(s) \in Nat /\ DOMAIN s = 1..Len(s)
      /\ \A i \in 1..Len(s) : s[i] \in MessageRows
  BY LenProperties DEF Views, Events, MessageId
<1>2. CASE e.kind \in {"user", "error"}
  <2> DEFINE row == NewMessage(v, e, e.kind, e.n, <<>>, FALSE)
  <2>1. row \in MessageRows /\ Fresh(row, v, e)
    BY <1>1, <1>2, NewMessageIs
  <2>2. p = Append(s, row) /\ Placing(e, "messages") = TRUE
    BY <1>2, ReducedMessages DEF Placing
  <2> HIDE DEF row, p, s
  <2>3. Moved(p, s, v, e, TRUE)
    BY <1>1, <2>1, <2>2, AppendMoves DEF s
  <2> QED BY <2>2, <2>3 DEF p, s
<1>3. CASE e.kind = "stage"
  <2> DEFINE row == NewMessage(v, e, "assistant", MessageId(e), <<>>, TRUE)
  <2>1. row \in MessageRows /\ Fresh(row, v, e)
    BY <1>1, NewMessageIs
  <2>2. (p = s \/ p = Append(s, row)) /\ Placing(e, "messages") = TRUE
    BY <1>3, ReducedMessages DEF Placing
  <2>3. Taken(s, v)
    OBVIOUS
  <2> HIDE DEF row, p, s
  <2>4. CASE p = s
    <3>1. \A i \in 1..Len(s) : Same(p[i], s[i])
      BY <2>4 DEF Same
    <3>2. Len(p) = Len(s)
      BY <2>4
    <3>3. Moved(p, s, v, e, TRUE)
      BY <1>1, <2>3, <3>1, <3>2, Unmoved
    <3> QED BY <2>2, <3>3 DEF p, s
  <2>5. CASE p = Append(s, row)
    <3>1. Moved(p, s, v, e, TRUE)
      BY <1>1, <2>1, <2>3, <2>5, AppendMoves
    <3> QED BY <2>2, <3>1 DEF p, s
  <2> QED BY <2>2, <2>4, <2>5
<1>4. CASE e.kind = "delta" /\ ~Shown(v, MessageId(e))
  <2> DEFINE row == NewMessage(v, e, "assistant", MessageId(e), <<e.n>>, TRUE)
  <2>1. row \in MessageRows /\ Fresh(row, v, e)
    BY <1>1, NewMessageIs
  <2>2. p = Append(s, row) /\ Placing(e, "messages") = TRUE
    BY <1>4, ReducedMessages DEF Placing
  <2>3. Taken(s, v)
    OBVIOUS
  <2> HIDE DEF row, p, s
  <2>4. Moved(p, s, v, e, TRUE)
    BY <1>1, <2>1, <2>2, <2>3, AppendMoves
  <2> QED BY <2>2, <2>4 DEF p, s
<1>5. CASE e.kind = "delta" /\ Shown(v, MessageId(e))
  <2>1. p = [i \in DOMAIN s |->
               IF s[i].id = MessageId(e)
                 THEN NewMessage(v, e, s[i].role, MessageId(e), Append(s[i].text, e.n), TRUE)
                 ELSE s[i]]
    BY <1>5, ReducedMessages
  <2>2. p \in Seq(MessageRows) /\ Taken(s, v) /\ \A i, j \in 1..Len(s) : s[i].id = s[j].id => i = j
    BY MessagesReduced DEF IdsApart
  <2>3. Placing(e, "messages") = TRUE
    BY <1>5 DEF Placing
  <2> HIDE DEF p, s
  <2>4. Len(p) = Len(s)
    BY <1>1, <2>1, <2>2
  <2>5. \A i \in 1..Len(s) : IF s[i].id = MessageId(e) THEN Fresh(p[i], v, e) ELSE Same(p[i], s[i])
    BY <1>1, <2>1 DEF NewMessage, Fresh, Same
  <2>6. \A i \in 1..Len(s) : Same(p[i], s[i]) \/ (TRUE /\ Fresh(p[i], v, e))
    BY <2>5
  <2>7. \A i, j \in 1..Len(s) : ~Same(p[i], s[i]) /\ ~Same(p[j], s[j]) => i = j
    BY <2>2, <2>5
  <2>8. Moved(p, s, v, e, TRUE)
    BY <1>1, <2>2, <2>4, <2>6, <2>7, ChangeMoves
  <2> QED BY <2>3, <2>8 DEF p, s
<1>6. CASE e.kind = "done"
  <2>1. p = [i \in DOMAIN s |-> IF s[i].id = MessageId(e) THEN [s[i] EXCEPT !.streaming = FALSE] ELSE s[i]]
    BY <1>6, ReducedMessages
  <2>2. p \in Seq(MessageRows) /\ Taken(s, v) /\ Placing(e, "messages") = FALSE
    BY <1>6, MessagesReduced DEF Placing
  <2> HIDE DEF p, s
  <2>3. Len(p) = Len(s)
    BY <1>1, <2>1, <2>2
  <2>4. \A m \in MessageRows : Same([m EXCEPT !.streaming = FALSE], m) /\ Same(m, m)
    BY DEF Same, MessageRows
  <2>5. \A i \in 1..Len(s) : Same(p[i], s[i])
    BY <1>1, <2>1, <2>4
  <2>6. Moved(p, s, v, e, FALSE)
    BY <1>1, <2>2, <2>3, <2>5, Unmoved
  <2> QED BY <2>2, <2>6 DEF p, s
<1>7. CASE e.kind = "clear"
  <2>1. p = <<>>
    BY <1>7, ReducedMessages
  <2> QED BY <2>1, EmptyMoves
<1>8. CASE e.kind \in {"start", "ok", "failed", "stream", "note"}
  <2>1. p = s /\ Taken(s, v) /\ Placing(e, "messages") = FALSE
    BY <1>8, ReducedMessages DEF Placing
  <2> HIDE DEF p, s
  <2>2. Len(p) = Len(s) /\ \A i \in 1..Len(s) : Same(p[i], s[i])
    BY <2>1 DEF Same
  <2>3. Moved(p, s, v, e, FALSE)
    BY <1>1, <2>1, <2>2, Unmoved
  <2> QED BY <2>1, <2>3 DEF p, s
<1>9. e.kind \in Kinds \cup {"clear"}
  BY DEF Events
<1> QED BY <1>2, <1>3, <1>4, <1>5, <1>6, <1>7, <1>8, <1>9 DEF Kinds

(* What reduceCliState does to the tools, by the kind of the event.        *)
LEMMA ToolsMoved ==
  ASSUME NEW v \in Views, NEW e \in Events, Taken(v.tools, v)
  PROVE  Moved(ReducedEvent(v, e).tools, v.tools, v, e, Placing(e, "tools"))
<1> DEFINE p == ReducedEvent(v, e).tools
           s == v.tools
<1>1. /\ s \in Seq(ToolRows) /\ Len(s) \in Nat /\ DOMAIN s = 1..Len(s)
      /\ \A i \in 1..Len(s) : s[i] \in ToolRows
      /\ Taken(s, v) /\ p \in Seq(ToolRows)
  BY LenProperties, ToolsReduced DEF Views
<1>2. CASE e.kind = "start"
  <2> DEFINE kept == {i \in DOMAIN s : s[i].id # e.call}
             f == Filtered(s, kept)
             row == NewTool(v, e)
  <2>1. p = Append(f, row) /\ Placing(e, "tools") = TRUE
    BY <1>2, ReducedTools DEF Placing
  <2>2. row \in ToolRows /\ Fresh(row, v, e)
    BY DEF NewTool, ToolRows, Views, Events, Fresh
  <2>3. kept \in SUBSET (1..Len(s))
    BY <1>1
  <2> HIDE DEF kept, p, s, row
  <2>4. f \in Seq(ToolRows) /\ Taken(f, v) /\ \A k \in 1..Len(f) : \E j \in 1..Len(s) : f[k] = s[j]
    BY <1>1, <2>3, FilterMoves, FilteredIs
  <2> HIDE DEF f
  <2>5. Moved(p, f, v, e, TRUE)
    BY <2>1, <2>2, <2>4, AppendMoves
  <2>6. Moved(p, s, v, e, TRUE)
    <3>1. ASSUME NEW i \in 1..Len(p)
          PROVE  (\E j \in 1..Len(s) : Same(p[i], s[j])) \/ Fresh(p[i], v, e)
      <4>1. (\E k \in 1..Len(f) : Same(p[i], f[k])) \/ Fresh(p[i], v, e)
        BY <2>5 DEF Moved
      <4> QED BY <2>4, <4>1
    <3> QED BY <2>5, <3>1 DEF Moved
  <2> QED BY <2>1, <2>6 DEF p, s
<1>3. CASE e.kind \in {"ok", "failed"}
  <2>1. p = [i \in DOMAIN s |->
               IF s[i].id = e.call
                 THEN [s[i] EXCEPT !.status = IF e.kind = "ok" THEN "success" ELSE "error"]
                 ELSE s[i]]
    BY <1>3, ReducedTools
  <2>2. Placing(e, "tools") = FALSE
    BY <1>3 DEF Placing
  <2> HIDE DEF p, s
  <2>3. Len(p) = Len(s)
    BY <1>1, <2>1
  <2>4. \A t \in ToolRows :
          Same([t EXCEPT !.status = IF e.kind = "ok" THEN "success" ELSE "error"], t) /\ Same(t, t)
    BY DEF Same, ToolRows
  <2>5. \A i \in 1..Len(s) : Same(p[i], s[i])
    BY <1>1, <2>1, <2>4
  <2>6. Moved(p, s, v, e, FALSE)
    BY <1>1, <2>3, <2>5, Unmoved
  <2> QED BY <2>2, <2>6 DEF p, s
<1>4. CASE e.kind = "stream"
  <2>1. p = [i \in DOMAIN s |->
               IF s[i].id = e.call THEN [s[i] EXCEPT !.streams = Append(@, e.n)] ELSE s[i]]
    BY <1>4, ReducedTools
  <2>2. Placing(e, "tools") = FALSE
    BY <1>4 DEF Placing
  <2> HIDE DEF p, s
  <2>3. Len(p) = Len(s)
    BY <1>1, <2>1
  <2>4. \A t \in ToolRows : Same([t EXCEPT !.streams = Append(@, e.n)], t) /\ Same(t, t)
    BY DEF Same, ToolRows
  <2>5. \A i \in 1..Len(s) : Same(p[i], s[i])
    BY <1>1, <2>1, <2>4
  <2>6. Moved(p, s, v, e, FALSE)
    BY <1>1, <2>3, <2>5, Unmoved
  <2> QED BY <2>2, <2>6 DEF p, s
<1>5. CASE e.kind = "clear"
  <2>1. p = <<>>
    BY <1>5, ReducedTools
  <2> QED BY <2>1, EmptyMoves
<1>6. CASE e.kind \in {"user", "error", "stage", "delta", "done", "note"}
  <2>1. p = s /\ Placing(e, "tools") = FALSE
    BY <1>6, ReducedTools DEF Placing
  <2> HIDE DEF p, s
  <2>2. Len(p) = Len(s) /\ \A i \in 1..Len(s) : Same(p[i], s[i])
    BY <2>1 DEF Same
  <2>3. Moved(p, s, v, e, FALSE)
    BY <1>1, <2>2, Unmoved
  <2> QED BY <2>1, <2>3 DEF p, s
<1>7. e.kind \in Kinds \cup {"clear"}
  BY DEF Events
<1> QED BY <1>2, <1>3, <1>4, <1>5, <1>6, <1>7 DEF Kinds

(* What reduceCliState does to the notes, by the kind of the event.        *)
LEMMA NotesMoved ==
  ASSUME NEW v \in Views, NEW e \in Events, Taken(v.notes, v)
  PROVE  Moved(ReducedEvent(v, e).notes, v.notes, v, e, Placing(e, "notes"))
<1> DEFINE p == ReducedEvent(v, e).notes
           s == v.notes
<1>1. s \in Seq(NoteRows) /\ Taken(s, v)
  BY DEF Views
<1>2. CASE e.kind = "note"
  <2> DEFINE row == NewNote(v, e)
  <2>1. p = Append(s, row) /\ Placing(e, "notes") = TRUE
    BY <1>2, ReducedNotes DEF Placing
  <2>2. row \in NoteRows /\ Fresh(row, v, e)
    BY DEF NewNote, NoteRows, Views, Events, Fresh
  <2> HIDE DEF p, s, row
  <2>3. Moved(p, s, v, e, TRUE)
    BY <1>1, <2>1, <2>2, AppendMoves
  <2> QED BY <2>1, <2>3 DEF p, s
<1>3. CASE e.kind = "clear"
  <2>1. p = <<>>
    BY <1>3, ReducedNotes
  <2> QED BY <2>1, EmptyMoves
<1>4. CASE e.kind \notin {"note", "clear"}
  <2>1. p = s /\ Placing(e, "notes") = FALSE
    BY <1>4, ReducedNotes DEF Placing
  <2> HIDE DEF p, s
  <2>2. Len(p) = Len(s) /\ \A i \in 1..Len(s) : Same(p[i], s[i])
    BY <2>1 DEF Same
  <2>3. Moved(p, s, v, e, FALSE)
    BY <1>1, <2>2, Unmoved
  <2> QED BY <2>1, <2>3 DEF p, s
<1> QED BY <1>2, <1>3, <1>4

(* The reducer places at most one row, at the end of the order, and keeps  *)
(* the stamps of the others.                                               *)
LEMMA ReduceMoves ==
  ASSUME NEW v \in Views, NEW e \in Events, \A l \in Lists : Taken(v[l], v), IdsApart(v)
  PROVE  \A l \in Lists : Moved(Reduce(v, e)[l], v[l], v, e, Placing(e, l))
<1> DEFINE p == ReducedEvent(v, e)
           r == Reduce(v, e)
<1>1. Taken(v.messages, v) /\ Taken(v.tools, v) /\ Taken(v.notes, v)
  BY DEF Lists
<1>2. /\ p.messages \in Seq(MessageRows) /\ p.tools \in Seq(ToolRows) /\ p.notes \in Seq(NoteRows)
      /\ r.messages \in Seq(MessageRows) /\ r.tools \in Seq(ToolRows) /\ r.notes \in Seq(NoteRows)
  BY ReducedIs, ReduceIs DEF Views
<1>3. /\ Len(p.messages) \in Nat /\ Len(p.tools) \in Nat /\ Len(p.notes) \in Nat
      /\ Len(r.messages) \in Nat /\ Len(r.tools) \in Nat /\ Len(r.notes) \in Nat
  BY <1>2, LenProperties
<1>4. \A l \in Lists : Placing(e, l) \in BOOLEAN
  BY DEF Placing
<1>5. Moved(r.messages, v.messages, v, e, Placing(e, "messages"))
  <2>1. Moved(p.messages, v.messages, v, e, Placing(e, "messages"))
    BY <1>1, MessagesMoved
  <2>2. PICK d \in Nat :
          /\ d = 0 <=> Len(p.messages) <= MaxRows
          /\ Len(p.messages) = Len(r.messages) + d
          /\ Len(r.messages) <= MaxRows
          /\ \A i \in 1..Len(r.messages) :
               r.messages[i] = [p.messages[i + d] EXCEPT !.text = TruncateText(@)]
    BY ReduceIs, Zenon
  <2> HIDE DEF p, r
  <2>3. \A m \in MessageRows : Same([m EXCEPT !.text = TruncateText(@)], m)
    BY DEF MessageRows, Same
  <2>4. \A i \in 1..Len(r.messages) : i + d \in 1..Len(p.messages)
    BY <1>3, <2>2
  <2>5. \A i \in 1..Len(r.messages) : p.messages[i + d] \in MessageRows
    BY <1>2, <2>4, ElementOfSeq
  <2>6. \A i \in 1..Len(r.messages) : Same(r.messages[i], p.messages[i + d])
    BY <2>2, <2>3, <2>5
  <2> QED BY <1>3, <1>4, <2>1, <2>2, <2>6, CompactMoves DEF Lists
<1>6. Moved(r.tools, v.tools, v, e, Placing(e, "tools"))
  <2>1. Moved(p.tools, v.tools, v, e, Placing(e, "tools"))
    BY <1>1, ToolsMoved
  <2>2. PICK d \in Nat :
          /\ d = 0 <=> Len(p.tools) <= MaxRows
          /\ Len(p.tools) = Len(r.tools) + d
          /\ Len(r.tools) <= MaxRows
          /\ \A i \in 1..Len(r.tools) :
               r.tools[i] = [p.tools[i + d] EXCEPT !.streams = Latest(@, MaxText)]
    BY ReduceIs, Zenon
  <2> HIDE DEF p, r
  <2>3. \A t \in ToolRows : Same([t EXCEPT !.streams = Latest(@, MaxText)], t)
    BY DEF ToolRows, Same
  <2>4. \A i \in 1..Len(r.tools) : i + d \in 1..Len(p.tools)
    BY <1>3, <2>2
  <2>5. \A i \in 1..Len(r.tools) : p.tools[i + d] \in ToolRows
    BY <1>2, <2>4, ElementOfSeq
  <2>6. \A i \in 1..Len(r.tools) : Same(r.tools[i], p.tools[i + d])
    BY <2>2, <2>3, <2>5
  <2> QED BY <1>3, <1>4, <2>1, <2>2, <2>6, CompactMoves DEF Lists
<1>7. Moved(r.notes, v.notes, v, e, Placing(e, "notes"))
  <2>1. Moved(p.notes, v.notes, v, e, Placing(e, "notes"))
    BY <1>1, NotesMoved
  <2>2. PICK d \in Nat :
          /\ d = 0 <=> Len(p.notes) <= MaxRows
          /\ Len(p.notes) = Len(r.notes) + d
          /\ Len(r.notes) <= MaxRows
          /\ \A i \in 1..Len(r.notes) : r.notes[i] = p.notes[i + d]
    BY ReduceIs, Zenon
  <2> HIDE DEF p, r
  <2>3. \A i \in 1..Len(r.notes) : Same(r.notes[i], p.notes[i + d])
    BY <2>2 DEF Same
  <2> QED BY <1>3, <1>4, <2>1, <2>2, <2>3, CompactMoves DEF Lists
<1> QED BY <1>5, <1>6, <1>7 DEF Lists

(***************************************************************************)
(* The order of time.                                                      *)
(***************************************************************************)

Rows(v) == UNION {{v[l][i] : i \in 1..Len(v[l])} : l \in Lists}

(* Places in different lists differ too.                                   *)
AllApart(v) ==
  \A l, m \in Lists : \A i \in 1..Len(v[l]), j \in 1..Len(v[m]) :
    v[l][i].order = v[m][j].order => l = m /\ i = j

(* What happened later has the later time, and strictly so if the run      *)
(* said it.                                                                *)
Earlier(a, b) == a.n < b.n => a.at <= b.at /\ (b.by = "run" => a.at < b.at)

(* Rows and events within the clock and the count of events.               *)
Within(a, clk, sd) == a.n \in 1..sd /\ a.at \in 0..clk

RowsTimed(v, clk, sd) ==
  /\ \A a \in Rows(v) : Within(a, clk, sd) /\ a.order \in 1..v.eventCount /\ a.by \in By
  /\ \A a, b \in Rows(v) : a.order # b.order =>
       /\ a.n # b.n
       /\ Earlier(a, b)
       /\ a.n < b.n /\ a.by = "cli" /\ b.by = "cli" => a.order < b.order

EventsTimed(ems, clk, sd) ==
  /\ \A i \in 1..Len(ems) : Within(ems[i], clk, sd) /\ ems[i].by = "run"
  /\ \A i, j \in 1..Len(ems) : i < j => ems[i].n < ems[j].n /\ ems[i].at < ems[j].at

(* The rows against the events of the run, of which k were shown.          *)
RowsAgainst(v, ems, k) ==
  \A a \in Rows(v), i \in 1..Len(ems) :
    /\ Earlier(a, ems[i]) /\ Earlier(ems[i], a)
    /\ a.n = ems[i].n => i <= k

(* The row of the run's answer has the id 0, any other the number of its   *)
(* event.                                                                  *)
IdsOf(rows) ==
  /\ \A i \in 1..Len(rows) :
       IF rows[i].id = 0 THEN rows[i].role = "assistant" ELSE rows[i].id = rows[i].n
  /\ \A i, j \in 1..Len(rows) : rows[i].id = 0 /\ rows[j].id = 0 => i = j

ViewTimed(v, clk, sd) == v \in Views /\ AllApart(v) /\ RowsTimed(v, clk, sd) /\ IdsOf(v.messages)

Timed(v, ems, k, clk, sd) ==
  /\ clk \in Nat /\ sd \in Nat /\ ems \in Seq(Events) /\ k \in 0..Len(ems)
  /\ ViewTimed(v, clk, sd)
  /\ EventsTimed(ems, clk, sd)
  /\ RowsAgainst(v, ems, k)

(* A row of a list is a row of the view.                                   *)
LEMMA RowsHave ==
  ASSUME NEW v, NEW l \in Lists, NEW i \in 1..Len(v[l])
  PROVE  v[l][i] \in Rows(v)
BY DEF Rows

(* A row of the view is one of one of its lists.                           *)
LEMMA RowsAre ==
  ASSUME NEW v, NEW a \in Rows(v)
  PROVE  \E l \in Lists : \E i \in 1..Len(v[l]) : a = v[l][i]
BY DEF Rows

(* In a timed view every list takes places of its own.                     *)
LEMMA TimedTakes ==
  ASSUME NEW v, NEW clk, NEW sd, ViewTimed(v, clk, sd)
  PROVE  (\A l \in Lists : Taken(v[l], v)) /\ IdsApart(v)
<1> USE DEF ViewTimed
<1>1. \A l \in Lists : Apart(v[l])
  BY DEF AllApart, Apart
<1>2. ASSUME NEW l \in Lists, NEW i \in 1..Len(v[l])
      PROVE  v[l][i].order \in Nat /\ v[l][i].order <= v.eventCount
  <2>1. v[l][i] \in Rows(v)
    BY RowsHave
  <2>2. v[l][i].order \in 1..v.eventCount /\ v.eventCount \in Nat
    BY <2>1 DEF RowsTimed, Views
  <2> QED BY <2>2
<1>3. \A l \in Lists : Taken(v[l], v)
  BY <1>1, <1>2 DEF Taken
<1>4. IdsApart(v)
  <2> SUFFICES ASSUME NEW i \in 1..Len(v.messages), NEW j \in 1..Len(v.messages),
                      v.messages[i].id = v.messages[j].id
               PROVE  i = j
    BY DEF IdsApart
  <2>1. v.messages[i] \in Rows(v) /\ v.messages[j] \in Rows(v)
    BY RowsHave DEF Lists
  <2>2. CASE v.messages[i].id = 0
    BY <2>2 DEF IdsOf
  <2>3. CASE v.messages[i].id # 0
    <3>1. v.messages[i].n = v.messages[j].n
      BY <2>3 DEF IdsOf
    <3>2. v.messages[i].order = v.messages[j].order
      BY <2>1, <3>1 DEF RowsTimed
    <3> QED BY <3>2, <1>1 DEF Apart, Lists
  <2> QED BY <2>2, <2>3
<1> QED BY <1>3, <1>4

(* The rows after an event: those of before, in their places, and at most  *)
(* one in a new place.                                                     *)
LEMMA RowsReduced ==
  ASSUME NEW v \in Views, NEW e \in Events, AllApart(v), \A l \in Lists : Taken(v[l], v), IdsApart(v)
  PROVE  /\ AllApart(Reduce(v, e))
         /\ \A b \in Rows(Reduce(v, e)) :
              \/ \E a \in Rows(v) : Same(b, a)
              \/ Fresh(b, v, e) /\ \E l \in Lists : Placing(e, l)
<1> DEFINE r == Reduce(v, e)
<1>1. \A l \in Lists : Moved(r[l], v[l], v, e, Placing(e, l))
  BY ReduceMoves
<1>2. v.eventCount \in Nat
  BY DEF Views
<1>3. \A l, m \in Lists : Placing(e, l) /\ Placing(e, m) => l = m
  BY DEF Placing, Lists
<1> HIDE DEF r
<1>4. ASSUME NEW l \in Lists, NEW m \in Lists, NEW i \in 1..Len(r[l]), NEW j \in 1..Len(r[m]),
             r[l][i].order = r[m][j].order
      PROVE  l = m /\ i = j
  <2>1. SUFFICES ASSUME l # m PROVE FALSE
    <3>1. CASE l = m
      BY <1>1, <1>4, <3>1 DEF Moved, Apart
    <3> QED BY <3>1, <2>1
  <2>2. (\E p \in 1..Len(v[l]) : Same(r[l][i], v[l][p])) \/ (Placing(e, l) /\ Fresh(r[l][i], v, e))
    BY <1>1 DEF Moved
  <2>3. (\E q \in 1..Len(v[m]) : Same(r[m][j], v[m][q])) \/ (Placing(e, m) /\ Fresh(r[m][j], v, e))
    BY <1>1 DEF Moved
  <2>4. CASE (\E p \in 1..Len(v[l]) : Same(r[l][i], v[l][p])) /\ (\E q \in 1..Len(v[m]) : Same(r[m][j], v[m][q]))
    <3>1. PICK p \in 1..Len(v[l]), q \in 1..Len(v[m]) : Same(r[l][i], v[l][p]) /\ Same(r[m][j], v[m][q])
      BY <2>4
    <3>2. v[l][p].order = v[m][q].order
      BY <1>4, <3>1 DEF Same
    <3> QED BY <2>1, <3>2 DEF AllApart
  <2>5. CASE (\E p \in 1..Len(v[l]) : Same(r[l][i], v[l][p])) /\ Fresh(r[m][j], v, e)
    <3>1. PICK p \in 1..Len(v[l]) : Same(r[l][i], v[l][p])
      BY <2>5
    <3>2. v[l][p].order = v.eventCount + 1
      BY <1>4, <2>5, <3>1 DEF Same, Fresh
    <3>3. v[l][p].order <= v.eventCount
      BY DEF Taken
    <3> QED BY <1>2, <3>2, <3>3
  <2>6. CASE Fresh(r[l][i], v, e) /\ (\E q \in 1..Len(v[m]) : Same(r[m][j], v[m][q]))
    <3>1. PICK q \in 1..Len(v[m]) : Same(r[m][j], v[m][q])
      BY <2>6
    <3>2. v[m][q].order = v.eventCount + 1
      BY <1>4, <2>6, <3>1 DEF Same, Fresh
    <3>3. v[m][q].order <= v.eventCount
      BY DEF Taken
    <3> QED BY <1>2, <3>2, <3>3
  <2> QED BY <1>3, <2>1, <2>2, <2>3, <2>4, <2>5, <2>6
<1>5. AllApart(r)
  BY <1>4 DEF AllApart
<1>6. ASSUME NEW b \in Rows(r)
      PROVE  (\E a \in Rows(v) : Same(b, a)) \/ (Fresh(b, v, e) /\ \E l \in Lists : Placing(e, l))
  <2>0. \E l \in Lists : \E i \in 1..Len(r[l]) : b = r[l][i]
    BY RowsAre, Zenon
  <2>l. PICK l \in Lists : \E i \in 1..Len(r[l]) : b = r[l][i]
    BY <2>0
  <2>1. PICK i \in 1..Len(r[l]) : b = r[l][i]
    BY <2>l
  <2>2. (\E j \in 1..Len(v[l]) : Same(b, v[l][j])) \/ (Placing(e, l) /\ Fresh(b, v, e))
    BY <1>1, <2>1 DEF Moved
  <2> QED BY <2>2, RowsHave
<1> QED BY <1>5, <1>6 DEF r

(* The answer's row stays the only one of its id, and the others have the  *)
(* numbers of their events.                                                *)
LEMMA IdsReduced ==
  ASSUME NEW v \in Views, NEW e \in Events, IdsOf(v.messages), IdsApart(v), e.n # 0
  PROVE  IdsOf(Reduce(v, e).messages)
<1> DEFINE p == ReducedEvent(v, e).messages
           r == Reduce(v, e).messages
           s == v.messages
<1>1. /\ s \in Seq(MessageRows) /\ Len(s) \in Nat /\ DOMAIN s = 1..Len(s)
      /\ \A i \in 1..Len(s) : s[i] \in MessageRows
      /\ p \in Seq(MessageRows) /\ Len(p) \in Nat
      /\ r \in Seq(MessageRows) /\ Len(r) \in Nat
      /\ IdsOf(s)
  <2>1. s \in Seq(MessageRows) /\ p \in Seq(MessageRows) /\ r \in Seq(MessageRows)
    BY MessagesReduced, ReduceIs DEF Views
  <2> HIDE DEF p, r
  <2> QED BY <2>1, LenProperties
<1>2. MessageId(e) \in Nat /\ MessageId(e) \in {0, e.n} /\ e.n \in Nat
      /\ <<>> \in Seq(Nat) /\ <<e.n>> \in Seq(Nat)
  BY DEF MessageId, Events
<1>3. \A i \in 1..Len(s) : s[i].role = "assistant" /\ s[i].id = MessageId(e) => Shown(v, MessageId(e))
  BY <1>1 DEF Shown
<1>4. ASSUME NEW row \in MessageRows, p = Append(s, row), row.n = e.n,
             row.id = e.n \/ (row.id = MessageId(e) /\ row.role = "assistant" /\ ~Shown(v, MessageId(e)))
      PROVE  IdsOf(p)
  <2>1. /\ Len(p) = Len(s) + 1
        /\ \A i \in 1..Len(s) : p[i] = s[i]
        /\ p[Len(s) + 1] = row
    BY <1>1, <1>4, AppendProperties
  <2>2. row.id = 0 => \A i \in 1..Len(s) : s[i].id # 0
    BY <1>1, <1>2, <1>3, <1>4 DEF IdsOf
  <2>3. IF row.id = 0 THEN row.role = "assistant" ELSE row.id = row.n
    BY <1>2, <1>4
  <2> HIDE DEF p, s
  <2>4. \A i \in 1..Len(p) : i \in 1..Len(s) \/ i = Len(s) + 1
    BY <1>1, <2>1
  <2>5. \A i \in 1..Len(p) : IF p[i].id = 0 THEN p[i].role = "assistant" ELSE p[i].id = p[i].n
    BY <1>1, <2>1, <2>3, <2>4 DEF IdsOf
  <2>6. \A i, j \in 1..Len(p) : p[i].id = 0 /\ p[j].id = 0 => i = j
    BY <1>1, <2>1, <2>2, <2>4 DEF IdsOf
  <2> QED BY <2>5, <2>6 DEF IdsOf
<1>5. IdsOf(p)
  <2>1. CASE e.kind \in {"user", "error"}
    <3> DEFINE row == NewMessage(v, e, e.kind, e.n, <<>>, FALSE)
    <3>1. row \in MessageRows
      BY <1>2, <2>1, NewMessageIs
    <3>2. p = Append(s, row)
      BY <2>1, ReducedMessages
    <3>3. row.n = e.n /\ row.id = e.n
      BY DEF NewMessage
    <3> HIDE DEF row, p
    <3> QED BY <1>4, <3>1, <3>2, <3>3
  <2>2. CASE e.kind \in {"stage", "delta"} /\ ~Shown(v, MessageId(e))
    <3> DEFINE text == IF e.kind = "stage" THEN <<>> ELSE <<e.n>>
               row == NewMessage(v, e, "assistant", MessageId(e), text, TRUE)
    <3>1. row \in MessageRows
      BY <1>2, NewMessageIs
    <3>2. p = Append(s, row)
      BY <2>2, ReducedMessages
    <3>3. row.n = e.n /\ row.id = MessageId(e) /\ row.role = "assistant"
      BY DEF NewMessage
    <3> HIDE DEF row, p
    <3> QED BY <1>4, <2>2, <3>1, <3>2, <3>3
  <2>3. CASE e.kind = "delta" /\ Shown(v, MessageId(e))
    <3>1. p = [i \in DOMAIN s |->
               IF s[i].id = MessageId(e)
                 THEN NewMessage(v, e, s[i].role, MessageId(e), Append(s[i].text, e.n), TRUE)
                 ELSE s[i]]
      BY <2>3, ReducedMessages
    <3> HIDE DEF p, s
    <3>2. Len(p) = Len(s)
      BY <1>1, <3>1
    <3>3. \A i \in 1..Len(s) :
            /\ p[i].id = s[i].id /\ p[i].role = s[i].role
            /\ p[i].n = IF s[i].id = MessageId(e) THEN e.n ELSE s[i].n
      BY <1>1, <3>1 DEF NewMessage
    <3> QED BY <1>1, <1>2, <3>2, <3>3 DEF IdsOf
  <2>4. CASE e.kind = "done"
    <3>1. p = [i \in DOMAIN s |-> IF s[i].id = MessageId(e) THEN [s[i] EXCEPT !.streaming = FALSE] ELSE s[i]]
      BY <2>4, ReducedMessages
    <3> HIDE DEF p, s
    <3>2. Len(p) = Len(s)
      BY <1>1, <3>1
    <3>3. \A m \in MessageRows : LET t == [m EXCEPT !.streaming = FALSE]
                                 IN  t.id = m.id /\ t.role = m.role /\ t.n = m.n
      BY DEF MessageRows
    <3>4. \A i \in 1..Len(s) : p[i].id = s[i].id /\ p[i].role = s[i].role /\ p[i].n = s[i].n
      BY <1>1, <3>1, <3>3
    <3> QED BY <1>1, <3>2, <3>4 DEF IdsOf
  <2>5. CASE e.kind = "clear"
    <3>1. p = <<>>
      BY <2>5, ReducedMessages
    <3>2. Len(p) = 0 /\ 1..0 = {}
      BY <3>1
    <3> QED BY <3>2 DEF IdsOf
  <2>6. CASE e.kind \in {"start", "ok", "failed", "stream", "note"}
             \/ (e.kind = "stage" /\ Shown(v, MessageId(e)))
    <3>1. p = s
      BY <2>6, ReducedMessages
    <3> QED BY <1>1, <3>1
  <2>7. e.kind \in Kinds \cup {"clear"}
    BY DEF Events
  <2> QED BY <2>1, <2>2, <2>3, <2>4, <2>5, <2>6, <2>7 DEF Kinds
<1>6. PICK d \in Nat :
              /\ d = 0 <=> Len(p) <= MaxRows
              /\ Len(p) = Len(r) + d
              /\ Len(r) <= MaxRows
              /\ \A i \in 1..Len(r) : r[i] = [p[i + d] EXCEPT !.text = TruncateText(@)]
  BY ReduceIs, Zenon
<1> HIDE DEF p, r, s
<1>7. \A i \in 1..Len(r) : i + d \in 1..Len(p)
  BY <1>1, <1>6
<1>8. \A i \in 1..Len(r) : p[i + d] \in MessageRows
  BY <1>1, <1>7, ElementOfSeq
<1>9. \A m \in MessageRows : LET t == [m EXCEPT !.text = TruncateText(@)]
                             IN  t.id = m.id /\ t.role = m.role /\ t.n = m.n
  BY DEF MessageRows
<1>10. \A i \in 1..Len(r) : r[i].id = p[i + d].id /\ r[i].role = p[i + d].role /\ r[i].n = p[i + d].n
  BY <1>6, <1>8, <1>9
<1>11. \A i \in 1..Len(r) : IF r[i].id = 0 THEN r[i].role = "assistant" ELSE r[i].id = r[i].n
  BY <1>5, <1>7, <1>10 DEF IdsOf
<1>12. ASSUME NEW i \in 1..Len(r), NEW j \in 1..Len(r), r[i].id = 0, r[j].id = 0
       PROVE  i = j
  <2>1. i + d = j + d
    BY <1>5, <1>7, <1>10, <1>12 DEF IdsOf
  <2> QED BY <1>1, <2>1
<1>13. IdsOf(r)
  BY <1>11, <1>12 DEF IdsOf
<1> QED BY <1>13 DEF r

(* An event is shown that is new among the rows: the rows stay in the      *)
(* order of time.                                                          *)
LEMMA ReduceTimed ==
  ASSUME NEW v, NEW clk \in Nat, NEW sd \in Nat, ViewTimed(v, clk, sd),
         NEW e \in Events, NEW clk2 \in Nat, NEW sd2 \in Nat, clk <= clk2, sd <= sd2,
         Within(e, clk2, sd2),
         (\E l \in Lists : Placing(e, l)) =>
           \A a \in Rows(v) :
             /\ a.n # e.n
             /\ Earlier(a, e) /\ Earlier(e, a)
             /\ a.by = "cli" /\ e.by = "cli" => a.n < e.n
  PROVE  ViewTimed(Reduce(v, e), clk2, sd2)
<1> DEFINE r == Reduce(v, e)
<1>1. v \in Views /\ AllApart(v) /\ RowsTimed(v, clk, sd) /\ IdsOf(v.messages)
  BY DEF ViewTimed
<1>2. (\A l \in Lists : Taken(v[l], v)) /\ IdsApart(v)
  BY TimedTakes
<1>3. /\ AllApart(r)
      /\ \A b \in Rows(r) :
              \/ \E a \in Rows(v) : Same(b, a)
              \/ Fresh(b, v, e) /\ \E l \in Lists : Placing(e, l)
  BY <1>1, <1>2, RowsReduced
<1>4. e.n # 0
  BY DEF Within
<1>5. r \in Views /\ IdsOf(r.messages) /\ r.eventCount = v.eventCount + 1 /\ v.eventCount \in Nat
  BY <1>1, <1>2, <1>4, ReduceIs, IdsReduced DEF Views
<1> HIDE DEF r
<1>6. ASSUME NEW b \in Rows(r)
      PROVE  Within(b, clk2, sd2) /\ b.order \in 1..r.eventCount /\ b.by \in By
  <2>1. CASE \E a \in Rows(v) : Same(b, a)
    <3>1. PICK a \in Rows(v) : Same(b, a)
      BY <2>1
    <3>2. a.n \in 1..sd /\ a.at \in 0..clk /\ a.order \in 1..v.eventCount /\ a.by \in By
      BY <1>1 DEF RowsTimed, Within
    <3> QED BY <1>5, <3>1, <3>2 DEF Same, Within
  <2>2. CASE Fresh(b, v, e)
    BY <1>5, <2>2 DEF Fresh, Within, Events
  <2> QED BY <1>3, <2>1, <2>2
<1>7. ASSUME NEW b \in Rows(r), NEW c \in Rows(r), b.order # c.order
      PROVE  /\ b.n # c.n
             /\ Earlier(b, c)
             /\ b.n < c.n /\ b.by = "cli" /\ c.by = "cli" => b.order < c.order
  <2>1. CASE (\E a \in Rows(v) : Same(b, a)) /\ (\E a \in Rows(v) : Same(c, a))
    <3>1. PICK a1 \in Rows(v), a2 \in Rows(v) : Same(b, a1) /\ Same(c, a2)
      BY <2>1
    <3>2. /\ a1.n # a2.n
          /\ Earlier(a1, a2)
          /\ a1.n < a2.n /\ a1.by = "cli" /\ a2.by = "cli" => a1.order < a2.order
      BY <1>1, <1>7, <3>1 DEF RowsTimed, Same
    <3> QED BY <3>1, <3>2 DEF Same, Earlier
  <2>2. CASE (\E a \in Rows(v) : Same(b, a)) /\ Fresh(c, v, e) /\ \E l \in Lists : Placing(e, l)
    <3>1. PICK a \in Rows(v) : Same(b, a)
      BY <2>2
    <3>2. a.n # e.n /\ Earlier(a, e) /\ (a.by = "cli" /\ e.by = "cli" => a.n < e.n)
      BY <2>2
    <3>3. a.order < v.eventCount + 1
      BY <1>1, <1>5 DEF RowsTimed
    <3> QED BY <2>2, <3>1, <3>2, <3>3 DEF Same, Earlier, Fresh
  <2>3. CASE Fresh(b, v, e) /\ (\E l \in Lists : Placing(e, l)) /\ \E a \in Rows(v) : Same(c, a)
    <3>1. PICK a \in Rows(v) : Same(c, a)
      BY <2>3
    <3>2. a.n # e.n /\ Earlier(e, a) /\ (a.by = "cli" /\ e.by = "cli" => a.n < e.n)
      BY <2>3
    <3>3. a.n \in Nat /\ e.n \in Nat
      BY <1>1 DEF RowsTimed, Within, Events
    <3> QED BY <2>3, <3>1, <3>2, <3>3 DEF Same, Earlier, Fresh
  <2>4. CASE Fresh(b, v, e) /\ Fresh(c, v, e)
    BY <1>7, <2>4 DEF Fresh
  <2> QED BY <1>3, <2>1, <2>2, <2>3, <2>4
<1>8. RowsTimed(r, clk2, sd2)
  BY <1>6, <1>7 DEF RowsTimed
<1> QED BY <1>3, <1>5, <1>8 DEF ViewTimed, r

(* A row that stands against the events of the run does so after the next  *)
(* one too.                                                                *)
LEMMA AgainstReduced ==
  ASSUME NEW v \in Views, NEW e \in Events, AllApart(v), \A l \in Lists : Taken(v[l], v), IdsApart(v),
         NEW ems, NEW k \in Nat, NEW k2 \in Nat, k <= k2, Len(ems) \in Nat, RowsAgainst(v, ems, k),
         (\E l \in Lists : Placing(e, l)) =>
           \A i \in 1..Len(ems) :
             /\ Earlier(e, ems[i]) /\ Earlier(ems[i], e)
             /\ e.n = ems[i].n => i <= k2
  PROVE  RowsAgainst(Reduce(v, e), ems, k2)
<1> DEFINE r == Reduce(v, e)
<1>1. \A b \in Rows(r) : \/ \E a \in Rows(v) : Same(b, a)
                         \/ Fresh(b, v, e) /\ \E l \in Lists : Placing(e, l)
  BY RowsReduced
<1> HIDE DEF r
<1>2. ASSUME NEW b \in Rows(r), NEW i \in 1..Len(ems)
      PROVE  /\ Earlier(b, ems[i]) /\ Earlier(ems[i], b)
             /\ b.n = ems[i].n => i <= k2
  <2>1. CASE \E a \in Rows(v) : Same(b, a)
    <3>1. PICK a \in Rows(v) : Same(b, a)
      BY <2>1
    <3>2. Earlier(a, ems[i]) /\ Earlier(ems[i], a) /\ (a.n = ems[i].n => i <= k)
      BY DEF RowsAgainst
    <3>3. Earlier(b, ems[i]) /\ Earlier(ems[i], b) /\ (b.n = ems[i].n => i <= k)
      BY <3>1, <3>2 DEF Same, Earlier
    <3> QED BY <3>3
  <2>2. CASE Fresh(b, v, e) /\ \E l \in Lists : Placing(e, l)
    <3>1. Earlier(e, ems[i]) /\ Earlier(ems[i], e) /\ (e.n = ems[i].n => i <= k2)
      BY <2>2
    <3> QED BY <2>2, <3>1 DEF Fresh, Earlier
  <2> QED BY <1>1, <2>1, <2>2
<1>3. RowsAgainst(r, ems, k2)
  BY <1>2 DEF RowsAgainst
<1> QED BY <1>3 DEF r

(* The run publishes an event, a tick after all before.                    *)
LEMMA PublishTimed ==
  ASSUME NEW v, NEW ems, NEW k, NEW clk, NEW sd, Timed(v, ems, k, clk, sd),
         NEW e \in Events, e.n = sd + 1, e.at = clk + 1, e.by = "run"
  PROVE  Timed(v, Append(ems, e), k, clk + 1, sd + 1)
<1> DEFINE t == Append(ems, e)
<1>1. /\ clk \in Nat /\ sd \in Nat /\ ems \in Seq(Events) /\ k \in 0..Len(ems) /\ Len(ems) \in Nat
      /\ ViewTimed(v, clk, sd) /\ EventsTimed(ems, clk, sd) /\ RowsAgainst(v, ems, k)
  BY LenProperties DEF Timed
<1>2. /\ t \in Seq(Events) /\ Len(t) = Len(ems) + 1
      /\ \A i \in 1..Len(ems) : t[i] = ems[i]
      /\ t[Len(ems) + 1] = e
  BY <1>1, AppendProperties
<1> HIDE DEF t
<1>3. \A i \in 1..Len(t) : i \in 1..Len(ems) \/ i = Len(ems) + 1
  BY <1>1, <1>2
<1>4. \A i \in 1..Len(ems) : ems[i].n \in 1..sd /\ ems[i].at \in 0..clk /\ ems[i].by = "run"
  BY <1>1 DEF EventsTimed, Within
<1>5. \A a \in Rows(v) : a.n \in 1..sd /\ a.at \in 0..clk
  BY <1>1 DEF ViewTimed, RowsTimed, Within
<1>6. ViewTimed(v, clk + 1, sd + 1)
  BY <1>1, <1>5 DEF ViewTimed, RowsTimed, Within
<1>7. EventsTimed(t, clk + 1, sd + 1)
  <2>1. \A i \in 1..Len(t) : Within(t[i], clk + 1, sd + 1) /\ t[i].by = "run"
    BY <1>1, <1>2, <1>3, <1>4 DEF Within
  <2>2. ASSUME NEW i \in 1..Len(t), NEW j \in 1..Len(t), i < j
        PROVE  t[i].n < t[j].n /\ t[i].at < t[j].at
    <3>1. i \in 1..Len(ems)
      BY <1>1, <1>2, <2>2
    <3>2. CASE j \in 1..Len(ems)
      BY <1>1, <1>2, <2>2, <3>1, <3>2 DEF EventsTimed
    <3>3. CASE j = Len(ems) + 1
      BY <1>1, <1>2, <1>4, <3>1, <3>3
    <3> QED BY <1>3, <3>2, <3>3
  <2> QED BY <2>1, <2>2 DEF EventsTimed
<1>8. RowsAgainst(v, t, k)
  <2> SUFFICES ASSUME NEW a \in Rows(v), NEW i \in 1..Len(t)
               PROVE  /\ Earlier(a, t[i]) /\ Earlier(t[i], a)
                      /\ a.n = t[i].n => i <= k
    BY DEF RowsAgainst
  <2>1. CASE i \in 1..Len(ems)
    BY <1>1, <1>2, <2>1 DEF RowsAgainst
  <2>2. CASE i = Len(ems) + 1
    BY <1>1, <1>2, <1>5, <2>2 DEF Earlier
  <2> QED BY <1>3, <2>1, <2>2
<1>9. k \in 0..Len(t) /\ clk + 1 \in Nat /\ sd + 1 \in Nat
  BY <1>1, <1>2
<1>10. Timed(v, t, k, clk + 1, sd + 1)
  BY <1>2, <1>6, <1>7, <1>8, <1>9 DEF Timed
<1> QED BY <1>10 DEF t

(* The next event of the run arrives, perhaps long after it happened.      *)
LEMMA ArrivalTimed ==
  ASSUME NEW v, NEW ems, NEW k, NEW clk, NEW sd, Timed(v, ems, k, clk, sd), k < Len(ems)
  PROVE  Timed(Reduce(v, ems[k + 1]), ems, k + 1, clk, sd)
<1>1. /\ clk \in Nat /\ sd \in Nat /\ ems \in Seq(Events) /\ k \in Nat /\ Len(ems) \in Nat
      /\ ViewTimed(v, clk, sd) /\ EventsTimed(ems, clk, sd) /\ RowsAgainst(v, ems, k)
  BY LenProperties DEF Timed
<1>2. k + 1 \in 1..Len(ems) /\ k + 1 \in Nat /\ k <= k + 1 /\ k + 1 \in 0..Len(ems)
  BY <1>1
<1>3. PICK e : e = ems[k + 1]
  OBVIOUS
<1>4. e \in Events /\ Within(e, clk, sd)
  BY <1>1, <1>2, <1>3, ElementOfSeq DEF EventsTimed
<1>5. /\ v \in Views /\ AllApart(v) /\ (\A l \in Lists : Taken(v[l], v)) /\ IdsApart(v)
  BY <1>1, TimedTakes DEF ViewTimed
<1>6. \A a \in Rows(v) : /\ a.n # e.n
                         /\ Earlier(a, e) /\ Earlier(e, a)
                         /\ a.by = "cli" /\ e.by = "cli" => a.n < e.n
  <2>1. e.by = "run"
    BY <1>1, <1>2, <1>3 DEF EventsTimed
  <2>2. ASSUME NEW a \in Rows(v) PROVE Earlier(a, e) /\ Earlier(e, a) /\ (a.n = e.n => k + 1 <= k)
    BY <1>1, <1>2, <1>3 DEF RowsAgainst
  <2> QED BY <1>1, <2>1, <2>2
<1>7. \A i \in 1..Len(ems) : /\ Earlier(e, ems[i]) /\ Earlier(ems[i], e)
                             /\ e.n = ems[i].n => i <= k + 1
  <2> TAKE i \in 1..Len(ems)
  <2>1. e.n \in Nat /\ e.at \in Nat /\ ems[i].n \in Nat /\ ems[i].at \in Nat
    <3>1. ems[i] \in Events
      BY <1>1, ElementOfSeq
    <3> QED BY <1>4, <3>1 DEF Events
  <2>2. CASE i = k + 1
    BY <1>2, <1>3, <2>1, <2>2 DEF Earlier
  <2>3. CASE i < k + 1
    <3>1. ems[i].n < e.n /\ ems[i].at < e.at
      BY <1>1, <1>2, <1>3, <2>3 DEF EventsTimed
    <3> QED BY <2>1, <2>3, <3>1 DEF Earlier
  <2>4. CASE k + 1 < i
    <3>1. e.n < ems[i].n /\ e.at < ems[i].at
      BY <1>1, <1>2, <1>3, <2>4 DEF EventsTimed
    <3> QED BY <2>1, <3>1 DEF Earlier
  <2> QED BY <1>1, <2>2, <2>3, <2>4
<1>8. ViewTimed(Reduce(v, e), clk, sd)
  <2>1. clk <= clk /\ sd <= sd
    BY <1>1
  <2> QED BY <1>1, <1>4, <1>6, <2>1, ReduceTimed
<1>9. RowsAgainst(Reduce(v, e), ems, k + 1)
  BY <1>1, <1>2, <1>4, <1>5, <1>7, AgainstReduced
<1> QED BY <1>1, <1>2, <1>3, <1>8, <1>9 DEF Timed

(* An event of the CLI is shown at once.                                   *)
LEMMA DirectTimed ==
  ASSUME NEW v, NEW ems, NEW k, NEW clk, NEW sd, Timed(v, ems, k, clk, sd),
         NEW e \in Events, e.n = sd + 1, e.at \in {clk, clk + 1}, e.by = "cli"
  PROVE  Timed(Reduce(v, e), ems, k, e.at, sd + 1)
<1>1. /\ clk \in Nat /\ sd \in Nat /\ ems \in Seq(Events) /\ k \in 0..Len(ems) /\ k \in Nat /\ Len(ems) \in Nat
      /\ ViewTimed(v, clk, sd) /\ EventsTimed(ems, clk, sd) /\ RowsAgainst(v, ems, k)
  BY LenProperties DEF Timed
<1>2. e.at \in Nat /\ sd + 1 \in Nat /\ clk <= e.at /\ sd <= sd + 1 /\ k <= k /\ Within(e, e.at, sd + 1)
  BY <1>1 DEF Within
<1>3. /\ v \in Views /\ AllApart(v) /\ (\A l \in Lists : Taken(v[l], v)) /\ IdsApart(v)
  BY <1>1, TimedTakes DEF ViewTimed
<1>4. \A a \in Rows(v) : a.n \in 1..sd /\ a.at \in 0..clk
  BY <1>1 DEF ViewTimed, RowsTimed, Within
<1>5. \A i \in 1..Len(ems) : ems[i].n \in 1..sd /\ ems[i].at \in 0..clk
  BY <1>1 DEF EventsTimed, Within
<1>6. \A a \in Rows(v) : /\ a.n # e.n
                         /\ Earlier(a, e) /\ Earlier(e, a)
                         /\ a.by = "cli" /\ e.by = "cli" => a.n < e.n
  BY <1>1, <1>2, <1>4 DEF Earlier
<1>7. \A i \in 1..Len(ems) : /\ Earlier(e, ems[i]) /\ Earlier(ems[i], e)
                             /\ e.n = ems[i].n => i <= k
  BY <1>1, <1>2, <1>5 DEF Earlier
<1>8. ViewTimed(Reduce(v, e), e.at, sd + 1)
  BY <1>1, <1>2, <1>6, ReduceTimed
<1>9. RowsAgainst(Reduce(v, e), ems, k)
  BY <1>1, <1>2, <1>3, <1>7, AgainstReduced
<1>10. EventsTimed(ems, e.at, sd + 1)
  BY <1>1, <1>2, <1>5 DEF EventsTimed, Within
<1> QED BY <1>1, <1>2, <1>8, <1>9, <1>10 DEF Timed

(* An event that places no row.                                            *)
LEMMA QuietTimed ==
  ASSUME NEW v, NEW ems, NEW k, NEW clk, NEW sd, Timed(v, ems, k, clk, sd),
         NEW e \in Events, Within(e, clk, sd), e.kind = "done"
  PROVE  Timed(Reduce(v, e), ems, k, clk, sd)
<1>1. /\ clk \in Nat /\ sd \in Nat /\ ems \in Seq(Events) /\ k \in 0..Len(ems) /\ k \in Nat /\ Len(ems) \in Nat
      /\ ViewTimed(v, clk, sd) /\ EventsTimed(ems, clk, sd) /\ RowsAgainst(v, ems, k)
  BY LenProperties DEF Timed
<1>2. ~\E l \in Lists : Placing(e, l)
  BY DEF Placing
<1>3. /\ v \in Views /\ AllApart(v) /\ (\A l \in Lists : Taken(v[l], v)) /\ IdsApart(v)
  BY <1>1, TimedTakes DEF ViewTimed
<1>4. clk <= clk /\ sd <= sd /\ k <= k
  BY <1>1
<1>5. ViewTimed(Reduce(v, e), clk, sd)
  BY <1>1, <1>2, <1>4, ReduceTimed
<1>6. RowsAgainst(Reduce(v, e), ems, k)
  BY <1>1, <1>2, <1>3, <1>4, AgainstReduced
<1> QED BY <1>1, <1>5, <1>6 DEF Timed

(* The rows of a timed view are in order.                                  *)
LEMMA TimedInOrder ==
  ASSUME NEW clk, NEW sd, ViewTimed(view, clk, sd)
  PROVE  TimelineInOrder
<1> SUFFICES ASSUME NEW l \in Lists, NEW m \in Lists,
                    NEW i \in DOMAIN view[l], NEW j \in DOMAIN view[m], <<l, i>> # <<m, j>>
             PROVE  /\ Before(view[l][i], view[m][j]) \/ Before(view[m][j], view[l][i])
                    /\ Before(view[l][i], view[m][j]) =>
                         \/ view[l][i].n < view[m][j].n
                         \/ view[l][i].at = view[m][j].at /\ view[l][i].by # view[m][j].by
  BY DEF TimelineInOrder
<1>1. DOMAIN view[l] = 1..Len(view[l]) /\ DOMAIN view[m] = 1..Len(view[m])
  <2>1. view.messages \in Seq(MessageRows) /\ view.tools \in Seq(ToolRows) /\ view.notes \in Seq(NoteRows)
    BY DEF ViewTimed, Views
  <2>2. \A x \in Lists : DOMAIN view[x] = 1..Len(view[x])
    BY <2>1, LenProperties DEF Lists
  <2> QED BY <2>2
<1>2. PICK a, b : a = view[l][i] /\ b = view[m][j]
  OBVIOUS
<1>3. a \in Rows(view) /\ b \in Rows(view)
  BY <1>1, <1>2, RowsHave
<1>4. a.order # b.order
  BY <1>1, <1>2 DEF ViewTimed, AllApart
<1>5. /\ a.n \in 1..sd /\ b.n \in 1..sd /\ a.at \in 0..clk /\ b.at \in 0..clk
      /\ a.order \in 1..view.eventCount /\ b.order \in 1..view.eventCount
      /\ a.by \in By /\ b.by \in By
  BY <1>3 DEF ViewTimed, RowsTimed, Within
<1>6. /\ a.n # b.n
      /\ b.n < a.n => b.at <= a.at /\ (a.by = "run" => b.at < a.at)
      /\ b.n < a.n /\ a.by = "cli" /\ b.by = "cli" => b.order < a.order
  BY <1>3, <1>4 DEF ViewTimed, RowsTimed, Earlier
<1>7. /\ a.n \in Int /\ b.n \in Int /\ a.at \in Int /\ b.at \in Int /\ a.order \in Int /\ b.order \in Int
      /\ a.by \in {"run", "cli"} /\ b.by \in {"run", "cli"}
  BY <1>5 DEF By
<1>8. Before(a, b) \/ Before(b, a)
  BY <1>4, <1>7 DEF Before
<1>9. Before(a, b) => a.n < b.n \/ (a.at = b.at /\ a.by # b.by)
  BY <1>6, <1>7 DEF Before
<1> QED BY <1>2, <1>8, <1>9

(***************************************************************************)
(* The steps of the view.                                                  *)
(***************************************************************************)

(* The steps of the view, by what they publish and what they show.         *)
Shows(e) == view' = Reduce(view, e) /\ forgotten' = (forgotten \/ Forgets(e))

RunSays(e) ==
  /\ e = Event(e.kind, e.call, "run", clock + 1)
  /\ e \in Events /\ e.kind \in Kinds
  /\ MayPublish(e.kind, e.call)
  /\ emitted' = Append(emitted, e)
  /\ clock' = clock + 1
  /\ said' = said + 1

RunSaysUnseen == /\ \E e \in Events : RunSays(e)
                 /\ UNCHANGED <<view, forgotten, received, direct>>

RunSaysFirst == /\ \E e \in Events : RunSays(e) /\ Shows(e)
                /\ emitted = <<>> /\ received = <<>> /\ received' = <<1>>
                /\ UNCHANGED direct

NextIsSeen == /\ Len(received) + 1 <= Len(emitted)
              /\ Len(received') = Len(received) + 1
              /\ Shows(emitted[Len(received) + 1])
              /\ UNCHANGED <<emitted, clock, said, direct>>

CliSays(e) ==
  /\ e = Event(e.kind, NoCall, "cli", clock')
  /\ e \in Events
  /\ clock' \in {clock, clock + 1}
  /\ said' = said + 1
  /\ UNCHANGED <<emitted, received>>

CliShows == /\ \E e \in Events : CliSays(e) /\ e.kind \in {"error", "clear"} /\ Shows(e)
            /\ direct' \in 0..MaxDirect

CliNotes ==
  /\ \E e \in Events :
       /\ CliSays(e) /\ e.kind = "delta"
       /\ view' = Reduce(Reduce(view, e), [e EXCEPT !.kind = "done"])
       /\ forgotten' = (forgotten \/ Forgets(e))
  /\ direct' \in 0..MaxDirect

Nothing == UNCHANGED <<received, viewVars>>

StepKinds == Nothing \/ RunSaysUnseen \/ RunSaysFirst \/ NextIsSeen \/ CliShows \/ CliNotes

ViewInv ==
  /\ IInv
  /\ Len(emitted) = pushed
  /\ clock \in 1..(said + 1) /\ direct \in 0..MaxDirect /\ forgotten \in BOOLEAN
  /\ \A l \in Lists : Len(view[l]) <= MaxRows
  /\ Timed(view, emitted, Len(received), clock, said)

(* A step of the view is one of the stream, or leaves it alone.            *)
LEMMA ViewIsStream == ViewNext => [Next]_vars
BY DEF ViewNext, Next, GeneratorStep, RunEmits, RunReturns, FirstEvent, EventArrives, ConsumerOnly,
       LoopEnds, CliEmits

(* What the generator takes from the queue is the next event of the run.   *)
LEMMA NextArrives ==
  ASSUME IInv, Continues \/ Wakened, received' # received
  PROVE  /\ Len(received) + 1 <= pushed
         /\ Len(received') = Len(received) + 1
         /\ Last(received') = Len(received) + 1
         /\ pushed' = pushed
<1> USE DEF IInv
<1>1. TakeItem /\ received' = Append(received, Head(queue).n) /\ Head(queue).type = "event" /\ pushed' = pushed
  BY DEF Continues, Wakened, TakeOrWait, TakeItem, Yield, Sleep
<1>2. /\ queue \in Seq(Item) /\ queue # <<>> /\ received \in Seq(1..MaxEvents)
      /\ Len(received) \in Nat /\ pushed \in Nat
  BY <1>1, StreamAssumption DEF TypeOK, TakeItem
<1>3. Len(queue) >= 1 /\ Head(queue) = queue[1] /\ Head(queue) \in Item
  BY <1>2
<1>4. IF Len(received) + 1 <= pushed
        THEN Head(queue) = EventItem(Len(received) + 1)
        ELSE Head(queue).type \in End
  BY <1>2, <1>3 DEF QueueInv
<1>5. Len(received) + 1 <= pushed /\ Head(queue).n = Len(received) + 1
  BY <1>1, <1>4 DEF End, EventItem
<1>6. received' = Append(received, Len(received) + 1) /\ Len(received) + 1 \in Nat /\ received \in Seq(Nat)
  <2>1. 1..MaxEvents \subseteq Nat
    OBVIOUS
  <2>2. received \in Seq(Nat)
    BY <1>2, <2>1, SeqMonotonic
  <2> QED BY <1>1, <1>2, <1>5, <2>2
<1>7. Len(received') = Len(received) + 1 /\ received'[Len(received) + 1] = Len(received) + 1
  BY <1>6, AppendProperties
<1> QED BY <1>1, <1>5, <1>7 DEF Last

(* Every step of the view is one of the six kinds.                         *)
LEMMA StepsAre ==
  ASSUME ViewInv, ViewNext
  PROVE  StepKinds /\ Len(emitted') = pushed'
<1>1. /\ IInv /\ Len(emitted) = pushed /\ emitted \in Seq(Events) /\ Len(emitted) \in Nat
      /\ clock \in Nat /\ said \in Nat /\ direct \in 0..MaxDirect
  BY LenProperties DEF ViewInv, Timed
<1>2. pushed \in Nat /\ received \in Seq(1..MaxEvents)
  BY <1>1 DEF IInv, TypeOK
<1>3. ASSUME Publish
      PROVE  (\E e \in Events : RunSays(e)) /\ Len(emitted') = Len(emitted) + 1
  <2>1. PICK kind \in Kinds, call \in CallIds \cup {NoCall} :
          MayPublish(kind, call) /\ emitted' = Append(emitted, Event(kind, call, "run", clock'))
    BY <1>3 DEF Publish
  <2>2. clock' = clock + 1 /\ said' = said + 1
    BY <1>3 DEF Publish
  <2>3. PICK e : e = Event(kind, call, "run", clock')
    OBVIOUS
  <2>4. e \in Events /\ e.kind = kind /\ e.call = call
    BY <1>1, <2>2, <2>3 DEF Event, Events, By
  <2>5. RunSays(e)
    BY <2>1, <2>2, <2>3, <2>4 DEF RunSays
  <2>6. Len(emitted') = Len(emitted) + 1
    BY <1>1, <2>1, <2>3, <2>4, AppendProperties
  <2> QED BY <2>4, <2>5, <2>6
<1>4. ASSUME NEW kind \in {"error", "clear", "delta"}, clock' \in {clock, clock + 1}, said' = said + 1,
             UNCHANGED <<emitted, received>>
      PROVE  Event(kind, NoCall, "cli", clock') \in Events /\ CliSays(Event(kind, NoCall, "cli", clock'))
  <2>1. PICK e : e = Event(kind, NoCall, "cli", clock')
    OBVIOUS
  <2>2. clock' \in Nat /\ said + 1 \in Nat
    BY <1>1, <1>4
  <2>3. e \in Events /\ e.kind = kind
    BY <2>1, <2>2 DEF Event, Events, By, Kinds
  <2> QED BY <1>4, <2>1, <2>3 DEF CliSays
<1>5. CASE RunEmits
  <2>1. Publish /\ UNCHANGED <<view, forgotten, received, direct>> /\ pushed' = pushed + 1
    BY <1>5 DEF RunEmits, RunPushes
  <2> QED BY <1>1, <1>3, <2>1 DEF StepKinds, RunSaysUnseen
<1>6. CASE RunReturns \/ ConsumerOnly
  <2>1. UNCHANGED <<received, viewVars>> /\ pushed' = pushed
    BY <1>6 DEF RunReturns, RunSettles, ConsumerOnly, Ask, GiveUp, ClosedUnstarted, Abandons
  <2>2. emitted' = emitted
    BY <2>1 DEF viewVars
  <2> QED BY <1>1, <2>1, <2>2 DEF StepKinds, Nothing
<1>7. CASE FirstEvent
  <2>1. run = "new" /\ received = <<>> /\ pushed = 0
    BY <1>1, <1>7 DEF FirstEvent, Starts, IInv, CountInv, PlaceInv
  <2>2. CASE pushed' # pushed /\ Publish /\ Show(Last(emitted')) /\ UNCHANGED direct
    <3>1. pushed' = 1 /\ received' = Append(received, 1)
      BY <1>7, <2>2 DEF FirstEvent, Starts, Yield
    <3>2. received' = <<1>>
      BY <2>1, <3>1
    <3>3. emitted = <<>>
      BY <1>1, <2>1
    <3>4. PICK e \in Events : RunSays(e)
      BY <1>3, <2>2
    <3>5. Last(emitted') = e /\ Len(emitted') = pushed'
      <4>1. emitted' = Append(emitted, e)
        BY <3>4 DEF RunSays
      <4>2. Len(emitted') = Len(emitted) + 1 /\ emitted'[Len(emitted) + 1] = e
        BY <1>1, <4>1, AppendProperties
      <4> QED BY <1>1, <2>1, <3>1, <4>2 DEF Last
    <3>6. Shows(e)
      BY <2>2, <3>5 DEF Show, Shows
    <3> QED BY <2>1, <2>2, <3>2, <3>3, <3>4, <3>5, <3>6 DEF StepKinds, RunSaysFirst
  <2>3. CASE pushed' = pushed /\ UNCHANGED viewVars
    <3>1. received' = received
      BY <1>7, <2>1, <2>3 DEF FirstEvent, Starts, Sleep
    <3> QED BY <1>1, <2>3, <3>1 DEF StepKinds, Nothing, viewVars
  <2> QED BY <1>7, <2>2, <2>3 DEF FirstEvent
<1>8. CASE EventArrives
  <2>1. (Continues \/ Wakened) /\ UNCHANGED <<emitted, clock, said, direct>> /\ pushed' = pushed
    BY <1>8 DEF EventArrives, Continues, Wakened
  <2>2. CASE received' = received
    BY <1>1, <1>8, <2>1, <2>2 DEF EventArrives, StepKinds, Nothing, viewVars
  <2>3. CASE received' # received
    <3>1. /\ Len(received) + 1 <= pushed /\ Len(received') = Len(received) + 1
          /\ Last(received') = Len(received) + 1
      BY <1>1, <2>1, <2>3, NextArrives
    <3>2. Shows(emitted[Len(received) + 1])
      BY <1>8, <2>3, <3>1 DEF EventArrives, Show, Shows
    <3> QED BY <1>1, <2>1, <3>1, <3>2 DEF StepKinds, NextIsSeen
  <2> QED BY <2>2, <2>3
<1>9. CASE LoopEnds
  <2>1. UNCHANGED <<received, emitted, direct, pushed>>
    BY <1>9 DEF LoopEnds, Closes
  <2>2. CASE EmitError
    <3>1. /\ clock' \in {clock, clock + 1} /\ said' = said + 1
          /\ Shows(Event("error", NoCall, "cli", clock'))
      BY <2>2 DEF EmitError, Tick, Show, Shows
    <3>2. PICK e : e = Event("error", NoCall, "cli", clock')
      OBVIOUS
    <3>3. e \in Events /\ CliSays(e) /\ e.kind = "error"
      BY <1>4, <2>1, <3>1, <3>2 DEF Event
    <3> QED BY <1>1, <2>1, <3>1, <3>2, <3>3 DEF StepKinds, CliShows
  <2>3. CASE UNCHANGED <<clock, said, view, forgotten>>
    BY <1>1, <2>1, <2>3 DEF StepKinds, Nothing, viewVars
  <2> QED BY <1>9, <2>2, <2>3 DEF LoopEnds
<1>10. CASE CliEmits
  <2>1. UNCHANGED <<received, emitted, pushed>> /\ direct' \in 0..MaxDirect
    BY <1>1, <1>10, ViewAssumption DEF CliEmits, vars
  <2>2. clock' \in {clock, clock + 1} /\ said' = said + 1
    BY <1>10 DEF CliEmits, EmitNotice, EmitError, ClearCommand, Tick
  <2>3. CASE EmitNotice
    <3>1. PICK e : e = Event("delta", NoCall, "cli", clock')
      OBVIOUS
    <3>2. e \in Events /\ CliSays(e) /\ e.kind = "delta"
      BY <1>4, <2>1, <2>2, <3>1 DEF Event
    <3>3. /\ view' = Reduce(Reduce(view, e), [e EXCEPT !.kind = "done"])
          /\ forgotten' = (forgotten \/ Forgets(e))
      BY <2>3, <3>1 DEF EmitNotice
    <3> QED BY <1>1, <2>1, <3>2, <3>3 DEF StepKinds, CliNotes
  <2>4. CASE EmitError \/ ClearCommand
    <3>1. PICK kind \in {"error", "clear"} : Shows(Event(kind, NoCall, "cli", clock'))
      BY <2>4 DEF EmitError, ClearCommand, Show, Shows
    <3>2. PICK e : e = Event(kind, NoCall, "cli", clock')
      OBVIOUS
    <3>3. e \in Events /\ CliSays(e) /\ e.kind = kind
      BY <1>4, <2>1, <2>2, <3>2 DEF Event
    <3> QED BY <1>1, <2>1, <3>1, <3>2, <3>3 DEF StepKinds, CliShows
  <2> QED BY <1>10, <2>3, <2>4 DEF CliEmits
<1> QED BY <1>5, <1>6, <1>7, <1>8, <1>9, <1>10 DEF ViewNext

(* The view starts empty, with nothing said.                               *)
LEMMA ViewInvInit == ViewInit => ViewInv
<1> SUFFICES ASSUME ViewInit PROVE ViewInv
  OBVIOUS
<1>1. /\ IInv /\ pushed = 0 /\ received = <<>>
      /\ emitted = <<>> /\ clock = 1 /\ said = 0 /\ direct = 0 /\ forgotten = FALSE
  BY InitEstablishes DEF ViewInit, Init
<1>2. view.messages = <<>> /\ view.tools = <<>> /\ view.notes = <<>> /\ view.eventCount = 0
  BY DEF ViewInit
<1>3. \A l \in Lists : view[l] = <<>>
  BY <1>2 DEF Lists
<1>4. Len(<<>>) = 0 /\ 1..0 = {}
  OBVIOUS
<1>5. view \in Views
  <2>1. <<>> \in Seq(MessageRows) /\ <<>> \in Seq(ToolRows) /\ <<>> \in Seq(NoteRows)
    BY EmptySeq
  <2>2. view = [messages |-> <<>>, tools |-> <<>>, notes |-> <<>>, eventCount |-> 0]
    BY DEF ViewInit
  <2> QED BY <2>1, <2>2 DEF Views
<1>6. Rows(view) = {}
  BY <1>3, <1>4 DEF Rows
<1>7. AllApart(view)
  BY <1>3, <1>4 DEF AllApart
<1>8. IdsOf(view.messages)
  BY <1>2, <1>4 DEF IdsOf
<1>9. emitted \in Seq(Events)
  BY <1>1, EmptySeq
<1>10. Timed(view, emitted, Len(received), clock, said)
  <2>1. ViewTimed(view, clock, said)
    BY <1>5, <1>6, <1>7, <1>8 DEF ViewTimed, RowsTimed
  <2>2. EventsTimed(emitted, clock, said) /\ RowsAgainst(view, emitted, Len(received))
    BY <1>1, <1>4, <1>6 DEF EventsTimed, RowsAgainst
  <2>3. Len(received) \in 0..Len(emitted)
    BY <1>1, <1>4
  <2> QED BY <1>1, <1>9, <2>1, <2>2, <2>3 DEF Timed
<1>11. \A l \in Lists : Len(view[l]) <= MaxRows
  BY <1>3, <1>4, ViewAssumption
<1>12. direct \in 0..MaxDirect /\ clock \in 1..(said + 1) /\ Len(emitted) = pushed
  BY <1>1, <1>4, ViewAssumption
<1> QED BY <1>1, <1>10, <1>11, <1>12 DEF ViewInv

(* No list of a reduced view has more than MaxRows rows.                   *)
LEMMA ListsBounded ==
  ASSUME NEW v \in Views, NEW e \in Events
  PROVE  \A l \in Lists : Len(Reduce(v, e)[l]) <= MaxRows
<1> DEFINE r == Reduce(v, e)
<1>1. Len(r.messages) <= MaxRows
  BY ReduceIs
<1>2. Len(r.tools) <= MaxRows
  BY ReduceIs
<1>3. Len(r.notes) <= MaxRows
  BY ReduceIs
<1> QED BY <1>1, <1>2, <1>3 DEF Lists

(* Every step keeps the invariant: one step per kind.                      *)
LEMMA ViewInvStep == ViewInv /\ [ViewNext]_<<vars, viewVars>> => ViewInv'
<1> SUFFICES ASSUME ViewInv, [ViewNext]_<<vars, viewVars>> PROVE ViewInv'
  OBVIOUS
<1>1. /\ IInv /\ Len(emitted) = pushed /\ emitted \in Seq(Events) /\ Len(emitted) \in Nat
      /\ clock \in Nat /\ said \in Nat /\ direct \in 0..MaxDirect /\ forgotten \in BOOLEAN
      /\ view \in Views
      /\ clock \in 1..(said + 1)
      /\ (\A l \in Lists : Len(view[l]) <= MaxRows)
      /\ Len(received) \in 0..Len(emitted)
      /\ Timed(view, emitted, Len(received), clock, said)
  BY LenProperties DEF ViewInv, Timed, ViewTimed
<1>2. CASE UNCHANGED <<vars, viewVars>>
  <2>1. UNCHANGED vars /\ UNCHANGED viewVars
    BY <1>2
  <2>2. IInv'
    BY <1>1, <2>1, StepKeeps
  <2> QED BY <1>1, <2>1, <2>2 DEF ViewInv, vars, viewVars
<1>3. CASE ViewNext
  <2>1. IInv'
    BY <1>1, <1>3, ViewIsStream, StepKeeps
  <2>2. StepKinds /\ Len(emitted') = pushed'
    BY <1>3, StepsAre
  <2>3. CASE Nothing
    BY <1>1, <2>1, <2>2, <2>3 DEF Nothing, viewVars, ViewInv
  <2>4. CASE RunSaysUnseen
    <3>1. PICK e \in Events : RunSays(e)
      BY <2>4 DEF RunSaysUnseen
    <3>2. /\ e.n = said + 1 /\ e.at = clock + 1 /\ e.by = "run"
          /\ emitted' = Append(emitted, e) /\ clock' = clock + 1 /\ said' = said + 1
          /\ UNCHANGED <<view, forgotten, received, direct>>
      BY <2>4, <3>1 DEF RunSaysUnseen, RunSays, Event
    <3>3. Timed(view, Append(emitted, e), Len(received), clock + 1, said + 1)
      BY <1>1, <3>2, PublishTimed
    <3>4. clock' \in 1..(said' + 1)
      BY <1>1, <3>2
    <3> QED BY <1>1, <2>1, <2>2, <3>2, <3>3, <3>4 DEF ViewInv
  <2>5. CASE RunSaysFirst
    <3>1. PICK e \in Events : RunSays(e) /\ Shows(e)
      BY <2>5 DEF RunSaysFirst
    <3>2. /\ e.n = said + 1 /\ e.at = clock + 1 /\ e.by = "run"
          /\ emitted' = Append(emitted, e) /\ clock' = clock + 1 /\ said' = said + 1
          /\ view' = Reduce(view, e) /\ forgotten' \in BOOLEAN
          /\ emitted = <<>> /\ received = <<>> /\ received' = <<1>>
          /\ direct' = direct
      BY <1>1, <2>5, <3>1 DEF RunSaysFirst, RunSays, Event, Shows
    <3>3. Timed(view, Append(emitted, e), Len(received), clock + 1, said + 1)
      BY <1>1, <3>2, PublishTimed
    <3>4. /\ Len(received) = 0 /\ Len(received') = 1 /\ Len(emitted) = 0
          /\ Len(Append(emitted, e)) = 1 /\ Append(emitted, e)[1] = e
      BY <1>1, <3>2, AppendProperties
    <3>5. Timed(Reduce(view, Append(emitted, e)[0 + 1]), Append(emitted, e), 0 + 1, clock + 1, said + 1)
      BY <3>3, <3>4, ArrivalTimed
    <3>6. Timed(view', emitted', Len(received'), clock', said')
      BY <3>2, <3>4, <3>5
    <3>7. clock' \in 1..(said' + 1)
      BY <1>1, <3>2
    <3>8. \A l \in Lists : Len(view'[l]) <= MaxRows
      BY <1>1, <3>2, ListsBounded
    <3> QED BY <1>1, <2>1, <2>2, <3>2, <3>6, <3>7, <3>8 DEF ViewInv
  <2>6. CASE NextIsSeen
    <3>1. PICK e : e = emitted[Len(received) + 1]
      OBVIOUS
    <3>2. /\ Len(received) + 1 <= Len(emitted) /\ Len(received') = Len(received) + 1
          /\ view' = Reduce(view, e) /\ forgotten' \in BOOLEAN
          /\ UNCHANGED <<emitted, clock, said, direct>>
      BY <1>1, <2>6, <3>1 DEF NextIsSeen, Shows
    <3>3. Timed(Reduce(view, e), emitted, Len(received) + 1, clock, said)
      BY <1>1, <3>1, <3>2, ArrivalTimed
    <3>4. e \in Events
      BY <1>1, <3>1, <3>2, ElementOfSeq
    <3>5. \A l \in Lists : Len(view'[l]) <= MaxRows
      BY <1>1, <3>2, <3>4, ListsBounded
    <3> QED BY <1>1, <2>1, <2>2, <3>2, <3>3, <3>5 DEF ViewInv
  <2>7. CASE CliShows
    <3>1. PICK e \in Events : CliSays(e) /\ Shows(e)
      BY <2>7 DEF CliShows
    <3>2. /\ e.n = said + 1 /\ e.at = clock' /\ e.at \in {clock, clock + 1} /\ e.by = "cli" /\ said' = said + 1
          /\ view' = Reduce(view, e) /\ forgotten' \in BOOLEAN
          /\ UNCHANGED <<emitted, received>> /\ direct' \in 0..MaxDirect
      BY <1>1, <2>7, <3>1 DEF CliShows, CliSays, Shows, Event
    <3>3. Timed(Reduce(view, e), emitted, Len(received), e.at, said + 1)
      BY <1>1, <3>2, DirectTimed
    <3>4. \A l \in Lists : Len(view'[l]) <= MaxRows
      BY <1>1, <3>2, ListsBounded
    <3>5. clock' \in 1..(said' + 1)
      BY <1>1, <3>2
    <3> QED BY <1>1, <2>1, <2>2, <3>2, <3>3, <3>4, <3>5 DEF ViewInv
  <2>8. CASE CliNotes
    <3>1. PICK e \in Events : /\ CliSays(e)
                              /\ view' = Reduce(Reduce(view, e), [e EXCEPT !.kind = "done"])
                              /\ forgotten' = (forgotten \/ Forgets(e))
      BY <2>8 DEF CliNotes
    <3>2. /\ e.n = said + 1 /\ e.at = clock' /\ e.at \in {clock, clock + 1} /\ e.by = "cli" /\ said' = said + 1
          /\ UNCHANGED <<emitted, received>> /\ direct' \in 0..MaxDirect /\ forgotten' \in BOOLEAN
      BY <1>1, <2>8, <3>1 DEF CliNotes, CliSays, Event
    <3>3. PICK d : d = [e EXCEPT !.kind = "done"]
      OBVIOUS
    <3>4. d \in Events /\ d.kind = "done" /\ d.n = said + 1 /\ d.at = e.at
      BY <3>2, <3>3 DEF Events, Kinds
    <3>5. PICK w : w = Reduce(view, e)
      OBVIOUS
    <3>6. Timed(w, emitted, Len(received), e.at, said + 1) /\ w \in Views
      BY <1>1, <3>2, <3>5, DirectTimed, ReduceIs
    <3>7. Within(d, e.at, said + 1)
      BY <1>1, <3>2, <3>4 DEF Within
    <3>8. Timed(Reduce(w, d), emitted, Len(received), e.at, said + 1)
      BY <3>4, <3>6, <3>7, QuietTimed
    <3>9. view' = Reduce(w, d)
      BY <3>1, <3>3, <3>5
    <3>10. \A l \in Lists : Len(view'[l]) <= MaxRows
      BY <3>4, <3>6, <3>9, ListsBounded
    <3>11. clock' \in 1..(said' + 1)
      BY <1>1, <3>2
    <3> QED BY <1>1, <2>1, <2>2, <3>2, <3>8, <3>9, <3>10, <3>11 DEF ViewInv
  <2> QED BY <2>2, <2>3, <2>4, <2>5, <2>6, <2>7, <2>8 DEF StepKinds
<1> QED BY <1>2, <1>3

(* The invariant of the view: the stream is the run's, the rows are rows,  *)
(* the lists are bounded, and rows and events lie in the order of time.    *)
THEOREM ViewInvariance == ViewSpec => []ViewInv
<1>1. ViewInit => ViewInv
  BY ViewInvInit
<1>2. ViewInv /\ [ViewNext]_<<vars, viewVars>> => ViewInv'
  BY ViewInvStep
<1> QED BY <1>1, <1>2, PTL DEF ViewSpec

(* What the CLI receives of a run is what the run published, in order and  *)
(* without a gap (asyncEventQueue between agent.ts and the loop of         *)
(* App.tsx).                                                               *)
THEOREM ViewStream == ViewSpec => []StreamIsTheRun
<1>1. ViewInv => StreamIsTheRun
  BY DEF ViewInv, IInv
<1> QED BY <1>1, ViewInvariance, PTL

(* The view is a view: its rows have the fields of cli-state.ts, and no    *)
(* list outgrows its bound.                                                *)
THEOREM ViewTypes == ViewSpec => []ViewTypeOK
<1>1. ViewInv => ViewTypeOK
  <2> SUFFICES ASSUME ViewInv PROVE ViewTypeOK
    OBVIOUS
  <2>1. TypeOK /\ said \in Nat
    BY DEF ViewInv, IInv, Timed
  <2>2. Len(view.messages) <= MaxRows /\ Len(view.tools) <= MaxRows /\ Len(view.notes) <= MaxRows
    BY DEF ViewInv, Lists
  <2> QED BY <2>1, <2>2 DEF ViewInv, ViewTypeOK
<1> QED BY <1>1, ViewInvariance, PTL

(* The timeline of timeline.ts lists messages, tools and notes in the order*)
(* in which they happened, whichever way their events came to the view.    *)
THEOREM TimelineOrdered == ViewSpec => []TimelineInOrder
<1>1. ViewInv => TimelineInOrder
  BY TimedInOrder DEF ViewInv, Timed
<1> QED BY <1>1, ViewInvariance, PTL

(***************************************************************************)
(* What the answer's row quotes.                                           *)
(***************************************************************************)

(* A text quotes the numbers said so far: in order, without a gap, from    *)
(* the first unless rows were forgotten, and to the last unless it is cut. *)
Uncut(text) == IF Len(text) > MaxText THEN MaxText ELSE Len(text)

Quotes(text, numbers, headless) ==
  /\ text \in Seq(Nat)
  /\ Len(text) > MaxText => Len(text) = MaxText + 1 /\ text[MaxText + 1] = Marker
  /\ \A i, j \in 1..Uncut(text) : i < j => text[i] < text[j]
  /\ \A i \in 1..Uncut(text) : text[i] \in numbers
  /\ \A n \in numbers :
       \/ \E i \in 1..Uncut(text) : text[i] = n
       \/ headless /\ \A i \in 1..Uncut(text) : n < text[i]
       \/ Len(text) > MaxText /\ \A i \in 1..Uncut(text) : text[i] < n

(* Cutting a text short keeps it a quotation.                              *)
LEMMA QuotesTruncated ==
  ASSUME NEW text, NEW numbers, NEW headless \in BOOLEAN, Quotes(text, numbers, headless)
  PROVE  Quotes(TruncateText(text), numbers, headless)
<1>1. text \in Seq(Nat) /\ Len(text) \in Nat /\ MaxText \in Nat
  BY LenProperties, ViewAssumption DEF Quotes
<1>2. CASE Len(text) <= MaxText
  BY <1>1, <1>2, TruncateIs
<1>3. CASE Len(text) > MaxText
  <2>1. PICK t : t = TruncateText(text)
    OBVIOUS
  <2>2. /\ t \in Seq(Nat) /\ Len(t) = MaxText + 1 /\ t[MaxText + 1] = Marker
        /\ \A i \in 1..MaxText : t[i] = text[i]
    BY <1>1, <1>3, <2>1, TruncateIs
  <2>3. Uncut(t) = MaxText /\ Uncut(text) = MaxText /\ Len(t) > MaxText
    BY <1>1, <1>3, <2>2 DEF Uncut
  <2>4. Quotes(t, numbers, headless)
    BY <1>3, <2>2, <2>3 DEF Quotes
  <2> QED BY <2>1, <2>4
<1> QED BY <1>1, <1>2, <1>3

(* A quotation followed by the next delta quotes one more.                 *)
LEMMA QuotesDelta ==
  ASSUME NEW text, NEW numbers \in SUBSET Nat, NEW headless \in BOOLEAN, Quotes(text, numbers, headless),
         NEW n \in Nat, \A m \in numbers : m < n
  PROVE  Quotes(TruncateText(Append(text, n)), numbers \cup {n}, headless)
<1>1. text \in Seq(Nat) /\ Len(text) \in Nat /\ MaxText \in Nat
  BY LenProperties, ViewAssumption DEF Quotes
<1>2. PICK u : u = Append(text, n)
  OBVIOUS
<1>3. u \in Seq(Nat) /\ Len(u) = Len(text) + 1 /\ (\A i \in 1..Len(text) : u[i] = text[i]) /\ u[Len(text) + 1] = n
  BY <1>1, <1>2, AppendProperties
<1>4. PICK t : t = TruncateText(u)
  OBVIOUS
<1>5. \A i \in 1..Uncut(text) : text[i] \in numbers /\ text[i] < n
  BY DEF Quotes
<1>6. CASE Len(text) < MaxText
  <2>1. t = u
    BY <1>1, <1>3, <1>4, <1>6, TruncateIs
  <2>2. Uncut(text) = Len(text) /\ Uncut(t) = Len(text) + 1 /\ ~(Len(t) > MaxText) /\ ~(Len(text) > MaxText)
    BY <1>1, <1>3, <1>6, <2>1 DEF Uncut
  <2>3. \A i \in 1..(Len(text) + 1) : i \in 1..Len(text) \/ i = Len(text) + 1
    BY <1>1
  <2>4. \A i, j \in 1..Uncut(t) : i < j => t[i] < t[j]
    <3> SUFFICES ASSUME NEW i \in 1..(Len(text) + 1), NEW j \in 1..(Len(text) + 1), i < j
                 PROVE  t[i] < t[j]
      BY <2>2
    <3>1. i \in 1..Len(text)
      BY <1>1
    <3>2. CASE j \in 1..Len(text)
      BY <1>3, <2>1, <2>2, <3>1, <3>2 DEF Quotes
    <3>3. CASE j = Len(text) + 1
      BY <1>3, <1>5, <2>1, <2>2, <3>1, <3>3
    <3> QED BY <2>3, <3>2, <3>3
  <2>5. \A i \in 1..Uncut(t) : t[i] \in numbers \cup {n}
    BY <1>3, <1>5, <2>1, <2>2, <2>3
  <2>6. ASSUME NEW m \in numbers \cup {n}
        PROVE  (\E i \in 1..Uncut(t) : t[i] = m) \/ (headless /\ \A i \in 1..Uncut(t) : m < t[i])
    <3>1. CASE m = n
      <4>1. Len(text) + 1 \in 1..Uncut(t) /\ t[Len(text) + 1] = m
        BY <1>1, <1>3, <2>1, <2>2, <3>1
      <4> QED BY <4>1
    <3>2. CASE m \in numbers
      <4>1. (\E i \in 1..Len(text) : text[i] = m) \/ (headless /\ \A i \in 1..Len(text) : m < text[i])
        BY <2>2, <3>2 DEF Quotes
      <4>2. CASE \E i \in 1..Len(text) : text[i] = m
        BY <1>1, <1>3, <2>1, <2>2, <4>2
      <4>3. CASE headless /\ \A i \in 1..Len(text) : m < text[i]
        BY <1>3, <2>1, <2>2, <2>3, <3>2, <4>3
      <4> QED BY <4>1, <4>2, <4>3
    <3> QED BY <3>1, <3>2
  <2>7. Quotes(t, numbers \cup {n}, headless)
    BY <1>3, <2>1, <2>2, <2>4, <2>5, <2>6 DEF Quotes
  <2> QED BY <1>2, <1>4, <2>7
<1>7. CASE ~(Len(text) < MaxText)
  <2>1. Len(text) + 1 > MaxText /\ Len(text) >= MaxText /\ Uncut(text) = MaxText
    BY <1>1, <1>7 DEF Uncut
  <2>2. /\ t \in Seq(Nat) /\ Len(t) = MaxText + 1 /\ t[MaxText + 1] = Marker
        /\ \A i \in 1..MaxText : t[i] = u[i]
    BY <1>1, <1>3, <1>4, <2>1, TruncateIs
  <2>3. \A i \in 1..MaxText : t[i] = text[i]
    BY <1>1, <1>3, <2>1, <2>2
  <2>4. Uncut(t) = MaxText /\ Len(t) > MaxText
    BY <1>1, <2>2 DEF Uncut
  <2>5. ASSUME NEW m \in numbers \cup {n}
        PROVE  \/ \E i \in 1..MaxText : t[i] = m
               \/ headless /\ \A i \in 1..MaxText : m < t[i]
               \/ \A i \in 1..MaxText : t[i] < m
    <3>1. CASE m = n
      BY <1>5, <2>1, <2>3, <3>1
    <3>2. CASE m \in numbers
      <4>1. \/ \E i \in 1..MaxText : text[i] = m
            \/ headless /\ \A i \in 1..MaxText : m < text[i]
            \/ \A i \in 1..MaxText : text[i] < m
        BY <2>1, <3>2 DEF Quotes
      <4> QED BY <2>3, <4>1
    <3> QED BY <3>1, <3>2
  <2>6. \A i, j \in 1..MaxText : i < j => t[i] < t[j]
    BY <2>1, <2>3 DEF Quotes
  <2>7. \A i \in 1..MaxText : t[i] \in numbers \cup {n}
    BY <1>5, <2>1, <2>3
  <2>8. Quotes(t, numbers \cup {n}, headless)
    BY <2>2, <2>4, <2>5, <2>6, <2>7 DEF Quotes
  <2> QED BY <1>2, <1>4, <2>8
<1> QED BY <1>6, <1>7

(* The empty text quotes nothing.                                          *)
LEMMA QuotesNothing ==
  ASSUME NEW numbers, NEW headless \in BOOLEAN, numbers = {} \/ headless
  PROVE  Quotes(<<>>, numbers, headless)
<1>1. <<>> \in Seq(Nat) /\ Len(<<>>) = 0 /\ MaxText \in Nat /\ 1..0 = {}
  BY ViewAssumption
<1>2. Uncut(<<>>) = 0 /\ ~(Len(<<>>) > MaxText)
  BY <1>1 DEF Uncut
<1> QED BY <1>1, <1>2 DEF Quotes

(* The text of a first delta quotes it; what was lost before it is missing *)
(* at its head.                                                            *)
LEMMA QuotesFirst ==
  ASSUME NEW numbers \in SUBSET Nat, NEW headless \in BOOLEAN, numbers = {} \/ headless,
         NEW n \in Nat, \A m \in numbers : m < n
  PROVE  Quotes(<<n>>, numbers \cup {n}, headless)
<1>1. <<n>> \in Seq(Nat) /\ Len(<<n>>) = 1 /\ <<n>>[1] = n /\ MaxText \in Nat /\ MaxText >= 1 /\ 1..1 = {1}
  BY ViewAssumption
<1>2. Uncut(<<n>>) = 1 /\ ~(Len(<<n>>) > MaxText)
  BY <1>1 DEF Uncut
<1>3. PICK t : t = <<n>>
  OBVIOUS
<1>4. Quotes(t, numbers \cup {n}, headless)
  BY <1>1, <1>2, <1>3 DEF Quotes
<1> QED BY <1>3, <1>4

(* A quotation of all is one that may lack its head.                       *)
LEMMA QuotesMonotone ==
  ASSUME NEW text, NEW numbers, NEW headless \in BOOLEAN, NEW headless2 \in BOOLEAN, headless => headless2,
         Quotes(text, numbers, headless)
  PROVE  Quotes(text, numbers, headless2)
BY DEF Quotes

(* The messages after an event that does not clear them: the rows of       *)
(* before, and at most one more.                                           *)
Grown(p, v, e) ==
  LET s == v.messages IN
  /\ Len(p) \in {Len(s), Len(s) + 1}
  /\ \A i \in 1..Len(s) :
       /\ p[i].id = s[i].id
       /\ p[i].text = IF e.kind = "delta" /\ Shown(v, MessageId(e)) /\ s[i].id = MessageId(e)
                        THEN Append(s[i].text, e.n) ELSE s[i].text
       /\ p[i].streaming => s[i].streaming \/ (e.kind = "delta" /\ s[i].id = MessageId(e))
       /\ e.kind = "done" /\ s[i].id = MessageId(e) => ~p[i].streaming
  /\ e.kind = "delta" /\ ~Shown(v, MessageId(e)) => Len(p) = Len(s) + 1
  /\ Len(p) = Len(s) + 1 =>
       \/ e.kind \in {"user", "error"} /\ p[Len(p)].id = e.n /\ ~p[Len(p)].streaming
       \/ /\ e.kind \in {"stage", "delta"} /\ ~Shown(v, MessageId(e)) /\ p[Len(p)].id = MessageId(e)
          /\ p[Len(p)].text = IF e.kind = "stage" THEN <<>> ELSE <<e.n>>

(* What an event other than a clear does to the messages before they are   *)
(* compacted.                                                              *)
LEMMA MessagesGrow ==
  ASSUME NEW v \in Views, NEW e \in Events, e.kind # "clear"
  PROVE  Grown(ReducedEvent(v, e).messages, v, e)
<1> DEFINE p == ReducedEvent(v, e).messages
           s == v.messages
<1>1. /\ s \in Seq(MessageRows) /\ e.n \in Nat /\ MessageId(e) \in Nat
      /\ <<>> \in Seq(Nat) /\ <<e.n>> \in Seq(Nat)
      /\ Len(s) \in Nat /\ DOMAIN s = 1..Len(s)
      /\ \A i \in 1..Len(s) : s[i] \in MessageRows
      /\ p \in Seq(MessageRows)
  BY LenProperties, MessagesReduced DEF Views, Events, MessageId
<1>2. CASE e.kind \in {"user", "error"}
  <2>1. PICK row : row = NewMessage(v, e, e.kind, e.n, <<>>, FALSE)
    OBVIOUS
  <2>2. row \in MessageRows /\ p = Append(s, row) /\ row.id = e.n /\ ~row.streaming
    <3>1. row \in MessageRows
      BY <1>1, <1>2, <2>1, NewMessageIs
    <3> QED BY <1>2, <2>1, <3>1, ReducedMessages DEF NewMessage
  <2> HIDE DEF p
  <2>3. Len(p) = Len(s) + 1 /\ p[Len(s) + 1] = row /\ \A i \in 1..Len(s) : p[i] = s[i]
    BY <1>1, <2>2, AppendProperties
  <2>4. Grown(p, v, e)
    BY <1>2, <2>2, <2>3 DEF Grown
  <2> QED BY <2>4 DEF p
<1>3. CASE e.kind \in {"stage", "delta"} /\ ~Shown(v, MessageId(e))
  <2>0. PICK text : text = IF e.kind = "stage" THEN <<>> ELSE <<e.n>>
    OBVIOUS
  <2>1. PICK row : row = NewMessage(v, e, "assistant", MessageId(e), text, TRUE)
    OBVIOUS
  <2>2. row \in MessageRows /\ p = Append(s, row) /\ row.id = MessageId(e) /\ row.text = text
    <3>0. text \in Seq(Nat)
      BY <1>1, <2>0
    <3>1. row \in MessageRows
      BY <1>1, <2>1, <3>0, NewMessageIs
    <3>2. p = Append(s, row)
      BY <1>3, <2>0, <2>1, ReducedMessages
    <3> QED BY <2>1, <3>1, <3>2 DEF NewMessage
  <2> HIDE DEF p
  <2>3. Len(p) = Len(s) + 1 /\ p[Len(s) + 1] = row /\ \A i \in 1..Len(s) : p[i] = s[i]
    BY <1>1, <2>2, AppendProperties
  <2>4. Grown(p, v, e)
    BY <1>3, <2>0, <2>2, <2>3 DEF Grown
  <2> QED BY <2>4 DEF p
<1>4. CASE e.kind = "delta" /\ Shown(v, MessageId(e))
  <2>1. p = [i \in DOMAIN s |->
               IF s[i].id = MessageId(e)
                 THEN NewMessage(v, e, s[i].role, MessageId(e), Append(s[i].text, e.n), TRUE)
                 ELSE s[i]]
    BY <1>4, ReducedMessages
  <2> HIDE DEF p
  <2>2. Len(p) = Len(s)
    BY <1>1, <2>1
  <2>3. \A i \in 1..Len(s) :
          /\ p[i].id = s[i].id
          /\ p[i].text = IF s[i].id = MessageId(e) THEN Append(s[i].text, e.n) ELSE s[i].text
          /\ s[i].id = MessageId(e) \/ p[i] = s[i]
    BY <1>1, <2>1 DEF NewMessage
  <2>4. Len(p) # Len(s) + 1
    BY <1>1, <2>2
  <2>5. Grown(p, v, e)
    BY <1>4, <2>2, <2>3, <2>4 DEF Grown
  <2> QED BY <2>5 DEF p
<1>5. CASE e.kind = "done"
  <2>1. p = [i \in DOMAIN s |-> IF s[i].id = MessageId(e) THEN [s[i] EXCEPT !.streaming = FALSE] ELSE s[i]]
    BY <1>5, ReducedMessages
  <2> HIDE DEF p
  <2>2. Len(p) = Len(s)
    BY <1>1, <2>1
  <2>3. \A m \in MessageRows :
          /\ [m EXCEPT !.streaming = FALSE].id = m.id /\ [m EXCEPT !.streaming = FALSE].text = m.text
          /\ [m EXCEPT !.streaming = FALSE].streaming = FALSE
    BY DEF MessageRows
  <2>4. \A i \in 1..Len(s) :
          /\ p[i].id = s[i].id /\ p[i].text = s[i].text
          /\ s[i].id = MessageId(e) => ~p[i].streaming
          /\ s[i].id # MessageId(e) => p[i] = s[i]
    BY <1>1, <2>1, <2>3
  <2>5. Len(p) # Len(s) + 1
    BY <1>1, <2>2
  <2>6. \A i \in 1..Len(s) : p[i].streaming => s[i].streaming
    BY <2>4
  <2>7. Grown(p, v, e)
    BY <1>5, <2>2, <2>4, <2>5, <2>6 DEF Grown
  <2> QED BY <2>7 DEF p
<1>6. CASE e.kind \in {"start", "ok", "failed", "stream", "note"} \/ (e.kind = "stage" /\ Shown(v, MessageId(e)))
  <2>1. p = s
    BY <1>6, ReducedMessages
  <2> HIDE DEF p
  <2>2. Len(p) # Len(s) + 1
    BY <1>1, <2>1
  <2>3. Grown(p, v, e)
    BY <1>6, <2>1, <2>2 DEF Grown
  <2> QED BY <2>3 DEF p
<1>7. e.kind \in Kinds \cup {"clear"}
  BY DEF Events
<1> QED BY <1>2, <1>3, <1>4, <1>5, <1>6, <1>7 DEF Kinds

(* What is shown of the answer, against the numbers of what was said.      *)
AnswerTold(messages, numbers, headless) ==
  /\ \A i \in 1..Len(messages) : messages[i].id = 0 => Quotes(messages[i].text, numbers, headless)
  /\ \/ numbers = {} \/ headless
     \/ \E i \in 1..Len(messages) : messages[i].id = 0

Lost(v, e) == e.kind = "clear" \/ \E l \in Lists : Len(ReducedEvent(v, e)[l]) > MaxRows

(* The answer's row quotes the deltas shown, after one more event too.     *)
LEMMA AnswerReduced ==
  ASSUME NEW v \in Views, NEW e \in Events, IdsOf(v.messages), e.n # 0,
         NEW numbers \in SUBSET Nat, NEW headless \in BOOLEAN, AnswerTold(v.messages, numbers, headless),
         e.kind = "delta" /\ e.by = "run" => \A m \in numbers : m < e.n,
         NEW numbers2, numbers2 = IF e.kind = "delta" /\ e.by = "run" THEN numbers \cup {e.n} ELSE numbers,
         NEW headless2 \in BOOLEAN, headless2 = (headless \/ Lost(v, e))
  PROVE  AnswerTold(Reduce(v, e).messages, numbers2, headless2)
<1>1. PICK s : s = v.messages
  OBVIOUS
<1>2. PICK p : p = ReducedEvent(v, e).messages
  OBVIOUS
<1>3. PICK r : r = Reduce(v, e).messages
  OBVIOUS
<1>4. /\ s \in Seq(MessageRows) /\ p \in Seq(MessageRows) /\ r \in Seq(MessageRows)
      /\ Len(s) \in Nat /\ Len(p) \in Nat /\ Len(r) \in Nat
      /\ \A i \in 1..Len(p) : p[i] \in MessageRows
      /\ e.n \in Nat
  <2>1. s \in Seq(MessageRows) /\ p \in Seq(MessageRows) /\ r \in Seq(MessageRows) /\ e.n \in Nat
    BY <1>1, <1>2, <1>3, MessagesReduced, ReduceIs DEF Views, Events
  <2> QED BY <2>1, LenProperties
<1>5. PICK d \in Nat :
        /\ d = 0 <=> Len(p) <= MaxRows
        /\ Len(p) = Len(r) + d
        /\ Len(r) <= MaxRows
        /\ \A i \in 1..Len(r) : r[i] = [p[i + d] EXCEPT !.text = TruncateText(@)]
  <2>1. \E d \in Nat :
              /\ d = 0 <=> Len(ReducedEvent(v, e).messages) <= MaxRows
              /\ Len(ReducedEvent(v, e).messages) = Len(Reduce(v, e).messages) + d
              /\ Len(Reduce(v, e).messages) <= MaxRows
              /\ \A i \in 1..Len(Reduce(v, e).messages) :
                   Reduce(v, e).messages[i] = [ReducedEvent(v, e).messages[i + d] EXCEPT !.text = TruncateText(@)]
    BY ReduceIs, Zenon
  <2> QED BY <1>2, <1>3, <2>1
<1>6. headless => headless2
  BY DEF Lost
<1>7. CASE e.kind = "clear"
  <2>1. headless2 /\ p = <<>>
    BY <1>2, <1>7, ReducedMessages DEF Lost
  <2>2. Len(r) = 0 /\ 1..0 = {}
    BY <1>4, <1>5, <2>1
  <2> QED BY <1>3, <2>1, <2>2 DEF AnswerTold
<1>8. CASE e.kind # "clear"
  <2>1. Grown(p, v, e)
    BY <1>2, <1>8, MessagesGrow
  <2>2. MessageId(e) = 0 <=> e.by = "run"
    BY DEF MessageId
  <2>3. \A i \in 1..Len(s) : s[i].id = 0 => s[i].role = "assistant"
    BY <1>1 DEF IdsOf
  <2>4. Shown(v, 0) <=> \E i \in 1..Len(s) : s[i].id = 0
    <3>1. DOMAIN s = 1..Len(s)
      BY <1>4
    <3> QED BY <1>1, <2>3, <3>1 DEF Shown
  <2>5. ASSUME NEW i \in 1..Len(p), p[i].id = 0
        PROVE  Quotes(TruncateText(p[i].text), numbers2, headless2)
    <3>1. CASE i \in 1..Len(s)
      <4>1. s[i].id = 0 /\ Quotes(s[i].text, numbers, headless)
        BY <1>1, <2>1, <2>5, <3>1 DEF Grown, AnswerTold
      <4>2. Quotes(s[i].text, numbers, headless2)
        BY <1>6, <4>1, QuotesMonotone
      <4>3. CASE e.kind = "delta" /\ e.by = "run"
        <5>1. p[i].text = Append(s[i].text, e.n)
          BY <1>1, <2>1, <2>2, <2>4, <3>1, <4>1, <4>3 DEF Grown
        <5> QED BY <1>4, <4>2, <4>3, <5>1, QuotesDelta
      <4>4. CASE ~(e.kind = "delta" /\ e.by = "run")
        <5>1. p[i].text = s[i].text /\ numbers2 = numbers
          BY <1>1, <2>1, <2>2, <3>1, <4>1, <4>4 DEF Grown
        <5> QED BY <4>2, <5>1, QuotesTruncated
      <4> QED BY <4>3, <4>4
    <3>2. CASE i \notin 1..Len(s)
      <4>1. i = Len(p) /\ Len(p) = Len(s) + 1
        BY <1>1, <1>4, <2>1, <3>2 DEF Grown
      <4>2. /\ e.kind \in {"stage", "delta"} /\ ~Shown(v, MessageId(e)) /\ MessageId(e) = 0
            /\ p[i].text = IF e.kind = "stage" THEN <<>> ELSE <<e.n>>
        BY <1>1, <2>1, <2>5, <4>1 DEF Grown
      <4>3. numbers = {} \/ headless2
        BY <1>1, <1>6, <2>4, <4>2 DEF AnswerTold
      <4>4. Quotes(p[i].text, numbers2, headless2)
        BY <1>4, <2>2, <4>2, <4>3, QuotesNothing, QuotesFirst
      <4> QED BY <4>4, QuotesTruncated
    <3> QED BY <3>1, <3>2
  <2>6. ASSUME NEW i \in 1..Len(r)
        PROVE  i + d \in 1..Len(p) /\ r[i].id = p[i + d].id /\ r[i].text = TruncateText(p[i + d].text)
    <3>1. i + d \in 1..Len(p) /\ p[i + d] \in MessageRows
      BY <1>4, <1>5
    <3>2. r[i] = [p[i + d] EXCEPT !.text = TruncateText(@)]
      BY <1>5
    <3> QED BY <3>1, <3>2 DEF MessageRows
  <2>7. \A i \in 1..Len(r) : r[i].id = 0 => Quotes(r[i].text, numbers2, headless2)
    BY <2>5, <2>6
  <2>8. numbers2 = {} \/ headless2 \/ \E i \in 1..Len(r) : r[i].id = 0
    <3> SUFFICES ASSUME numbers2 # {}, ~headless2
                 PROVE  \E i \in 1..Len(r) : r[i].id = 0
      OBVIOUS
    <3>1. Len(p) <= MaxRows
      <4>1. "messages" \in Lists /\ ~(Len(ReducedEvent(v, e).messages) > MaxRows)
        BY DEF Lost, Lists
      <4> QED BY <1>2, <1>4, <4>1, ViewAssumption
    <3>2. d = 0 /\ Len(r) = Len(p)
      BY <1>4, <1>5, <3>1
    <3>3. \E i \in 1..Len(p) : p[i].id = 0
      <4>1. CASE \E i \in 1..Len(s) : s[i].id = 0
        <5>1. PICK i \in 1..Len(s) : s[i].id = 0
          BY <4>1
        <5>2. i \in 1..Len(p) /\ p[i].id = 0
          BY <1>1, <1>4, <2>1, <5>1 DEF Grown
        <5> QED BY <5>2
      <4>2. CASE ~\E i \in 1..Len(s) : s[i].id = 0
        <5>1. numbers = {} /\ e.kind = "delta" /\ e.by = "run"
          BY <1>1, <1>6, <4>2 DEF AnswerTold
        <5>2. Len(p) = Len(s) + 1 /\ p[Len(p)].id = 0
          BY <1>1, <2>1, <2>2, <2>4, <4>2, <5>1 DEF Grown
        <5>3. Len(p) \in 1..Len(p)
          BY <1>4, <5>2
        <5> QED BY <5>2, <5>3
      <4> QED BY <4>1, <4>2
    <3>4. PICK i \in 1..Len(p) : p[i].id = 0
      BY <3>3
    <3>5. i \in 1..Len(r) /\ i + d = i
      BY <3>2
    <3> QED BY <2>6, <3>4, <3>5
  <2> QED BY <1>3, <2>7, <2>8 DEF AnswerTold
<1> QED BY <1>7, <1>8

(* An event forgets rows when it clears the view or a list outgrows its    *)
(* bound.                                                                  *)
LEMMA ForgetsIs == \A e \in Events : Forgets(e) <=> Lost(view, e)
BY DEF Forgets, Lost, Lists

(***************************************************************************)
(* What streams.                                                           *)
(***************************************************************************)

(* Only the answer of the run streams, and no longer than until it is done.*)
Stilled(messages, ems, k) ==
  /\ \A i \in 1..Len(messages) : messages[i].streaming => messages[i].id = 0
  /\ k > 0 /\ ems[k].kind = "done" => \A i \in 1..Len(messages) : ~messages[i].streaming

(* What streams after an event streamed before it, or is the answer it adds*)
(* to.                                                                     *)
LEMMA StreamingReduced ==
  ASSUME NEW v \in Views, NEW e \in Events, NEW i \in 1..Len(Reduce(v, e).messages),
         Reduce(v, e).messages[i].streaming
  PROVE  LET m == Reduce(v, e).messages[i] IN
         /\ \/ m.id = MessageId(e) /\ e.kind \in {"stage", "delta"}
            \/ \E j \in 1..Len(v.messages) : v.messages[j].streaming /\ v.messages[j].id = m.id
         /\ e.kind = "done" => m.id # MessageId(e)
         /\ e.kind # "clear"
<1>1. PICK s : s = v.messages
  OBVIOUS
<1>2. PICK p : p = ReducedEvent(v, e).messages
  OBVIOUS
<1>3. PICK r : r = Reduce(v, e).messages
  OBVIOUS
<1>4. /\ s \in Seq(MessageRows) /\ p \in Seq(MessageRows) /\ r \in Seq(MessageRows)
      /\ Len(s) \in Nat /\ Len(p) \in Nat /\ Len(r) \in Nat
      /\ \A h \in 1..Len(p) : p[h] \in MessageRows
  <2>1. s \in Seq(MessageRows) /\ p \in Seq(MessageRows) /\ r \in Seq(MessageRows)
    BY <1>1, <1>2, <1>3, MessagesReduced, ReduceIs DEF Views
  <2> QED BY <2>1, LenProperties
<1>5. PICK d \in Nat :
        /\ d = 0 <=> Len(p) <= MaxRows
        /\ Len(p) = Len(r) + d
        /\ Len(r) <= MaxRows
        /\ \A h \in 1..Len(r) : r[h] = [p[h + d] EXCEPT !.text = TruncateText(@)]
  <2>1. \E d \in Nat :
              /\ d = 0 <=> Len(ReducedEvent(v, e).messages) <= MaxRows
              /\ Len(ReducedEvent(v, e).messages) = Len(Reduce(v, e).messages) + d
              /\ Len(Reduce(v, e).messages) <= MaxRows
              /\ \A h \in 1..Len(Reduce(v, e).messages) :
                   Reduce(v, e).messages[h] = [ReducedEvent(v, e).messages[h + d] EXCEPT !.text = TruncateText(@)]
    BY ReduceIs, Zenon
  <2> QED BY <1>2, <1>3, <2>1
<1>6. i \in 1..Len(r) /\ i \in Nat
  BY <1>3, <1>4
<1>7. PICK h \in 1..Len(p) : h = i + d
  BY <1>4, <1>5, <1>6
<1>8. r[i].id = p[h].id /\ p[h].streaming
  <2>1. r[i] = [p[h] EXCEPT !.text = TruncateText(@)] /\ p[h] \in MessageRows /\ r[i].streaming
    BY <1>3, <1>4, <1>5, <1>6, <1>7
  <2> QED BY <2>1 DEF MessageRows
<1>9. e.kind # "clear"
  <2>1. e.kind = "clear" => p = <<>>
    BY <1>2, ReducedMessages
  <2>2. Len(p) # 0
    BY <1>4, <1>7
  <2> QED BY <2>1, <2>2
<1>10. Grown(p, v, e)
  BY <1>2, <1>9, MessagesGrow
<1>11. CASE h \in 1..Len(s)
  <2>1. p[h].id = s[h].id /\ (s[h].streaming \/ (e.kind = "delta" /\ s[h].id = MessageId(e)))
        /\ (e.kind = "done" => s[h].id # MessageId(e))
    BY <1>1, <1>8, <1>10, <1>11 DEF Grown
  <2> QED BY <1>1, <1>3, <1>8, <1>9, <1>11, <2>1
<1>12. CASE h \notin 1..Len(s)
  <2>1. h = Len(p) /\ Len(p) = Len(s) + 1
    BY <1>1, <1>4, <1>7, <1>10, <1>12 DEF Grown
  <2>2. e.kind \in {"stage", "delta"} /\ p[h].id = MessageId(e)
    BY <1>1, <1>8, <1>10, <2>1 DEF Grown
  <2> QED BY <1>3, <1>8, <1>9, <2>2
<1> QED BY <1>11, <1>12

(* The next event of the run arrives.                                      *)
LEMMA ArrivalStilled ==
  ASSUME NEW v \in Views, NEW ems, NEW k \in Nat, ems[k + 1] \in Events, ems[k + 1].by = "run",
         k > 0 => ems[k].kind # "done", Stilled(v.messages, ems, k)
  PROVE  Stilled(Reduce(v, ems[k + 1]).messages, ems, k + 1)
<1>1. PICK e : e = ems[k + 1]
  OBVIOUS
<1>2. PICK r : r = Reduce(v, e)
  OBVIOUS
<1>3. e \in Events /\ MessageId(e) = 0
  BY <1>1 DEF MessageId
<1>4. ASSUME NEW i \in 1..Len(r.messages), r.messages[i].streaming
      PROVE  r.messages[i].id = 0 /\ (e.kind = "done" => r.messages[i].id # 0)
  <2>1. /\ \/ r.messages[i].id = MessageId(e)
           \/ \E j \in 1..Len(v.messages) : v.messages[j].streaming /\ v.messages[j].id = r.messages[i].id
        /\ e.kind = "done" => r.messages[i].id # MessageId(e)
    BY <1>2, <1>3, <1>4, StreamingReduced
  <2> QED BY <1>3, <2>1 DEF Stilled
<1>5. Stilled(r.messages, ems, k + 1)
  BY <1>1, <1>4 DEF Stilled
<1> QED BY <1>1, <1>2, <1>5

(* An event of the CLI that places no answer.                              *)
LEMMA DirectStilled ==
  ASSUME NEW v \in Views, NEW e \in Events, e.kind \in {"error", "clear"},
         NEW ems, NEW k \in Nat, Stilled(v.messages, ems, k)
  PROVE  Stilled(Reduce(v, e).messages, ems, k)
<1>1. PICK r : r = Reduce(v, e)
  OBVIOUS
<1>2. ASSUME NEW i \in 1..Len(r.messages), r.messages[i].streaming
      PROVE  \E j \in 1..Len(v.messages) : v.messages[j].streaming /\ v.messages[j].id = r.messages[i].id
  BY <1>1, <1>2, StreamingReduced
<1>3. Stilled(r.messages, ems, k)
  BY <1>2 DEF Stilled
<1> QED BY <1>1, <1>3

(* A notice of the CLI is ended in the same call.                          *)
LEMMA NoticeStilled ==
  ASSUME NEW v \in Views, NEW e \in Events, NEW f \in Events, e.kind = "delta", e.by = "cli",
         f = [e EXCEPT !.kind = "done"],
         NEW ems, NEW k \in Nat, Stilled(v.messages, ems, k)
  PROVE  Stilled(Reduce(Reduce(v, e), f).messages, ems, k)
<1>1. PICK w : w = Reduce(v, e)
  OBVIOUS
<1>2. PICK r : r = Reduce(w, f)
  OBVIOUS
<1>3. w \in Views /\ f.kind = "done" /\ MessageId(f) = MessageId(e)
  BY <1>1, ReduceIs DEF Events, MessageId
<1>4. ASSUME NEW i \in 1..Len(r.messages), r.messages[i].streaming
      PROVE  \E j \in 1..Len(v.messages) : v.messages[j].streaming /\ v.messages[j].id = r.messages[i].id
  <2>1. /\ \/ r.messages[i].id = MessageId(f) /\ f.kind \in {"stage", "delta"}
           \/ \E j \in 1..Len(w.messages) : w.messages[j].streaming /\ w.messages[j].id = r.messages[i].id
        /\ f.kind = "done" => r.messages[i].id # MessageId(f)
    BY <1>2, <1>3, <1>4, StreamingReduced
  <2>2. PICK j \in 1..Len(w.messages) : w.messages[j].streaming /\ w.messages[j].id = r.messages[i].id
    BY <1>3, <2>1
  <2>3. \/ w.messages[j].id = MessageId(e)
        \/ \E h \in 1..Len(v.messages) : v.messages[h].streaming /\ v.messages[h].id = w.messages[j].id
    BY <1>1, <2>2, StreamingReduced
  <2> QED BY <1>3, <2>1, <2>2, <2>3
<1>5. Stilled(r.messages, ems, k)
  BY <1>4 DEF Stilled
<1> QED BY <1>1, <1>2, <1>5

(***************************************************************************)
(* What a tool row relays.                                                 *)
(***************************************************************************)

(* The streams kept of a call relay the latest of its output.              *)
Relays(streams, numbers) ==
  /\ streams \in Seq(Nat) /\ Len(streams) <= MaxText
  /\ \A i, j \in 1..Len(streams) : i < j => streams[i] < streams[j]
  /\ \A i \in 1..Len(streams) : streams[i] \in numbers
  /\ \A n \in numbers :
       \/ \E i \in 1..Len(streams) : streams[i] = n
       \/ Len(streams) = MaxText /\ \A i \in 1..Len(streams) : n < streams[i]

(* The latest of a relayed stream relay it.                                *)
LEMMA RelaysLatest ==
  ASSUME NEW t, NEW numbers, Relays(t, numbers)
  PROVE  Relays(Latest(t, MaxText), numbers)
<1>1. t \in Seq(Nat) /\ MaxText \in Nat /\ Len(t) \in Nat /\ Len(t) <= MaxText
  BY ViewAssumption, LenProperties DEF Relays
<1>2. PICK u : u = Latest(t, MaxText)
  OBVIOUS
<1>3. /\ u \in Seq(Nat)
      /\ \E d \in Nat :
           /\ d = IF Len(t) > MaxText THEN Len(t) - MaxText ELSE 0
           /\ Len(t) = Len(u) + d
           /\ \A i \in 1..Len(u) : u[i] = t[i + d]
  BY <1>1, <1>2, LatestIs
<1>4. Len(u) = Len(t) /\ \A i \in 1..Len(u) : u[i] = t[i]
  <2>0. Len(u) \in Nat
    BY <1>3, LenProperties
  <2>1. PICK d \in Nat :
           /\ d = IF Len(t) > MaxText THEN Len(t) - MaxText ELSE 0
           /\ Len(t) = Len(u) + d
           /\ \A i \in 1..Len(u) : u[i] = t[i + d]
    BY <1>3
  <2>2. d = 0
    BY <1>1, <2>1
  <2>3. \A i \in 1..Len(u) : i + d = i
    BY <2>2
  <2> QED BY <1>1, <2>0, <2>1, <2>2, <2>3
<1>5. Relays(u, numbers)
  BY <1>3, <1>4 DEF Relays
<1> QED BY <1>2, <1>5

(* No output relays no output.                                             *)
LEMMA RelaysNothing == Relays(<<>>, {})
<1>1. <<>> \in Seq(Nat) /\ Len(<<>>) = 0 /\ MaxText \in Nat /\ 1..0 = {}
  BY ViewAssumption
<1> QED BY <1>1 DEF Relays

(* The next output follows what was relayed.                               *)
LEMMA RelaysNext ==
  ASSUME NEW t, NEW numbers \in SUBSET Nat, Relays(t, numbers),
         NEW n \in Nat, \A m \in numbers : m < n
  PROVE  Relays(Latest(Append(t, n), MaxText), numbers \cup {n})
<1>1. t \in Seq(Nat) /\ MaxText \in Nat /\ MaxText > 0 /\ Len(t) \in Nat /\ Len(t) <= MaxText
  BY ViewAssumption, LenProperties DEF Relays
<1>2. PICK a : a = Append(t, n)
  OBVIOUS
<1>3. a \in Seq(Nat) /\ Len(a) = Len(t) + 1 /\ (\A i \in 1..Len(t) : a[i] = t[i]) /\ a[Len(t) + 1] = n
  BY <1>1, <1>2, AppendProperties
<1>4. PICK u : u = Latest(a, MaxText)
  OBVIOUS
<1>5. /\ u \in Seq(Nat)
      /\ \E d \in Nat :
           /\ d = IF Len(a) > MaxText THEN Len(a) - MaxText ELSE 0
           /\ Len(a) = Len(u) + d
           /\ \A i \in 1..Len(u) : u[i] = a[i + d]
  <2>1. a \in Seq(Nat) /\ MaxText \in Nat
    BY <1>1, <1>3
  <2> QED BY <1>4, <2>1, LatestIs
<1>6. PICK d \in Nat :
           /\ d = IF Len(a) > MaxText THEN Len(a) - MaxText ELSE 0
           /\ Len(a) = Len(u) + d
           /\ \A i \in 1..Len(u) : u[i] = a[i + d]
  BY <1>5
<1>7. Len(u) \in Nat
  BY <1>5, LenProperties
<1>8. d \in {0, 1} /\ (d = 1 <=> Len(t) = MaxText) /\ Len(u) = Len(t) + 1 - d /\ Len(u) <= MaxText /\ Len(u) > 0
  BY <1>1, <1>3, <1>6, <1>7
<1>9. \A i \in 1..Len(a) : \A j \in 1..Len(a) : i < j => a[i] < a[j]
  <2> SUFFICES ASSUME NEW i \in 1..Len(a), NEW j \in 1..Len(a), i < j
               PROVE  a[i] < a[j]
    OBVIOUS
  <2>1. i \in 1..Len(t)
    BY <1>1, <1>3
  <2>2. CASE j \in 1..Len(t)
    BY <1>3, <2>1, <2>2 DEF Relays
  <2>3. CASE j = Len(t) + 1
    BY <1>3, <2>1, <2>3 DEF Relays
  <2> QED BY <1>1, <1>3, <2>2, <2>3
<1>10. \A i \in 1..Len(a) : a[i] \in numbers \cup {n} /\ a[i] \in Nat
  <2> TAKE i \in 1..Len(a)
  <2>1. CASE i \in 1..Len(t)
    BY <1>3, <2>1 DEF Relays
  <2>2. CASE i = Len(t) + 1
    BY <1>3, <2>2
  <2> QED BY <1>1, <1>3, <2>1, <2>2
<1>11. \A i \in 1..Len(u) : i + d \in 1..Len(a)
  BY <1>6, <1>7
<1>12. \A i, j \in 1..Len(u) : i < j => u[i] < u[j]
  <2> SUFFICES ASSUME NEW i \in 1..Len(u), NEW j \in 1..Len(u), i < j
               PROVE  u[i] < u[j]
    OBVIOUS
  <2>1. i + d \in 1..Len(a) /\ j + d \in 1..Len(a) /\ i + d < j + d
    BY <1>11
  <2>2. a[i + d] < a[j + d]
    BY <1>9, <2>1
  <2> QED BY <1>6, <2>2
<1>13. \A i \in 1..Len(u) : u[i] \in numbers \cup {n}
  BY <1>6, <1>10, <1>11
<1>14. ASSUME NEW m \in numbers \cup {n}
       PROVE  \/ \E i \in 1..Len(u) : u[i] = m
              \/ Len(u) = MaxText /\ \A i \in 1..Len(u) : m < u[i]
  <2>1. CASE \E h \in 1..Len(a) : a[h] = m
    <3>1. PICK h \in 1..Len(a) : a[h] = m
      BY <2>1
    <3>2. CASE h > d
      <4>1. PICK i \in 1..Len(u) : i + d = h
        <5>1. h - d \in 1..Len(u) /\ (h - d) + d = h
          BY <1>3, <1>6, <1>7, <3>2
        <5> QED BY <5>1
      <4>2. u[i] = m
        BY <1>6, <3>1, <4>1
      <4> QED BY <4>2
    <3>3. CASE ~(h > d)
      <4>1. d = 1 /\ h = 1 /\ Len(u) = MaxText
        BY <1>1, <1>3, <1>8, <3>1, <3>3
      <4>2. ASSUME NEW i \in 1..Len(u) PROVE m < u[i]
        <5>1. i + d \in 1..Len(a) /\ h < i + d
          BY <1>11, <4>1
        <5>2. a[h] < a[i + d]
          BY <1>9, <5>1
        <5> QED BY <1>6, <3>1, <5>2
      <4> QED BY <4>1, <4>2
    <3> QED BY <3>2, <3>3
  <2>2. CASE ~\E h \in 1..Len(a) : a[h] = m
    <3>1. m # n
      <4>1. Len(t) + 1 \in 1..Len(a)
        BY <1>1, <1>3
      <4> QED BY <1>3, <2>2, <4>1
    <3>2. m \in numbers /\ ~\E i \in 1..Len(t) : t[i] = m
      <4>1. \A i \in 1..Len(t) : i \in 1..Len(a)
        BY <1>1, <1>3
      <4> QED BY <1>3, <2>2, <3>1, <4>1
    <3>3. Len(t) = MaxText /\ \A i \in 1..Len(t) : m < t[i]
      BY <3>2 DEF Relays
    <3>4. \A h \in 1..Len(a) : m < a[h]
      <4> TAKE h \in 1..Len(a)
      <4>1. CASE h \in 1..Len(t)
        BY <1>3, <3>3, <4>1
      <4>2. CASE h = Len(t) + 1
        BY <1>3, <3>2, <4>2
      <4> QED BY <1>1, <1>3, <4>1, <4>2
    <3>5. Len(u) = MaxText
      BY <1>1, <1>8, <3>3
    <3> QED BY <1>6, <1>11, <3>4, <3>5
  <2> QED BY <2>1, <2>2
<1>15. Relays(u, numbers \cup {n})
  BY <1>5, <1>8, <1>12, <1>13, <1>14 DEF Relays
<1> QED BY <1>2, <1>4, <1>15

Begins(e, c) == e.kind = "start" /\ e.call = c

LatestBegin(ems, k, c, s) == Begins(ems[s], c) /\ \A j \in (s + 1)..k : ~Begins(ems[j], c)

Ended(ems, s, k, c, kind) == \E j \in s..k : ems[j].kind = kind /\ ems[j].call = c

Output(ems, s, k, c) == {ems[i].n : i \in {j \in s..k : ems[j].kind = "stream" /\ ems[j].call = c}}

StatusOf(ems, s, k, c) ==
  IF Ended(ems, s, k, c, "ok") THEN "success"
  ELSE IF Ended(ems, s, k, c, "failed") THEN "error" ELSE "running"

(* A call as the first k events tell of it.                                *)
CallTold(id, status, streams, ems, k) ==
  \E s \in 1..k :
    /\ LatestBegin(ems, k, id, s)
    /\ status = StatusOf(ems, s, k, id)
    /\ Relays(streams, Output(ems, s, k, id))

(* An event that is not about the call.                                    *)
LEMMA CallPasses ==
  ASSUME NEW id, NEW status, NEW streams, NEW ems, NEW k \in Nat, CallTold(id, status, streams, ems, k),
         ems[k + 1].call # id \/ ems[k + 1].kind \notin {"start", "ok", "failed", "stream"}
  PROVE  CallTold(id, status, streams, ems, k + 1)
<1>1. PICK s \in 1..k : /\ LatestBegin(ems, k, id, s)
                        /\ status = StatusOf(ems, s, k, id)
                        /\ Relays(streams, Output(ems, s, k, id))
  BY DEF CallTold
<1>2. s \in 1..(k + 1) /\ \A j \in s..(k + 1) : j \in s..k \/ j = k + 1
  BY <1>1
<1>3. \A j \in (s + 1)..(k + 1) : j \in (s + 1)..k \/ j = k + 1
  BY <1>1
<1>4. \A j \in s..k : j \in s..(k + 1)
  BY <1>1
<1>5. LatestBegin(ems, k + 1, id, s)
  BY <1>1, <1>3 DEF LatestBegin, Begins
<1>6. \A kind \in {"ok", "failed"} : Ended(ems, s, k + 1, id, kind) <=> Ended(ems, s, k, id, kind)
  BY <1>2, <1>4 DEF Ended
<1>7. StatusOf(ems, s, k + 1, id) = StatusOf(ems, s, k, id)
  BY <1>6 DEF StatusOf
<1>8. {j \in s..(k + 1) : ems[j].kind = "stream" /\ ems[j].call = id}
        = {j \in s..k : ems[j].kind = "stream" /\ ems[j].call = id}
  BY <1>2, <1>4
<1>9. Output(ems, s, k + 1, id) = Output(ems, s, k, id)
  BY <1>8 DEF Output
<1> QED BY <1>1, <1>2, <1>5, <1>7, <1>9 DEF CallTold

(* The call begins, anew if its id was used before.                        *)
LEMMA CallBegins ==
  ASSUME NEW id, NEW ems, NEW k \in Nat, Begins(ems[k + 1], id)
  PROVE  CallTold(id, "running", <<>>, ems, k + 1)
<1>0. PICK s : s = k + 1
  OBVIOUS
<1>1. s \in 1..s /\ s..s = {s} /\ (s + 1)..s = {}
  BY <1>0
<1>2. LatestBegin(ems, s, id, s)
  BY <1>0, <1>1 DEF LatestBegin
<1>3. StatusOf(ems, s, s, id) = "running"
  BY <1>0, <1>1 DEF StatusOf, Ended, Begins
<1>4. {j \in s..s : ems[j].kind = "stream" /\ ems[j].call = id} = {}
  BY <1>0, <1>1 DEF Begins
<1>5. Output(ems, s, s, id) = {}
  BY <1>4 DEF Output
<1>6. CallTold(id, "running", <<>>, ems, s)
  BY <1>1, <1>2, <1>3, <1>5, RelaysNothing DEF CallTold
<1> QED BY <1>0, <1>6

(* The call ends: it had not ended since it began.                         *)
LEMMA CallEnds ==
  ASSUME NEW id, NEW status, NEW streams, NEW ems, NEW k \in Nat, CallTold(id, status, streams, ems, k),
         ems[k + 1].call = id, ems[k + 1].kind \in {"ok", "failed"},
         \E i \in 1..k : Begins(ems[i], id) /\ \A h \in (i + 1)..k : ems[h].kind = "stream"
  PROVE  CallTold(id, IF ems[k + 1].kind = "ok" THEN "success" ELSE "error", streams, ems, k + 1)
<1>1. PICK s \in 1..k : /\ LatestBegin(ems, k, id, s)
                        /\ Relays(streams, Output(ems, s, k, id))
  BY DEF CallTold
<1>2. PICK i \in 1..k : Begins(ems[i], id) /\ \A h \in (i + 1)..k : ems[h].kind = "stream"
  OBVIOUS
<1>3. i = s
  <2>1. ~(i > s)
    <3>1. i > s => i \in (s + 1)..k
      BY <1>1, <1>2
    <3> QED BY <1>1, <1>2, <3>1 DEF LatestBegin
  <2>2. ~(s > i)
    <3>1. s > i => s \in (i + 1)..k
      BY <1>1, <1>2
    <3> QED BY <1>1, <1>2, <3>1 DEF LatestBegin, Begins
  <2> QED BY <1>1, <1>2, <2>1, <2>2
<1>4. \A j \in s..(k + 1) : j = s \/ j \in (s + 1)..k \/ j = k + 1
  BY <1>1
<1>5. s \in 1..(k + 1) /\ k + 1 \in s..(k + 1)
  BY <1>1
<1>6. \A j \in (s + 1)..(k + 1) : j \in (s + 1)..k \/ j = k + 1
  BY <1>1
<1>7. LatestBegin(ems, k + 1, id, s)
  BY <1>1, <1>6 DEF LatestBegin, Begins
<1>8. \A kind \in {"ok", "failed"} : Ended(ems, s, k + 1, id, kind) <=> kind = ems[k + 1].kind
  BY <1>2, <1>3, <1>4, <1>5 DEF Ended, Begins
<1>9. StatusOf(ems, s, k + 1, id) = IF ems[k + 1].kind = "ok" THEN "success" ELSE "error"
  BY <1>8 DEF StatusOf
<1>10. {j \in s..(k + 1) : ems[j].kind = "stream" /\ ems[j].call = id}
        = {j \in s..k : ems[j].kind = "stream" /\ ems[j].call = id}
  BY <1>1
<1>11. Output(ems, s, k + 1, id) = Output(ems, s, k, id)
  BY <1>10 DEF Output
<1> QED BY <1>1, <1>5, <1>7, <1>9, <1>11 DEF CallTold

(* The call puts out something more.                                       *)
LEMMA CallStreams ==
  ASSUME NEW id, NEW status, NEW streams, NEW ems, NEW k \in Nat, CallTold(id, status, streams, ems, k),
         ems[k + 1].call = id, ems[k + 1].kind = "stream",
         \A i \in 1..(k + 1) : ems[i].n \in Nat,
         \A i \in 1..k : ems[i].n < ems[k + 1].n
  PROVE  CallTold(id, status, Latest(Append(streams, ems[k + 1].n), MaxText), ems, k + 1)
<1>1. PICK s \in 1..k : /\ LatestBegin(ems, k, id, s)
                        /\ status = StatusOf(ems, s, k, id)
                        /\ Relays(streams, Output(ems, s, k, id))
  BY DEF CallTold
<1>2. /\ s \in 1..(k + 1) /\ k + 1 \in s..(k + 1)
      /\ (\A j \in s..(k + 1) : j \in s..k \/ j = k + 1)
      /\ \A j \in s..k : j \in 1..k /\ j \in s..(k + 1)
  BY <1>1
<1>3. \A j \in (s + 1)..(k + 1) : j \in (s + 1)..k \/ j = k + 1
  BY <1>1
<1>4. LatestBegin(ems, k + 1, id, s)
  BY <1>1, <1>3 DEF LatestBegin, Begins
<1>5. \A kind \in {"ok", "failed"} : Ended(ems, s, k + 1, id, kind) <=> Ended(ems, s, k, id, kind)
  BY <1>2 DEF Ended
<1>6. StatusOf(ems, s, k + 1, id) = StatusOf(ems, s, k, id)
  BY <1>5 DEF StatusOf
<1>7. PICK n : n = ems[k + 1].n
  OBVIOUS
<1>8. PICK out : out = Output(ems, s, k, id)
  OBVIOUS
<1>9. Output(ems, s, k + 1, id) = out \cup {n}
  BY <1>2, <1>7, <1>8 DEF Output
<1>10. n \in Nat /\ out \in SUBSET Nat /\ \A m \in out : m < n
  <2>1. \A m \in out : \E j \in 1..k : m = ems[j].n
    BY <1>2, <1>8 DEF Output
  <2>2. \A j \in 1..k : j \in 1..(k + 1)
    OBVIOUS
  <2>3. k + 1 \in 1..(k + 1)
    OBVIOUS
  <2> QED BY <1>7, <2>1, <2>2, <2>3
<1>11. Relays(Latest(Append(streams, n), MaxText), out \cup {n})
  BY <1>1, <1>8, <1>10, RelaysNext
<1> QED BY <1>1, <1>2, <1>4, <1>6, <1>7, <1>9, <1>11 DEF CallTold

(* A call is told by the latest of its streams.                            *)
LEMMA CallLatest ==
  ASSUME NEW id, NEW status, NEW streams, NEW ems, NEW k \in Nat, CallTold(id, status, streams, ems, k)
  PROVE  CallTold(id, status, Latest(streams, MaxText), ems, k)
BY RelaysLatest DEF CallTold

(* Only the first k events count.                                          *)
LEMMA CallSame ==
  ASSUME NEW id, NEW status, NEW streams, NEW ems, NEW ems2, NEW k \in Nat,
         \A i \in 1..k : ems2[i] = ems[i],
         CallTold(id, status, streams, ems, k)
  PROVE  CallTold(id, status, streams, ems2, k)
<1>1. PICK s \in 1..k : /\ LatestBegin(ems, k, id, s)
                        /\ status = StatusOf(ems, s, k, id)
                        /\ Relays(streams, Output(ems, s, k, id))
  BY DEF CallTold
<1>2. \A j \in s..k : ems2[j] = ems[j]
  BY <1>1
<1>3. \A j \in (s + 1)..k : j \in s..k
  BY <1>1
<1>4. LatestBegin(ems2, k, id, s)
  BY <1>1, <1>2, <1>3 DEF LatestBegin
<1>5. StatusOf(ems2, s, k, id) = StatusOf(ems, s, k, id)
  BY <1>2 DEF StatusOf, Ended
<1>6. {j \in s..k : ems2[j].kind = "stream" /\ ems2[j].call = id}
        = {j \in s..k : ems[j].kind = "stream" /\ ems[j].call = id}
  BY <1>2
<1>7. Output(ems2, s, k, id) = Output(ems, s, k, id)
  BY <1>2, <1>6 DEF Output
<1> QED BY <1>1, <1>4, <1>5, <1>7 DEF CallTold

(* The tool rows, each as told, and one for every call unless rows were    *)
(* lost.                                                                   *)
RowsTold(tools, ems, k) ==
  \A i \in 1..Len(tools) : CallTold(tools[i].id, tools[i].status, tools[i].streams, ems, k)

RowsKept(tools, ems, k) ==
  \A i \in 1..Len(tools) : CallTold(tools[i].id, tools[i].status, Latest(tools[i].streams, MaxText), ems, k)

CallsHaveRows(tools, ems, k) ==
  \A i \in 1..k : ems[i].kind = "start" => \E j \in 1..Len(tools) : tools[j].id = ems[i].call

ToolsTold(tools, ems, k, lost) ==
  /\ RowsTold(tools, ems, k)
  /\ lost \/ CallsHaveRows(tools, ems, k)

(* Compaction keeps the rows true, and all of them unless some are lost.   *)
LEMMA ToolsCompacted ==
  ASSUME NEW v \in Views, NEW e \in Events, NEW ems, NEW k \in Nat,
         RowsKept(ReducedEvent(v, e).tools, ems, k),
         NEW lost \in BOOLEAN, lost \/ CallsHaveRows(ReducedEvent(v, e).tools, ems, k),
         Lost(v, e) => lost
  PROVE  ToolsTold(Reduce(v, e).tools, ems, k, lost)
<1>2. PICK p : p = ReducedEvent(v, e).tools
  OBVIOUS
<1>3. PICK r : r = Reduce(v, e).tools
  OBVIOUS
<1>4. /\ p \in Seq(ToolRows) /\ r \in Seq(ToolRows) /\ Len(p) \in Nat /\ Len(r) \in Nat
      /\ \A i \in 1..Len(p) : p[i] \in ToolRows
  <2>1. p \in Seq(ToolRows) /\ r \in Seq(ToolRows)
    BY <1>2, <1>3, ToolsReduced, ReduceIs DEF Views
  <2> QED BY <2>1, LenProperties
<1>5. PICK d \in Nat :
        /\ d = 0 <=> Len(p) <= MaxRows
        /\ Len(p) = Len(r) + d
        /\ Len(r) <= MaxRows
        /\ \A i \in 1..Len(r) : r[i] = [p[i + d] EXCEPT !.streams = Latest(@, MaxText)]
  <2>1. \E d \in Nat :
              /\ d = 0 <=> Len(ReducedEvent(v, e).tools) <= MaxRows
              /\ Len(ReducedEvent(v, e).tools) = Len(Reduce(v, e).tools) + d
              /\ Len(Reduce(v, e).tools) <= MaxRows
              /\ \A i \in 1..Len(Reduce(v, e).tools) :
                   Reduce(v, e).tools[i] = [ReducedEvent(v, e).tools[i + d] EXCEPT !.streams = Latest(@, MaxText)]
    BY ReduceIs, Zenon
  <2> QED BY <1>2, <1>3, <2>1
<1>6. ASSUME NEW i \in 1..Len(r)
      PROVE  /\ i + d \in 1..Len(p) /\ r[i].id = p[i + d].id /\ r[i].status = p[i + d].status
             /\ r[i].streams = Latest(p[i + d].streams, MaxText)
  <2>1. i + d \in 1..Len(p) /\ p[i + d] \in ToolRows
    BY <1>4, <1>5
  <2>2. r[i] = [p[i + d] EXCEPT !.streams = Latest(@, MaxText)]
    BY <1>5
  <2> QED BY <2>1, <2>2 DEF ToolRows
<1>7. RowsTold(r, ems, k)
  <2> SUFFICES ASSUME NEW i \in 1..Len(r)
               PROVE  CallTold(r[i].id, r[i].status, r[i].streams, ems, k)
    BY DEF RowsTold
  <2>1. PICK h \in 1..Len(p) : h = i + d
    BY <1>6
  <2>2. CallTold(p[h].id, p[h].status, Latest(p[h].streams, MaxText), ems, k)
    BY <1>2 DEF RowsKept
  <2> QED BY <1>6, <2>1, <2>2
<1>8. lost \/ CallsHaveRows(r, ems, k)
  <2> SUFFICES ASSUME ~lost PROVE CallsHaveRows(r, ems, k)
    OBVIOUS
  <2>1. Len(p) <= MaxRows
    <3>1. "tools" \in Lists /\ ~(Len(ReducedEvent(v, e).tools) > MaxRows)
      BY DEF Lost, Lists
    <3> QED BY <1>2, <1>4, <3>1, ViewAssumption
  <2>2. d = 0 /\ Len(r) = Len(p)
    BY <1>4, <1>5, <2>1
  <2>3. \A i \in 1..Len(r) : i + d = i
    BY <2>2
  <2>4. CallsHaveRows(p, ems, k)
    BY <1>2
  <2> QED BY <1>6, <2>2, <2>3, <2>4 DEF CallsHaveRows
<1> QED BY <1>3, <1>7, <1>8 DEF ToolsTold

(* The next event of the run arrives.                                      *)
LEMMA ArrivalTold ==
  ASSUME NEW v \in Views, NEW ems, NEW k \in Nat,
         \A i \in 1..(k + 1) : ems[i] \in Events, ems[k + 1].kind # "clear",
         \A i \in 1..k : ems[i].n < ems[k + 1].n,
         ems[k + 1].kind \in {"ok", "failed"} =>
           \E i \in 1..k : Begins(ems[i], ems[k + 1].call) /\ \A h \in (i + 1)..k : ems[h].kind = "stream",
         NEW lost \in BOOLEAN, NEW lost2 \in BOOLEAN, ToolsTold(v.tools, ems, k, lost),
         lost2 = (lost \/ Lost(v, ems[k + 1]))
  PROVE  ToolsTold(Reduce(v, ems[k + 1]).tools, ems, k + 1, lost2)
<1>0. PICK e : e = ems[k + 1]
  OBVIOUS
<1>1. e \in Events /\ e.n \in Nat /\ k + 1 \in Nat
  <2>1. k + 1 \in 1..(k + 1)
    OBVIOUS
  <2> QED BY <1>0, <2>1 DEF Events
<1>2. PICK p : p = ReducedEvent(v, e).tools
  OBVIOUS
<1>3. PICK s : s = v.tools
  OBVIOUS
<1>4. /\ p \in Seq(ToolRows) /\ s \in Seq(ToolRows) /\ Len(p) \in Nat /\ Len(s) \in Nat
      /\ (\A i \in 1..Len(s) : s[i] \in ToolRows)
      /\ DOMAIN s = 1..Len(s) /\ DOMAIN p = 1..Len(p)
  <2>1. p \in Seq(ToolRows) /\ s \in Seq(ToolRows)
    BY <1>1, <1>2, <1>3, ToolsReduced DEF Views
  <2> QED BY <2>1, LenProperties
<1>5. RowsTold(s, ems, k) /\ (lost \/ CallsHaveRows(s, ems, k))
  BY <1>3 DEF ToolsTold
<1>6. \A i \in 1..(k + 1) : i \in 1..k \/ i = k + 1
  OBVIOUS
<1>7. ASSUME NEW i \in 1..Len(s), s[i].id # e.call \/ e.kind \notin {"start", "ok", "failed", "stream"}
      PROVE  CallTold(s[i].id, s[i].status, s[i].streams, ems, k + 1)
  BY <1>0, <1>5, <1>7, CallPasses DEF RowsTold
<1>8. RowsTold(p, ems, k + 1) => RowsKept(p, ems, k + 1)
  BY <1>1, CallLatest DEF RowsTold, RowsKept
<1>9. CASE e.kind = "start"
  <2>1. PICK kept : kept = {i \in DOMAIN s : s[i].id # e.call}
    OBVIOUS
  <2>2. PICK f : f = Filtered(s, kept)
    OBVIOUS
  <2>3. p = Append(f, NewTool(v, e))
    BY <1>1, <1>2, <1>3, <1>9, <2>1, <2>2, ReducedTools
  <2>4. kept \in SUBSET (1..Len(s))
    BY <1>4, <2>1
  <2>5. f \in Seq(ToolRows) /\ Len(f) \in Nat
    BY <1>4, <2>2, <2>4, FilteredIs, LenProperties
  <2>6. PICK g \in [1..Len(f) -> kept] :
              /\ \A i \in 1..Len(f) : f[i] = s[g[i]]
              /\ \A i \in kept : \E j \in 1..Len(f) : g[j] = i
    <3>1. s \in Seq(ToolRows)
      BY <1>4
    <3>2. \E g \in [1..Len(Filtered(s, kept)) -> kept] :
              /\ \A k1 \in 1..Len(Filtered(s, kept)) : Filtered(s, kept)[k1] = s[g[k1]]
              /\ \A k1, l \in 1..Len(Filtered(s, kept)) : g[k1] = g[l] => k1 = l
              /\ \A i \in kept : \E k1 \in 1..Len(Filtered(s, kept)) : g[k1] = i
      BY <2>4, <3>1, FilteredIs
    <3> QED BY <2>2, <3>2
  <2>7. PICK row : row = NewTool(v, e)
    OBVIOUS
  <2>8. row \in ToolRows /\ row.id = e.call /\ row.status = "running" /\ row.streams = <<>>
    BY <1>1, <2>7 DEF NewTool, ToolRows, Views, Events
  <2>9. Len(p) = Len(f) + 1 /\ p[Len(f) + 1] = row /\ \A i \in 1..Len(f) : p[i] = f[i]
    BY <2>3, <2>5, <2>7, <2>8, AppendProperties
  <2>10. \A i \in 1..Len(p) : i \in 1..Len(f) \/ i = Len(f) + 1
    BY <2>5, <2>9
  <2>11. ASSUME NEW i \in 1..Len(p)
         PROVE  CallTold(p[i].id, p[i].status, p[i].streams, ems, k + 1)
    <3>1. CASE i \in 1..Len(f)
      <4>1. g[i] \in kept /\ p[i] = s[g[i]]
        BY <2>6, <2>9, <3>1
      <4>2. PICK j \in 1..Len(s) : j = g[i] /\ s[j].id # e.call
        BY <1>4, <2>1, <4>1
      <4>3. CallTold(s[j].id, s[j].status, s[j].streams, ems, k + 1)
        BY <1>7, <4>2
      <4> QED BY <4>1, <4>2, <4>3
    <3>2. CASE i = Len(f) + 1
      <4>1. CallTold(e.call, "running", <<>>, ems, k + 1)
        BY <1>0, <1>9, CallBegins DEF Begins
      <4> QED BY <2>8, <2>9, <3>2, <4>1
    <3> QED BY <2>10, <3>1, <3>2
  <2>12. ASSUME NEW c, c = e.call \/ \E j \in 1..Len(s) : s[j].id = c
         PROVE  \E j \in 1..Len(p) : p[j].id = c
    <3>1. CASE c = e.call
      <4>1. Len(f) + 1 \in 1..Len(p)
        BY <2>5, <2>9
      <4> QED BY <2>8, <2>9, <3>1, <4>1
    <3>2. CASE c # e.call
      <4>1. PICK j \in 1..Len(s) : s[j].id = c
        BY <2>12, <3>2
      <4>2. j \in kept
        BY <1>4, <2>1, <3>2, <4>1
      <4>3. PICK i \in 1..Len(f) : g[i] = j
        BY <2>6, <4>2
      <4>4. i \in 1..Len(p) /\ p[i].id = c
        BY <2>5, <2>6, <2>9, <4>1, <4>3
      <4> QED BY <4>4
    <3> QED BY <3>1, <3>2
  <2>13. CallsHaveRows(s, ems, k) => CallsHaveRows(p, ems, k + 1)
    BY <1>0, <1>6, <2>12 DEF CallsHaveRows
  <2>14. RowsTold(p, ems, k + 1) /\ (lost2 \/ CallsHaveRows(p, ems, k + 1))
    BY <1>5, <2>11, <2>13 DEF RowsTold
  <2> QED BY <1>0, <1>1, <1>2, <1>8, <2>14, ToolsCompacted
<1>10. ASSUME e.kind # "start", Len(p) = Len(s), \A i \in 1..Len(s) : p[i].id = s[i].id
       PROVE  lost2 \/ CallsHaveRows(p, ems, k + 1)
  BY <1>0, <1>5, <1>6, <1>10 DEF CallsHaveRows
<1>11. CASE e.kind \in {"ok", "failed"}
  <2>1. PICK status : status = IF e.kind = "ok" THEN "success" ELSE "error"
    OBVIOUS
  <2>2. p = [i \in DOMAIN s |-> IF s[i].id = e.call THEN [s[i] EXCEPT !.status = status] ELSE s[i]]
    <3>1. ReducedEvent(v, e).tools =
            [i \in DOMAIN v.tools |->
               IF v.tools[i].id = e.call
                 THEN [v.tools[i] EXCEPT !.status = IF e.kind = "ok" THEN "success" ELSE "error"]
                 ELSE v.tools[i]]
      BY <1>1, <1>11, ReducedTools
    <3> QED BY <1>2, <1>3, <2>1, <3>1
  <2>3. \A t \in ToolRows : /\ [t EXCEPT !.status = status].id = t.id
                            /\ [t EXCEPT !.status = status].status = status
                            /\ [t EXCEPT !.status = status].streams = t.streams
    BY DEF ToolRows
  <2>4. Len(p) = Len(s)
    BY <1>4, <2>2
  <2>5. \A i \in 1..Len(s) :
          /\ p[i].id = s[i].id /\ p[i].streams = s[i].streams
          /\ p[i].status = IF s[i].id = e.call THEN status ELSE s[i].status
    BY <1>4, <2>2, <2>3
  <2>6. ASSUME NEW i \in 1..Len(p)
        PROVE  CallTold(p[i].id, p[i].status, p[i].streams, ems, k + 1)
    <3>0. i \in 1..Len(s)
      BY <2>4
    <3>1. CASE s[i].id = e.call
      <4>1. CallTold(s[i].id, s[i].status, s[i].streams, ems, k)
        BY <1>5, <3>0 DEF RowsTold
      <4>2. CallTold(s[i].id, status, s[i].streams, ems, k + 1)
        BY <1>0, <1>11, <2>1, <3>1, <4>1, CallEnds
      <4> QED BY <2>5, <3>0, <3>1, <4>2
    <3>2. CASE s[i].id # e.call
      BY <1>7, <2>5, <3>0, <3>2
    <3> QED BY <3>1, <3>2
  <2>7. RowsTold(p, ems, k + 1) /\ (lost2 \/ CallsHaveRows(p, ems, k + 1))
    BY <1>10, <1>11, <2>4, <2>5, <2>6 DEF RowsTold
  <2> QED BY <1>0, <1>1, <1>2, <1>8, <2>7, ToolsCompacted
<1>12. CASE e.kind \in {"user", "error", "stage", "delta", "done", "note"}
  <2>1. p = s
    BY <1>1, <1>2, <1>3, <1>12, ReducedTools
  <2>2. RowsTold(p, ems, k + 1) /\ (lost2 \/ CallsHaveRows(p, ems, k + 1))
    BY <1>7, <1>10, <1>12, <2>1 DEF RowsTold
  <2> QED BY <1>0, <1>1, <1>2, <1>8, <2>2, ToolsCompacted
<1>13. CASE e.kind = "stream"
  <2>1. p = [i \in DOMAIN s |-> IF s[i].id = e.call THEN [s[i] EXCEPT !.streams = Append(@, e.n)] ELSE s[i]]
    <3>1. ReducedEvent(v, e).tools =
            [i \in DOMAIN v.tools |->
               IF v.tools[i].id = e.call THEN [v.tools[i] EXCEPT !.streams = Append(@, e.n)] ELSE v.tools[i]]
      BY <1>1, <1>13, ReducedTools
    <3> QED BY <1>2, <1>3, <3>1
  <2>2. \A t \in ToolRows : /\ [t EXCEPT !.streams = Append(@, e.n)].id = t.id
                            /\ [t EXCEPT !.streams = Append(@, e.n)].status = t.status
                            /\ [t EXCEPT !.streams = Append(@, e.n)].streams = Append(t.streams, e.n)
    BY DEF ToolRows
  <2>3. Len(p) = Len(s)
    BY <1>4, <2>1
  <2>4. \A i \in 1..Len(s) :
          /\ p[i].id = s[i].id /\ p[i].status = s[i].status
          /\ p[i].streams = IF s[i].id = e.call THEN Append(s[i].streams, e.n) ELSE s[i].streams
    BY <1>4, <2>1, <2>2
  <2>5. ASSUME NEW i \in 1..Len(p)
        PROVE  CallTold(p[i].id, p[i].status, Latest(p[i].streams, MaxText), ems, k + 1)
    <3>0. i \in 1..Len(s)
      BY <2>3
    <3>1. CASE s[i].id = e.call
      <4>1. CallTold(s[i].id, s[i].status, s[i].streams, ems, k)
        BY <1>5, <3>0 DEF RowsTold
      <4>2. \A h \in 1..(k + 1) : ems[h].n \in Nat
        BY DEF Events
      <4>3. CallTold(s[i].id, s[i].status, Latest(Append(s[i].streams, e.n), MaxText), ems, k + 1)
        BY <1>0, <1>13, <3>1, <4>1, <4>2, CallStreams
      <4> QED BY <2>4, <3>0, <3>1, <4>3
    <3>2. CASE s[i].id # e.call
      <4>1. CallTold(p[i].id, p[i].status, p[i].streams, ems, k + 1)
        BY <1>7, <2>4, <3>0, <3>2
      <4> QED BY <1>1, <4>1, CallLatest
    <3> QED BY <3>1, <3>2
  <2>6. RowsKept(p, ems, k + 1) /\ (lost2 \/ CallsHaveRows(p, ems, k + 1))
    BY <1>10, <1>13, <2>3, <2>4, <2>5 DEF RowsKept
  <2> QED BY <1>0, <1>1, <1>2, <2>6, ToolsCompacted
<1>14. e.kind \in Kinds
  BY <1>0, <1>1 DEF Events
<1> QED BY <1>9, <1>11, <1>12, <1>13, <1>14 DEF Kinds

(***************************************************************************)
(* The order of what a run says.                                           *)
(***************************************************************************)

(* A set of numbers with a member has a least one.                         *)
LEMMA HasLeast ==
  ASSUME NEW S \in SUBSET Nat, S # {}
  PROVE  \E x \in S : \A y \in S : x <= y
<1>1. IsWellFoundedOn(OpToRel(<, Nat), Nat)
  BY NatLessThanWellFounded, Zenon
<1>2. PICK x \in S : \A y \in S : ~(<<y, x>> \in OpToRel(<, Nat))
  BY <1>1, WFMin, Zenon
<1>3. \A y \in S : ~(y < x)
  BY <1>2 DEF OpToRel
<1> QED BY <1>3

(* A set of numbers up to a bound has a greatest one.                      *)
LEMMA HasGreatest ==
  ASSUME NEW N \in Nat, NEW S \in SUBSET (1..N), S # {}
  PROVE  Max(S) \in S /\ \A y \in S : y <= Max(S)
<1> DEFINE T == {N - x : x \in S}
<1>1. T \in SUBSET Nat /\ T # {}
  OBVIOUS
<1> HIDE DEF T
<1>2. PICK t \in T : \A y \in T : t <= y
  BY <1>1, HasLeast
<1>3. PICK x \in S : t = N - x
  BY DEF T
<1>4. \A y \in S : t <= N - y
  BY <1>2 DEF T
<1>5. \A y \in S : x >= y
  BY <1>3, <1>4
<1>6. Max(S) \in S /\ \A y \in S : Max(S) >= y
  BY <1>5, Zenon DEF Max
<1> QED BY <1>6

(* The order in which a run speaks: nothing after its end, the end of a    *)
(* call right after its beginning but for output, and no call left open    *)
(* unless the run fails.                                                   *)
Orderly(ems) ==
  /\ \A i \in 1..Len(ems) : ems[i].kind # "clear"
  /\ \A i \in 1..Len(ems) : ems[i].kind \in {"done", "error"} => i = Len(ems)
  /\ \A j \in 1..Len(ems) : ems[j].kind \in {"ok", "failed"} =>
       \E i \in 1..(j - 1) :
         Begins(ems[i], ems[j].call) /\ \A h \in (i + 1)..(j - 1) : ems[h].kind = "stream"
  /\ \A i, j \in 1..Len(ems) :
       i < j /\ ems[i].kind = "start" /\ ems[j].kind \notin {"stream", "error"} =>
         \E h \in (i + 1)..j : ems[h].kind \in {"ok", "failed"} /\ ems[h].call = ems[i].call

(* The event that LastSaid names is the last of its kinds.                 *)
LEMMA LastSaidIs ==
  ASSUME emitted \in Seq(Events)
  PROVE  \/ LastSaid.kind = "none" /\ \A i \in 1..Len(emitted) : emitted[i].kind = "stream"
         \/ \E m \in 1..Len(emitted) :
              /\ LastSaid = emitted[m] /\ emitted[m].kind # "stream"
              /\ \A i \in (m + 1)..Len(emitted) : emitted[i].kind = "stream"
<1>1. Len(emitted) \in Nat /\ DOMAIN emitted = 1..Len(emitted)
  BY LenProperties
<1>2. CASE Said = {}
  <2>1. LastSaid.kind = "none"
    BY <1>2 DEF LastSaid, Event
  <2> QED BY <1>1, <1>2, <2>1 DEF Said
<1>3. CASE Said # {}
  <2>1. Said \in SUBSET (1..Len(emitted))
    BY <1>1 DEF Said
  <2>2. PICK m : m = Max(Said)
    OBVIOUS
  <2>3. m \in Said /\ \A y \in Said : y <= m
    BY <1>1, <1>3, <2>1, <2>2, HasGreatest
  <2>4. LastSaid = emitted[m]
    BY <1>3, <2>2 DEF LastSaid
  <2>5. \A i \in (m + 1)..Len(emitted) : i \in 1..Len(emitted) /\ ~(i <= m)
    BY <1>1, <2>1, <2>3
  <2>6. \A i \in (m + 1)..Len(emitted) : emitted[i].kind = "stream"
    BY <1>1, <2>3, <2>5 DEF Said
  <2>7. m \in 1..Len(emitted) /\ emitted[m].kind # "stream"
    BY <1>1, <2>3 DEF Said
  <2> QED BY <2>4, <2>6, <2>7
<1> QED BY <1>2, <1>3

(* What a run may say next keeps the order.                                *)
LEMMA OrderlyNext ==
  ASSUME emitted \in Seq(Events), Orderly(emitted),
         NEW e \in Events, MayPublish(e.kind, e.call)
  PROVE  Orderly(Append(emitted, e))
<1>1. PICK N \in Nat : N = Len(emitted)
  BY LenProperties
<1>2. PICK q : q = Append(emitted, e)
  OBVIOUS
<1>3. Len(q) = N + 1 /\ q[N + 1] = e /\ \A i \in 1..N : q[i] = emitted[i]
  BY <1>1, <1>2, AppendProperties
<1>4. \A i \in 1..(N + 1) : i \in 1..N \/ i = N + 1
  OBVIOUS
<1>5. \/ LastSaid.kind = "none" /\ \A i \in 1..N : q[i].kind = "stream"
      \/ \E m \in 1..N :
           /\ LastSaid = q[m] /\ q[m].kind # "stream"
           /\ \A i \in (m + 1)..N : q[i].kind = "stream"
  <2>1. CASE LastSaid.kind = "none" /\ \A i \in 1..Len(emitted) : emitted[i].kind = "stream"
    BY <1>1, <1>3, <2>1
  <2>2. CASE \E m \in 1..Len(emitted) :
              /\ LastSaid = emitted[m] /\ emitted[m].kind # "stream"
              /\ \A i \in (m + 1)..Len(emitted) : emitted[i].kind = "stream"
    <3>1. PICK m \in 1..N :
              /\ LastSaid = emitted[m] /\ emitted[m].kind # "stream"
              /\ \A i \in (m + 1)..N : emitted[i].kind = "stream"
      BY <1>1, <2>2
    <3>2. \A i \in (m + 1)..N : i \in 1..N
      OBVIOUS
    <3> QED BY <1>3, <3>1, <3>2
  <2> QED BY <2>1, <2>2, LastSaidIs
<1>6. /\ \A i \in 1..N : q[i].kind \in {"done", "error"} => i = N
      /\ \A j \in 1..N : q[j].kind \in {"ok", "failed"} =>
           \E i \in 1..(j - 1) :
             Begins(q[i], q[j].call) /\ \A h \in (i + 1)..(j - 1) : q[h].kind = "stream"
      /\ \A i, j \in 1..N :
           i < j /\ q[i].kind = "start" /\ q[j].kind \notin {"stream", "error"} =>
             \E h \in (i + 1)..j : q[h].kind \in {"ok", "failed"} /\ q[h].call = q[i].call
  <2>1. \A i \in 1..N : q[i].kind \in {"done", "error"} => i = N
    BY <1>1, <1>3 DEF Orderly
  <2>2. ASSUME NEW j \in 1..N, q[j].kind \in {"ok", "failed"}
        PROVE  \E i \in 1..(j - 1) :
                 Begins(q[i], q[j].call) /\ \A h \in (i + 1)..(j - 1) : q[h].kind = "stream"
    <3>1. PICK i \in 1..(j - 1) :
            Begins(emitted[i], emitted[j].call) /\ \A h \in (i + 1)..(j - 1) : emitted[h].kind = "stream"
      BY <1>1, <1>3, <2>2 DEF Orderly
    <3>2. i \in 1..N /\ \A h \in (i + 1)..(j - 1) : h \in 1..N
      OBVIOUS
    <3> QED BY <1>3, <3>1, <3>2
  <2>3. ASSUME NEW i \in 1..N, NEW j \in 1..N,
               i < j, q[i].kind = "start", q[j].kind \notin {"stream", "error"}
        PROVE  \E h \in (i + 1)..j : q[h].kind \in {"ok", "failed"} /\ q[h].call = q[i].call
    <3>1. PICK h \in (i + 1)..j : emitted[h].kind \in {"ok", "failed"} /\ emitted[h].call = emitted[i].call
      BY <1>1, <1>3, <2>3 DEF Orderly
    <3>2. h \in 1..N
      OBVIOUS
    <3> QED BY <1>3, <3>1, <3>2
  <2> QED BY <2>1, <2>2, <2>3
<1>7. ~Terminated
  BY DEF MayPublish, Terminated
<1>8. \A i \in 1..N : q[i].kind \notin {"done", "error"}
  <2> SUFFICES ASSUME NEW i \in 1..N, q[i].kind \in {"done", "error"} PROVE FALSE
    OBVIOUS
  <2>1. i = N
    BY <1>6
  <2>2. PICK m \in 1..N : /\ LastSaid = q[m] /\ q[m].kind # "stream"
                          /\ \A h \in (m + 1)..N : q[h].kind = "stream"
    BY <1>5
  <2>3. m = N
    <3>1. m # N => N \in (m + 1)..N
      OBVIOUS
    <3> QED BY <2>1, <2>2, <3>1
  <2> QED BY <1>7, <2>1, <2>2, <2>3 DEF Terminated
<1>9. \A i \in 1..Len(q) : q[i].kind \in {"done", "error"} => i = Len(q)
  BY <1>3, <1>4, <1>8
<1>10. ASSUME NEW j \in 1..Len(q), q[j].kind \in {"ok", "failed"}
       PROVE  \E i \in 1..(j - 1) :
                Begins(q[i], q[j].call) /\ \A h \in (i + 1)..(j - 1) : q[h].kind = "stream"
  <2>1. CASE j \in 1..N
    BY <1>6, <1>10, <2>1
  <2>2. CASE j = N + 1
    <3>1. LastSaid.kind = "start" /\ LastSaid.call = e.call
      BY <1>3, <1>10, <2>2 DEF MayPublish
    <3>2. PICK m \in 1..N : /\ LastSaid = q[m]
                            /\ \A h \in (m + 1)..N : q[h].kind = "stream"
      BY <1>5, <3>1
    <3>3. j - 1 = N
      BY <2>2
    <3> QED BY <1>3, <2>2, <3>1, <3>2, <3>3 DEF Begins
  <2> QED BY <1>3, <1>4, <2>1, <2>2
<1>11. ASSUME NEW i \in 1..Len(q), NEW j \in 1..Len(q),
              i < j, q[i].kind = "start", q[j].kind \notin {"stream", "error"}
       PROVE  \E h \in (i + 1)..j : q[h].kind \in {"ok", "failed"} /\ q[h].call = q[i].call
  <2>0. i \in 1..N /\ i \in Nat
    BY <1>3, <1>11
  <2>1. CASE j \in 1..N
    BY <1>6, <1>11, <2>0, <2>1
  <2>2. CASE j = N + 1
    <3>1. PICK m \in 1..N : /\ LastSaid = q[m] /\ q[m].kind # "stream"
                            /\ \A h \in (m + 1)..N : q[h].kind = "stream"
      BY <1>5, <1>11, <2>0
    <3>2. i <= m
      <4>1. ~(i <= m) => i \in (m + 1)..N
        BY <2>0
      <4> QED BY <1>11, <3>1, <4>1
    <3>3. CASE i = m
      <4>1. e.kind \in {"ok", "failed"} /\ e.call = q[i].call
        BY <1>3, <1>11, <2>2, <3>1, <3>3 DEF MayPublish
      <4>2. j \in (i + 1)..j
        BY <1>11, <2>0, <2>2
      <4> QED BY <1>3, <2>2, <4>1, <4>2
    <3>4. CASE i < m
      <4>1. q[m].kind \notin {"stream", "error"}
        BY <1>8, <3>1
      <4>2. PICK h \in (i + 1)..m : q[h].kind \in {"ok", "failed"} /\ q[h].call = q[i].call
        BY <1>6, <1>11, <2>0, <3>4, <4>1
      <4>3. h \in (i + 1)..j
        BY <2>0, <2>2
      <4> QED BY <4>2, <4>3
    <3> QED BY <2>0, <3>2, <3>3, <3>4
  <2> QED BY <1>3, <1>4, <2>1, <2>2
<1>12. \A i \in 1..Len(q) : q[i].kind # "clear"
  <2>1. e.kind # "clear"
    BY DEF MayPublish
  <2>2. \A i \in 1..N : q[i].kind # "clear"
    BY <1>1, <1>3 DEF Orderly
  <2> QED BY <1>3, <1>4, <2>1, <2>2
<1>13. Orderly(q)
  BY <1>9, <1>10, <1>11, <1>12 DEF Orderly
<1> QED BY <1>2, <1>13

(* A run that has said nothing is orderly.                                 *)
LEMMA OrderlyNothing == Orderly(<<>>)
<1>1. Len(<<>>) = 0 /\ 1..0 = {}
  OBVIOUS
<1> QED BY <1>1 DEF Orderly

(* A run that has terminated has said so last.                             *)
LEMMA EndIsLast ==
  ASSUME emitted \in Seq(Events), Orderly(emitted), Terminated
  PROVE  Len(emitted) > 0 /\ emitted[Len(emitted)].kind \in {"done", "error"}
<1>1. LastSaid.kind \in {"done", "error"} /\ Len(emitted) \in Nat
  BY LenProperties DEF Terminated
<1>2. PICK m \in 1..Len(emitted) : LastSaid = emitted[m]
  BY <1>1, LastSaidIs
<1>3. m = Len(emitted)
  BY <1>1, <1>2 DEF Orderly
<1> QED BY <1>1, <1>2, <1>3

(***************************************************************************)
(* What the view tells of the run.                                         *)
(***************************************************************************)

Deltas(ems, k) == {ems[i].n : i \in {j \in 1..k : ems[j].kind = "delta"}}

(* A view tells of the first k events.                                     *)
Told(v, ems, k, lost) ==
  /\ AnswerTold(v.messages, Deltas(ems, k), lost)
  /\ Stilled(v.messages, ems, k)
  /\ ToolsTold(v.tools, ems, k, lost)

(* The deltas of one more event.                                           *)
LEMMA DeltasNext ==
  ASSUME NEW ems, NEW k \in Nat
  PROVE  Deltas(ems, k + 1) = IF ems[k + 1].kind = "delta" THEN Deltas(ems, k) \cup {ems[k + 1].n}
                              ELSE Deltas(ems, k)
<1>1. /\ k + 1 \in 1..(k + 1)
      /\ \A j \in 1..(k + 1) : j \in 1..k \/ j = k + 1
      /\ \A j \in 1..k : j \in 1..(k + 1)
  OBVIOUS
<1>2. PICK c : c = k + 1
  OBVIOUS
<1>3. CASE ems[c].kind = "delta"
  <2>1. \A n : n \in Deltas(ems, c) <=> n \in Deltas(ems, k) \/ n = ems[c].n
    BY <1>1, <1>2, <1>3 DEF Deltas
  <2> QED BY <1>2, <1>3, <2>1
<1>4. CASE ems[c].kind # "delta"
  <2>1. {j \in 1..c : ems[j].kind = "delta"} = {j \in 1..k : ems[j].kind = "delta"}
    BY <1>1, <1>2, <1>4
  <2> QED BY <1>2, <1>4, <2>1 DEF Deltas
<1> QED BY <1>2, <1>3, <1>4

(* The run publishes something that does not arrive yet.                   *)
LEMMA PublishTold ==
  ASSUME NEW v, NEW ems \in Seq(Events), NEW e \in Events, NEW k \in 0..Len(ems),
         NEW lost \in BOOLEAN, Told(v, ems, k, lost)
  PROVE  Told(v, Append(ems, e), k, lost)
<1>1. PICK q : q = Append(ems, e)
  OBVIOUS
<1>2. \A i \in 1..k : q[i] = ems[i]
  <2>1. Len(ems) \in Nat /\ \A i \in 1..Len(ems) : q[i] = ems[i]
    BY <1>1, AppendProperties, LenProperties
  <2> QED BY <2>1
<1>3. Deltas(q, k) = Deltas(ems, k)
  <2>1. {j \in 1..k : q[j].kind = "delta"} = {j \in 1..k : ems[j].kind = "delta"}
    BY <1>2
  <2> QED BY <1>2, <2>1 DEF Deltas
<1>4. k \in Nat
  BY LenProperties
<1>5. Stilled(v.messages, q, k)
  <2>1. k > 0 => q[k] = ems[k]
    BY <1>2, <1>4
  <2> QED BY <2>1 DEF Told, Stilled
<1>6. RowsTold(v.tools, ems, k) => RowsTold(v.tools, q, k)
  BY <1>2, <1>4, CallSame DEF RowsTold
<1>7. CallsHaveRows(v.tools, ems, k) => CallsHaveRows(v.tools, q, k)
  BY <1>2 DEF CallsHaveRows
<1>8. Told(v, q, k, lost)
  BY <1>3, <1>5, <1>6, <1>7 DEF Told, ToolsTold
<1> QED BY <1>1, <1>8

(* The next event of the run arrives.                                      *)
LEMMA ArrivalIsTold ==
  ASSUME NEW v, NEW ems, NEW k, NEW clk, NEW sd, Timed(v, ems, k, clk, sd), k < Len(ems),
         Orderly(ems), NEW lost \in BOOLEAN, Told(v, ems, k, lost),
         NEW lost2 \in BOOLEAN, lost2 = (lost \/ Lost(v, ems[k + 1]))
  PROVE  Told(Reduce(v, ems[k + 1]), ems, k + 1, lost2)
<1>1. /\ ems \in Seq(Events) /\ k \in Nat /\ Len(ems) \in Nat /\ v \in Views /\ IdsOf(v.messages)
      /\ EventsTimed(ems, clk, sd) /\ sd \in Nat
  BY LenProperties DEF Timed, ViewTimed
<1>2. \A i \in 1..(k + 1) : i \in 1..Len(ems)
  BY <1>1
<1>3. k + 1 \in 1..(k + 1) /\ k + 1 \in Nat /\ \A i \in 1..k : i \in 1..(k + 1) /\ i < k + 1
  BY <1>1
<1>4. \A i \in 1..(k + 1) : ems[i] \in Events /\ ems[i].n \in Nat /\ ems[i].n # 0 /\ ems[i].by = "run"
  <2>1. \A i \in 1..Len(ems) : ems[i] \in Events /\ ems[i].n \in 1..sd /\ ems[i].by = "run"
    BY <1>1, ElementOfSeq DEF EventsTimed, Within
  <2> QED BY <1>1, <1>2, <2>1
<1>5. \A i \in 1..k : ems[i].n < ems[k + 1].n
  BY <1>2, <1>3 DEF Timed, EventsTimed
<1>6. PICK e : e = ems[k + 1]
  OBVIOUS
<1>7. e \in Events /\ e.n \in Nat /\ e.n # 0 /\ e.by = "run" /\ e.kind # "clear"
  BY <1>2, <1>3, <1>4, <1>6 DEF Orderly
<1>8. AnswerTold(Reduce(v, e).messages, Deltas(ems, k + 1), lost2)
  <2>1. PICK numbers : numbers = Deltas(ems, k)
    OBVIOUS
  <2>2. \A m \in numbers : \E i \in 1..k : m = ems[i].n
    BY <2>1 DEF Deltas
  <2>3. numbers \in SUBSET Nat /\ \A m \in numbers : m < e.n
    BY <1>3, <1>4, <1>5, <1>6, <2>2
  <2>4. PICK numbers2 : numbers2 = Deltas(ems, k + 1)
    OBVIOUS
  <2>5. numbers2 = IF e.kind = "delta" /\ e.by = "run" THEN numbers \cup {e.n} ELSE numbers
    BY <1>1, <1>6, <1>7, <2>1, <2>4, DeltasNext
  <2>6. AnswerTold(v.messages, numbers, lost)
    BY <2>1 DEF Told
  <2>7. AnswerTold(Reduce(v, e).messages, numbers2, lost2)
    BY <1>1, <1>6, <1>7, <2>3, <2>5, <2>6, AnswerReduced
  <2> QED BY <2>4, <2>7
<1>9. Stilled(Reduce(v, e).messages, ems, k + 1)
  <2>1. k > 0 => ems[k].kind # "done"
    <3>1. k > 0 => k \in 1..Len(ems) /\ k # Len(ems)
      BY <1>1
    <3> QED BY <3>1 DEF Orderly
  <2>2. Stilled(v.messages, ems, k)
    BY DEF Told
  <2> QED BY <1>1, <1>6, <1>7, <2>1, <2>2, ArrivalStilled
<1>10. ToolsTold(Reduce(v, e).tools, ems, k + 1, lost2)
  <2>1. ASSUME e.kind \in {"ok", "failed"}
        PROVE  \E i \in 1..k : Begins(ems[i], e.call) /\ \A h \in (i + 1)..k : ems[h].kind = "stream"
    <3>1. k + 1 \in 1..Len(ems) /\ (k + 1) - 1 = k
      BY <1>1
    <3>2. \E i \in 1..((k + 1) - 1) :
            Begins(ems[i], ems[k + 1].call) /\ \A h \in (i + 1)..((k + 1) - 1) : ems[h].kind = "stream"
      BY <1>6, <2>1, <3>1 DEF Orderly
    <3> QED BY <1>6, <3>1, <3>2
  <2>2. ToolsTold(v.tools, ems, k, lost)
    BY DEF Told
  <2> QED BY <1>1, <1>4, <1>5, <1>6, <1>7, <2>1, <2>2, ArrivalTold
<1> QED BY <1>6, <1>8, <1>9, <1>10 DEF Told

(* What the CLI says is not about the run's calls.                         *)
LEMMA ToolsQuiet ==
  ASSUME NEW v \in Views, NEW e \in Events, e.kind \in {"error", "delta", "done", "clear"},
         NEW ems, NEW k \in Nat, NEW lost \in BOOLEAN, ToolsTold(v.tools, ems, k, lost),
         NEW lost2 \in BOOLEAN, lost2 = (lost \/ Lost(v, e))
  PROVE  ToolsTold(Reduce(v, e).tools, ems, k, lost2)
<1>1. PICK p : p = ReducedEvent(v, e).tools
  OBVIOUS
<1>2. CASE e.kind = "clear"
  <2>1. p = <<>> /\ lost2
    BY <1>1, <1>2, ReducedTools DEF Lost
  <2>2. Len(p) = 0 /\ 1..0 = {}
    BY <2>1
  <2>3. RowsKept(p, ems, k)
    BY <2>2 DEF RowsKept
  <2> QED BY <1>1, <2>1, <2>3, ToolsCompacted
<1>3. CASE e.kind # "clear"
  <2>1. p = v.tools
    BY <1>1, <1>3, ReducedTools
  <2>2. RowsKept(p, ems, k) /\ (lost2 \/ CallsHaveRows(p, ems, k))
    BY <2>1, CallLatest DEF ToolsTold, RowsTold, RowsKept
  <2> QED BY <1>1, <2>2, ToolsCompacted
<1> QED BY <1>2, <1>3

(* An event that says nothing of the answer leaves it told.                *)
LEMMA AnswerQuiet ==
  ASSUME NEW v \in Views, NEW e \in Events, IdsOf(v.messages), e.n # 0, e.by = "cli",
         NEW numbers \in SUBSET Nat, NEW lost \in BOOLEAN, AnswerTold(v.messages, numbers, lost),
         NEW lost2 \in BOOLEAN, lost2 = (lost \/ Lost(v, e))
  PROVE  AnswerTold(Reduce(v, e).messages, numbers, lost2)
BY AnswerReduced

(* An event that shortens a row's life loses none.                         *)
LEMMA DoneLosesNothing ==
  ASSUME NEW v \in Views, NEW e \in Events, e.kind = "done", \A l \in Lists : Len(v[l]) <= MaxRows
  PROVE  ~Lost(v, e)
<1>1. PICK p : p = ReducedEvent(v, e)
  OBVIOUS
<1>2. p.tools = v.tools /\ p.notes = v.notes
  BY <1>1, ReducedTools, ReducedNotes
<1>3. Len(p.messages) = Len(v.messages)
  <2>1. Grown(p.messages, v, e)
    BY <1>1, MessagesGrow
  <2> QED BY <2>1 DEF Grown
<1>4. \A l \in Lists : Len(v[l]) \in Nat
  <2>1. Len(v.messages) \in Nat /\ Len(v.tools) \in Nat /\ Len(v.notes) \in Nat
    BY LenProperties DEF Views
  <2> QED BY <2>1 DEF Lists
<1>5. \A l \in Lists : Len(p[l]) = Len(v[l])
  BY <1>2, <1>3 DEF Lists
<1>6. \A l \in Lists : ~(Len(p[l]) > MaxRows)
  BY <1>4, <1>5, ViewAssumption
<1> QED BY <1>1, <1>6 DEF Lost

(* A stream that has ended is that of a run that is over, and a run that   *)
(* is over has said so last.                                               *)
EndsInv ==
  /\ closedBy \in End => run = "settled"
  /\ run = "settled" => Len(emitted) > 0 /\ emitted[Len(emitted)].kind \in {"done", "error"}

TellInv ==
  /\ ViewInv
  /\ Orderly(emitted)
  /\ EndsInv
  /\ Told(view, emitted, Len(received), forgotten)

(* Every step keeps the ends in their order.                               *)
LEMMA EndsKeep ==
  ASSUME TellInv, [ViewNext]_<<vars, viewVars>>
  PROVE  EndsInv'
<1>1. /\ IInv /\ emitted \in Seq(Events) /\ Orderly(emitted) /\ EndsInv /\ ViewInv
      /\ run \in {"new", "running", "settled"}
  BY DEF TellInv, ViewInv, Timed, IInv, TypeOK
<1>2. CASE UNCHANGED <<vars, viewVars>>
  BY <1>1, <1>2 DEF EndsInv, vars, viewVars
<1>3. CASE RunEmits
  BY <1>1, <1>3 DEF RunEmits, RunPushes, EndsInv, IInv, CountInv
<1>4. CASE RunReturns
  <2>1. Terminated /\ run' = "settled" /\ emitted' = emitted
    BY <1>4 DEF RunReturns, RunSettles, viewVars
  <2>2. Len(emitted) > 0 /\ emitted[Len(emitted)].kind \in {"done", "error"}
    BY <1>1, <2>1, EndIsLast
  <2> QED BY <2>1, <2>2 DEF EndsInv
<1>5. CASE FirstEvent
  <2>1. gen = "start" /\ run' = "running" /\ closedBy' = closedBy
    BY <1>5 DEF FirstEvent, Starts, Yield, Sleep
  <2>2. closedBy = "open"
    BY <1>1, <2>1 DEF IInv, PlaceInv
  <2> QED BY <2>1, <2>2 DEF EndsInv, End
<1>6. CASE EventArrives
  <2>1. run' = run /\ emitted' = emitted /\ gen \in {"yielded", "waiting"}
    BY <1>6 DEF EventArrives, Continues, Wakened
  <2>2. run # "new"
    BY <1>1, <2>1 DEF IInv, PlaceInv
  <2>3. ViewNext
    BY <1>6 DEF ViewNext
  <2>4. IInv'
    BY <1>1, <2>3, ViewIsStream, StepKeeps
  <2>5. run' = "running" => closedBy' \notin End
    BY <2>4 DEF IInv, CountInv
  <2> QED BY <1>1, <2>1, <2>2, <2>5 DEF EndsInv
<1>7. CASE ConsumerOnly
  <2>1. run' = run /\ emitted' = emitted /\ (closedBy' = closedBy \/ closedBy' = "return")
    BY <1>7 DEF ConsumerOnly, Ask, GiveUp, ClosedUnstarted, Abandons, Leave, viewVars
  <2> QED BY <1>1, <2>1 DEF EndsInv, End
<1>8. CASE LoopEnds
  BY <1>1, <1>8 DEF LoopEnds, Closes, EndsInv
<1>9. CASE CliEmits
  BY <1>1, <1>9 DEF CliEmits, vars, EndsInv
<1> QED BY <1>2, <1>3, <1>4, <1>5, <1>6, <1>7, <1>8, <1>9 DEF ViewNext

(* Nothing is said and nothing shown at the start.                         *)
LEMMA TellInvInit == ViewInit => TellInv
<1> SUFFICES ASSUME ViewInit PROVE TellInv
  OBVIOUS
<1>1. /\ ViewInv /\ run = "new" /\ received = <<>> /\ emitted = <<>> /\ closedBy = "open"
      /\ view.messages = <<>> /\ view.tools = <<>> /\ forgotten = FALSE
  BY ViewInvInit DEF ViewInit, Init
<1>2. Len(<<>>) = 0 /\ 1..0 = {}
  OBVIOUS
<1>3. Deltas(emitted, 0) = {}
  BY <1>2 DEF Deltas
<1>4. Told(view, emitted, Len(received), forgotten)
  <2>1. AnswerTold(view.messages, {}, FALSE)
    BY <1>1, <1>2 DEF AnswerTold
  <2>2. Stilled(view.messages, emitted, 0)
    BY <1>1, <1>2 DEF Stilled
  <2>3. ToolsTold(view.tools, emitted, 0, FALSE)
    BY <1>1, <1>2 DEF ToolsTold, RowsTold, CallsHaveRows
  <2> QED BY <1>1, <1>2, <1>3, <2>1, <2>2, <2>3 DEF Told
<1> QED BY <1>1, <1>4, OrderlyNothing DEF TellInv, EndsInv, End

(* Every step keeps the run orderly.                                       *)
LEMMA OrderKeeps ==
  ASSUME emitted \in Seq(Events), Orderly(emitted), StepKinds
  PROVE  Orderly(emitted')
<1>1. CASE emitted' = emitted
  BY <1>1
<1>2. CASE \E e \in Events : RunSays(e)
  <2>1. PICK e \in Events : RunSays(e)
    BY <1>2
  <2>2. MayPublish(e.kind, e.call) /\ emitted' = Append(emitted, e)
    BY <2>1 DEF RunSays
  <2> QED BY <2>2, OrderlyNext
<1>3. emitted' = emitted \/ \E e \in Events : RunSays(e)
  BY DEF StepKinds, Nothing, viewVars, RunSaysUnseen, RunSaysFirst, NextIsSeen, CliShows, CliNotes, CliSays
<1> QED BY <1>1, <1>2, <1>3

(* The deltas are numbers of events, and no number of an event is the      *)
(* marker.                                                                 *)
LEMMA DeltasAreNumbers ==
  ASSUME NEW ems \in Seq(Events), NEW k \in 0..Len(ems)
  PROVE  Deltas(ems, k) \in SUBSET Nat
<1>1. \A i \in 1..k : i \in 1..Len(ems)
  BY LenProperties
<1>2. \A i \in 1..k : ems[i] \in Events
  BY <1>1, ElementOfSeq
<1> QED BY <1>2 DEF Deltas, Events

(* Every step keeps the view telling what has arrived: one step per kind.  *)
LEMMA ToldKeeps ==
  ASSUME TellInv, StepKinds, Orderly(emitted')
  PROVE  Told(view', emitted', Len(received'), forgotten')
<1>1. /\ emitted \in Seq(Events) /\ Len(emitted) \in Nat /\ view \in Views
      /\ clock \in Nat /\ said \in Nat /\ forgotten \in BOOLEAN
      /\ Len(received) \in 0..Len(emitted) /\ Len(received) \in Nat
      /\ (\A l \in Lists : Len(view[l]) <= MaxRows)
      /\ Timed(view, emitted, Len(received), clock, said)
      /\ Orderly(emitted)
      /\ Told(view, emitted, Len(received), forgotten)
      /\ IdsOf(view.messages)
  BY LenProperties DEF TellInv, ViewInv, Timed, ViewTimed
<1>2. CASE Nothing
  BY <1>1, <1>2 DEF Nothing, viewVars
<1>3. CASE RunSaysUnseen
  <2>1. PICK e \in Events : RunSays(e)
    BY <1>3 DEF RunSaysUnseen
  <2>2. emitted' = Append(emitted, e) /\ UNCHANGED <<view, forgotten, received>>
    BY <1>3, <2>1 DEF RunSaysUnseen, RunSays
  <2>3. Told(view, Append(emitted, e), Len(received), forgotten)
    BY <1>1, PublishTold
  <2> QED BY <2>2, <2>3
<1>4. CASE RunSaysFirst
  <2>1. PICK e \in Events : RunSays(e) /\ Shows(e)
    BY <1>4 DEF RunSaysFirst
  <2>2. /\ e.n = said + 1 /\ e.at = clock + 1 /\ e.by = "run"
        /\ emitted' = Append(emitted, e)
        /\ view' = Reduce(view, e) /\ forgotten' = (forgotten \/ Forgets(e))
        /\ emitted = <<>> /\ received = <<>> /\ received' = <<1>>
    BY <1>1, <1>4, <2>1 DEF RunSaysFirst, RunSays, Event, Shows
  <2>3. PICK q : q = Append(emitted, e)
    OBVIOUS
  <2>4. Len(received) = 0 /\ Len(received') = 1 /\ Len(q) = 1 /\ q[1] = e
    BY <1>1, <2>2, <2>3, AppendProperties
  <2>5. Timed(view, q, 0, clock + 1, said + 1)
    BY <1>1, <2>2, <2>3, <2>4, PublishTimed
  <2>6. Told(view, q, 0, forgotten)
    BY <1>1, <2>3, <2>4, PublishTold
  <2>7. forgotten' \in BOOLEAN /\ forgotten' = (forgotten \/ Lost(view, e))
    BY <1>1, <2>2, ForgetsIs
  <2>8. Orderly(q)
    BY <2>2, <2>3
  <2>9. PICK k \in Nat : k = 0
    OBVIOUS
  <2>10. k < Len(q) /\ k + 1 = 1 /\ q[k + 1] = e
    BY <2>4, <2>9
  <2>11. Timed(view, q, k, clock + 1, said + 1) /\ Told(view, q, k, forgotten)
    BY <2>5, <2>6, <2>9
  <2>12. Told(Reduce(view, e), q, k + 1, forgotten')
    BY <1>1, <2>7, <2>8, <2>10, <2>11, ArrivalIsTold
  <2> QED BY <2>2, <2>3, <2>4, <2>10, <2>12
<1>5. CASE NextIsSeen
  <2>1. PICK k \in Nat : k = Len(received)
    BY <1>1
  <2>2. PICK e : e = emitted[k + 1]
    OBVIOUS
  <2>3. /\ k < Len(emitted) /\ Len(received') = k + 1 /\ emitted' = emitted
        /\ view' = Reduce(view, e) /\ forgotten' = (forgotten \/ Forgets(e))
    BY <1>1, <1>5, <2>1, <2>2 DEF NextIsSeen, Shows
  <2>4. e \in Events
    <3>1. k + 1 \in 1..Len(emitted)
      BY <1>1, <2>3
    <3> QED BY <1>1, <2>2, <3>1, ElementOfSeq
  <2>5. forgotten' \in BOOLEAN /\ forgotten' = (forgotten \/ Lost(view, e))
    BY <1>1, <2>3, <2>4, ForgetsIs
  <2>6. Told(Reduce(view, e), emitted, k + 1, forgotten')
    BY <1>1, <2>1, <2>2, <2>3, <2>5, ArrivalIsTold
  <2> QED BY <2>3, <2>6
<1>6. CASE CliShows
  <2>1. PICK e \in Events : CliSays(e) /\ e.kind \in {"error", "clear"} /\ Shows(e)
    BY <1>6 DEF CliShows
  <2>2. /\ e.n = said + 1 /\ e.n # 0 /\ e.by = "cli" /\ UNCHANGED <<emitted, received>>
        /\ view' = Reduce(view, e) /\ forgotten' = (forgotten \/ Forgets(e))
    <3>1. e.n = said + 1 /\ e.by = "cli" /\ UNCHANGED <<emitted, received>>
      BY <2>1 DEF CliSays, Event
    <3>2. said + 1 # 0
      BY <1>1
    <3> QED BY <2>1, <3>1, <3>2 DEF Shows
  <2>3. forgotten' \in BOOLEAN /\ forgotten' = (forgotten \/ Lost(view, e))
    BY <1>1, <2>2, ForgetsIs
  <2>4. PICK numbers : numbers = Deltas(emitted, Len(received))
    OBVIOUS
  <2>5. numbers \in SUBSET Nat
    BY <1>1, <2>4, DeltasAreNumbers
  <2>6. AnswerTold(Reduce(view, e).messages, numbers, forgotten')
    BY <1>1, <2>2, <2>3, <2>4, <2>5, AnswerQuiet DEF Told
  <2>7. Stilled(Reduce(view, e).messages, emitted, Len(received))
    BY <1>1, <2>1, DirectStilled DEF Told
  <2>8. ToolsTold(Reduce(view, e).tools, emitted, Len(received), forgotten')
    BY <1>1, <2>1, <2>3, ToolsQuiet DEF Told
  <2> QED BY <2>2, <2>4, <2>6, <2>7, <2>8 DEF Told
<1>7. CASE CliNotes
  <2>1. PICK e \in Events : /\ CliSays(e) /\ e.kind = "delta"
                            /\ view' = Reduce(Reduce(view, e), [e EXCEPT !.kind = "done"])
                            /\ forgotten' = (forgotten \/ Forgets(e))
    BY <1>7 DEF CliNotes
  <2>2. e.n = said + 1 /\ e.n # 0 /\ e.by = "cli" /\ e.at \in {clock, clock + 1} /\ UNCHANGED <<emitted, received>>
    <3>1. e.n = said + 1 /\ e.by = "cli" /\ e.at = clock' /\ clock' \in {clock, clock + 1}
          /\ UNCHANGED <<emitted, received>>
      BY <2>1 DEF CliSays, Event
    <3>2. said + 1 # 0
      BY <1>1
    <3> QED BY <3>1, <3>2
  <2>3. forgotten' \in BOOLEAN /\ forgotten' = (forgotten \/ Lost(view, e))
    BY <1>1, <2>1, ForgetsIs
  <2>4. PICK f : f = [e EXCEPT !.kind = "done"]
    OBVIOUS
  <2>5. f \in Events /\ f.kind = "done" /\ f.n # 0 /\ f.by = "cli"
    BY <2>2, <2>4 DEF Events, Kinds
  <2>6. PICK w : w = Reduce(view, e)
    OBVIOUS
  <2>7. w \in Views /\ (\A l \in Lists : Len(w[l]) <= MaxRows)
    BY <1>1, <2>6, ReduceIs, ListsBounded
  <2>8. IdsOf(w.messages)
    <3>1. Timed(w, emitted, Len(received), e.at, said + 1)
      BY <1>1, <2>2, <2>6, DirectTimed
    <3> QED BY <3>1 DEF Timed, ViewTimed
  <2>9. PICK numbers : numbers = Deltas(emitted, Len(received))
    OBVIOUS
  <2>10. numbers \in SUBSET Nat
    BY <1>1, <2>9, DeltasAreNumbers
  <2>11. forgotten' = (forgotten' \/ Lost(w, f))
    BY <2>3, <2>5, <2>7, DoneLosesNothing
  <2>12. AnswerTold(Reduce(w, f).messages, numbers, forgotten')
    <3>1. AnswerTold(w.messages, numbers, forgotten')
      BY <1>1, <2>2, <2>3, <2>6, <2>9, <2>10, AnswerQuiet DEF Told
    <3> QED BY <2>3, <2>5, <2>7, <2>8, <2>10, <2>11, <3>1, AnswerQuiet
  <2>13. Stilled(Reduce(w, f).messages, emitted, Len(received))
    BY <1>1, <2>1, <2>2, <2>4, <2>5, <2>6, NoticeStilled DEF Told
  <2>14. ToolsTold(Reduce(w, f).tools, emitted, Len(received), forgotten')
    <3>1. ToolsTold(w.tools, emitted, Len(received), forgotten')
      BY <1>1, <2>1, <2>3, <2>6, ToolsQuiet DEF Told
    <3> QED BY <1>1, <2>3, <2>5, <2>7, <2>11, <3>1, ToolsQuiet
  <2> QED BY <2>1, <2>2, <2>4, <2>6, <2>9, <2>12, <2>13, <2>14 DEF Told
<1> QED BY <1>2, <1>3, <1>4, <1>5, <1>6, <1>7 DEF StepKinds

(* Every step keeps the strengthened invariant.                            *)
LEMMA TellInvStep == TellInv /\ [ViewNext]_<<vars, viewVars>> => TellInv'
<1> SUFFICES ASSUME TellInv, [ViewNext]_<<vars, viewVars>> PROVE TellInv'
  OBVIOUS
<1>1. ViewInv' /\ EndsInv'
  BY ViewInvStep, EndsKeep DEF TellInv
<1>2. StepKinds
  <2>1. CASE ViewNext
    BY <2>1, StepsAre DEF TellInv
  <2>2. CASE UNCHANGED <<vars, viewVars>>
    BY <2>2 DEF vars, StepKinds, Nothing
  <2> QED BY <2>1, <2>2
<1>3. Orderly(emitted')
  BY <1>2, OrderKeeps DEF TellInv, ViewInv, Timed
<1>4. Told(view', emitted', Len(received'), forgotten')
  BY <1>2, <1>3, ToldKeeps
<1> QED BY <1>1, <1>3, <1>4 DEF TellInv

(* A text that quotes the numbers shows them in order.                     *)
LEMMA ToldIsShown ==
  ASSUME NEW text, NEW numbers, \A n \in numbers : n \in Nat /\ n # Marker,
         NEW headless \in BOOLEAN, Quotes(text, numbers, headless)
  PROVE  LET cut   == Marker \in ToSet(text)
             shown == IF cut THEN Front(text) ELSE text
         IN  InOrder(shown, numbers, headless, cut)
<1>1. text \in Seq(Nat) /\ Len(text) \in Nat /\ MaxText \in Nat /\ DOMAIN text = 1..Len(text)
  BY LenProperties, ViewAssumption DEF Quotes
<1>2. PICK cut \in BOOLEAN : cut = (Marker \in ToSet(text))
  <2>1. CASE Marker \in ToSet(text)
    <3>1. TRUE = (Marker \in ToSet(text))
      BY <2>1
    <3> QED BY <3>1
  <2>2. CASE Marker \notin ToSet(text)
    <3>1. FALSE = (Marker \in ToSet(text))
      BY <2>2
    <3> QED BY <3>1
  <2> QED BY <2>1, <2>2
<1>3. cut <=> \E i \in 1..Len(text) : text[i] = Marker
  BY <1>1, <1>2 DEF ToSet
<1>4. cut <=> Len(text) > MaxText
  <2>1. CASE Len(text) > MaxText
    <3>1. MaxText + 1 \in 1..Len(text) /\ text[MaxText + 1] = Marker
      BY <1>1, <2>1 DEF Quotes
    <3> QED BY <1>3, <2>1, <3>1
  <2>2. CASE ~(Len(text) > MaxText)
    <3>1. Uncut(text) = Len(text)
      BY <2>2 DEF Uncut
    <3> QED BY <1>3, <2>2, <3>1 DEF Quotes
  <2> QED BY <2>1, <2>2
<1>5. PICK shown : shown = IF cut THEN Front(text) ELSE text
  OBVIOUS
<1>6. DOMAIN shown = 1..Uncut(text) /\ \A i \in 1..Uncut(text) : shown[i] = text[i]
  <2>1. CASE cut
    <3>1. Len(text) = MaxText + 1 /\ Uncut(text) = MaxText
      BY <1>4, <2>1 DEF Quotes, Uncut
    <3>2. shown = SubSeq(text, 1, MaxText)
      BY <1>1, <1>5, <2>1, <3>1 DEF Front
    <3>3. \A i \in 1..MaxText : text[i] \in Nat
      BY <1>1, <3>1, ElementOfSeq
    <3>4. /\ SubSeq(text, 1, MaxText) \in Seq(Nat) /\ Len(SubSeq(text, 1, MaxText)) = MaxText
          /\ \A i \in 1..MaxText : SubSeq(text, 1, MaxText)[i] = text[i]
      BY <1>1, <3>3, SubSeqProperties
    <3>5. DOMAIN shown = 1..Len(shown)
      BY <3>2, <3>4
    <3> QED BY <3>1, <3>2, <3>4, <3>5
  <2>2. CASE ~cut
    BY <1>1, <1>4, <1>5, <2>2 DEF Uncut
  <2> QED BY <2>1, <2>2
<1>7. \A n : n \in ToSet(shown) <=> \E i \in 1..Uncut(text) : text[i] = n
  BY <1>6 DEF ToSet
<1>8. \A i, j \in DOMAIN shown : i < j => shown[i] < shown[j]
  BY <1>6 DEF Quotes
<1>9. ToSet(shown) \subseteq numbers
  BY <1>7 DEF Quotes
<1>10. ASSUME NEW n \in numbers \ ToSet(shown)
       PROVE  \/ headless /\ \A i \in DOMAIN shown : n < shown[i]
              \/ cut /\ \A i \in DOMAIN shown : shown[i] < n
  <2>1. ~\E i \in 1..Uncut(text) : text[i] = n
    BY <1>7
  <2>2. \/ headless /\ \A i \in 1..Uncut(text) : n < text[i]
        \/ Len(text) > MaxText /\ \A i \in 1..Uncut(text) : text[i] < n
    BY <2>1 DEF Quotes
  <2> QED BY <1>4, <1>6, <2>2
<1>11. InOrder(shown, numbers, headless, cut)
  BY <1>8, <1>9, <1>10 DEF InOrder
<1> QED BY <1>2, <1>5, <1>11

(* Streams that relay the output show it in order.                         *)
LEMMA RelaysIsShown ==
  ASSUME NEW streams, NEW numbers, Relays(streams, numbers)
  PROVE  InOrder(streams, numbers, Len(streams) = MaxText, FALSE)
<1>1. DOMAIN streams = 1..Len(streams)
  BY LenProperties DEF Relays
<1>2. \A n : n \in ToSet(streams) <=> \E i \in 1..Len(streams) : streams[i] = n
  BY <1>1 DEF ToSet
<1> QED BY <1>1, <1>2 DEF Relays, InOrder

(* The answer is shown.                                                    *)
LEMMA TellsAnswer == TellInv => AnswerShown
<1> SUFFICES ASSUME TellInv, NEW i \in DOMAIN view.messages,
                    view.messages[i].role = "assistant", view.messages[i].id = 0
             PROVE  LET text == view.messages[i].text
                        cut  == Marker \in ToSet(text)
                    IN  InOrder(IF cut THEN Front(text) ELSE text, NumbersOf(Seen, "delta"), forgotten, cut)
  BY DEF AnswerShown
<1>1. PICK numbers : numbers = Deltas(emitted, Len(received))
  OBVIOUS
<1>2. numbers = NumbersOf(Seen, "delta")
  BY <1>1 DEF Deltas, NumbersOf, Seen
<1>3. i \in 1..Len(view.messages) /\ forgotten \in BOOLEAN
      /\ emitted \in Seq(Events) /\ Len(received) \in 0..Len(emitted) /\ Len(emitted) \in Nat
      /\ said \in Nat /\ EventsTimed(emitted, clock, said)
      /\ AnswerTold(view.messages, numbers, forgotten)
  <2>1. view.messages \in Seq(MessageRows)
    BY DEF TellInv, ViewInv, Timed, ViewTimed, Views
  <2>2. i \in 1..Len(view.messages)
    BY <2>1, LenProperties
  <2> QED BY <1>1, <2>2, LenProperties DEF TellInv, ViewInv, Timed, Told
<1>4. \A n \in numbers : n \in Nat /\ n # Marker
  <2>1. \A j \in 1..Len(received) : j \in 1..Len(emitted)
    BY <1>3
  <2>2. \A j \in 1..Len(emitted) : emitted[j].n \in 1..said
    BY <1>3 DEF EventsTimed, Within
  <2>3. \A n \in numbers : n \in 1..said
    BY <1>1, <2>1, <2>2 DEF Deltas
  <2> QED BY <1>3, <2>3 DEF Marker
<1>5. Quotes(view.messages[i].text, numbers, forgotten)
  BY <1>3 DEF AnswerTold
<1> QED BY <1>2, <1>3, <1>4, <1>5, ToldIsShown

(* Every tool call is shown with its status and the latest of its output.  *)
LEMMA TellsTools == TellInv => ToolsShown
<1> SUFFICES ASSUME TellInv PROVE ToolsShown
  OBVIOUS
<1> DEFINE starts(id) == {i \in Seen : emitted[i].kind = "start" /\ emitted[i].call = id}
           since(id)  == {i \in Seen : emitted[i].call = id /\ \A s \in starts(id) : s <= i}
<1>1. PICK k \in Nat : k = Len(received) /\ Seen = 1..k
  BY DEF TellInv, ViewInv, Timed, Seen
<1>2. view.tools \in Seq(ToolRows) /\ DOMAIN view.tools = 1..Len(view.tools) /\ Len(view.tools) \in Nat
  <2>1. view.tools \in Seq(ToolRows)
    BY DEF TellInv, ViewInv, Timed, ViewTimed, Views
  <2> QED BY <2>1, LenProperties
<1>3. RowsTold(view.tools, emitted, k) /\ (forgotten \/ CallsHaveRows(view.tools, emitted, k))
  BY <1>1 DEF TellInv, Told, ToolsTold
<1>4. ASSUME NEW id, NEW status, NEW streams, CallTold(id, status, streams, emitted, k)
      PROVE  LET kind == {emitted[j].kind : j \in since(id)} IN
             /\ starts(id) # {}
             /\ status = IF "ok" \in kind THEN "success"
                         ELSE IF "failed" \in kind THEN "error" ELSE "running"
             /\ Len(streams) <= MaxText
             /\ InOrder(streams, NumbersOf(since(id), "stream"), Len(streams) = MaxText, FALSE)
  <2>1. PICK s \in 1..k : /\ LatestBegin(emitted, k, id, s)
                          /\ status = StatusOf(emitted, s, k, id)
                          /\ Relays(streams, Output(emitted, s, k, id))
    BY <1>4 DEF CallTold
  <2>2. s \in starts(id)
    BY <1>1, <2>1 DEF LatestBegin, Begins
  <2>3. \A t \in starts(id) : t \in 1..k /\ t <= s
    <3> TAKE t \in starts(id)
    <3>1. t \in 1..k /\ Begins(emitted[t], id)
      BY <1>1 DEF Begins
    <3>2. ~(t <= s) => t \in (s + 1)..k
      BY <3>1
    <3> QED BY <2>1, <3>1, <3>2 DEF LatestBegin
  <2>4. \A i \in 1..k : (\A t \in starts(id) : t <= i) <=> s <= i
    BY <2>2, <2>3
  <2>5. \A i \in s..k : i \in 1..k /\ s <= i
    BY <2>1
  <2>6. \A i \in 1..k : s <= i => i \in s..k
    BY <2>1
  <2>7. \A i : i \in since(id) <=> i \in s..k /\ emitted[i].call = id
    BY <1>1, <2>4, <2>5, <2>6
  <2> HIDE DEF since
  <2>8. \A kind \in {"ok", "failed"} :
          kind \in {emitted[j].kind : j \in since(id)} <=> Ended(emitted, s, k, id, kind)
    BY <2>7 DEF Ended
  <2>9. {j \in since(id) : emitted[j].kind = "stream"}
          = {j \in s..k : emitted[j].kind = "stream" /\ emitted[j].call = id}
    BY <2>7
  <2>10. NumbersOf(since(id), "stream") = Output(emitted, s, k, id)
    BY <2>9 DEF NumbersOf, Output
  <2>11. InOrder(streams, NumbersOf(since(id), "stream"), Len(streams) = MaxText, FALSE)
    BY <2>1, <2>10, RelaysIsShown
  <2>12. status = IF "ok" \in {emitted[j].kind : j \in since(id)} THEN "success"
                  ELSE IF "failed" \in {emitted[j].kind : j \in since(id)} THEN "error" ELSE "running"
    BY <2>1, <2>8 DEF StatusOf
  <2>13. Len(streams) <= MaxText
    BY <2>1 DEF Relays
  <2> QED BY <2>2, <2>11, <2>12, <2>13
<1>5. \A i \in DOMAIN view.tools :
        CallTold(view.tools[i].id, view.tools[i].status, view.tools[i].streams, emitted, k)
  BY <1>2, <1>3 DEF RowsTold
<1>6. forgotten \/ \A i \in Seen :
        emitted[i].kind = "start" => \E j \in DOMAIN view.tools : view.tools[j].id = emitted[i].call
  BY <1>1, <1>2, <1>3 DEF CallsHaveRows
<1>7. \A i \in DOMAIN view.tools :
        LET row  == view.tools[i]
            kind == {emitted[j].kind : j \in since(row.id)}
        IN  /\ starts(row.id) # {}
            /\ row.status = IF "ok" \in kind THEN "success"
                            ELSE IF "failed" \in kind THEN "error" ELSE "running"
            /\ Len(row.streams) <= MaxText
            /\ InOrder(row.streams, NumbersOf(since(row.id), "stream"), Len(row.streams) = MaxText, FALSE)
  BY <1>4, <1>5, Zenon
<1> QED BY <1>6, <1>7, Zenon DEF ToolsShown

(* After the end of the run nothing is shown as going on.                  *)
LEMMA TellsEnd == TellInv => NothingGoesOn
<1> SUFFICES ASSUME TellInv, closedBy = "done", emitted[Len(received)].kind # "error"
             PROVE  /\ \A i \in DOMAIN view.messages : ~view.messages[i].streaming
                    /\ \A i \in DOMAIN view.tools : view.tools[i].status # "running"
  BY DEF NothingGoesOn
<1>1. PICK k \in Nat : k = Len(received) /\ k = Len(emitted)
  BY DEF TellInv, ViewInv, IInv, StreamIsTheRun, Timed, End
<1>2. k > 0 /\ emitted[k].kind = "done"
  BY <1>1 DEF TellInv, EndsInv, End
<1>3. DOMAIN view.messages = 1..Len(view.messages) /\ DOMAIN view.tools = 1..Len(view.tools)
  <2>1. view.messages \in Seq(MessageRows) /\ view.tools \in Seq(ToolRows)
    BY DEF TellInv, ViewInv, Timed, ViewTimed, Views
  <2> QED BY <2>1, LenProperties
<1>4. \A i \in DOMAIN view.messages : ~view.messages[i].streaming
  BY <1>1, <1>2, <1>3 DEF TellInv, Told, Stilled
<1>5. ASSUME NEW i \in DOMAIN view.tools
      PROVE  view.tools[i].status # "running"
  <2>1. PICK id, status : id = view.tools[i].id /\ status = view.tools[i].status
    OBVIOUS
  <2>2. PICK s \in 1..k : LatestBegin(emitted, k, id, s) /\ status = StatusOf(emitted, s, k, id)
    BY <1>1, <1>3, <2>1 DEF TellInv, Told, ToolsTold, RowsTold, CallTold
  <2>3. emitted[s].kind = "start" /\ emitted[s].call = id
    BY <2>2 DEF LatestBegin, Begins
  <2>4. s < k /\ k \in 1..k
    <3>1. s # k
      BY <1>2, <2>3
    <3> QED BY <1>2, <2>2, <3>1
  <2>5. PICK h \in (s + 1)..k : emitted[h].kind \in {"ok", "failed"} /\ emitted[h].call = id
    BY <1>1, <1>2, <2>3, <2>4 DEF TellInv, Orderly
  <2>6. h \in s..k
    OBVIOUS
  <2>7. Ended(emitted, s, k, id, "ok") \/ Ended(emitted, s, k, id, "failed")
    BY <2>5, <2>6 DEF Ended
  <2> QED BY <2>1, <2>2, <2>7 DEF StatusOf
<1> QED BY <1>4, <1>5

(* At every moment the view tells what has arrived of the run: the answer's*)
(* text in order, cut only with the marker; each tool call with its status *)
(* and the latest of its output; and nothing streaming or running once the *)
(* run has ended well (reduceCliState and compactCliState of cli-state.ts, *)
(* fed by the stream of the run and by the CLI itself).                    *)
THEOREM ViewTold == ViewSpec => []ViewTellsTheRun
<1>1. ViewInit => TellInv
  BY TellInvInit
<1>2. TellInv /\ [ViewNext]_<<vars, viewVars>> => TellInv'
  BY TellInvStep
<1>3. TellInv => ViewTellsTheRun
  BY TellsAnswer, TellsTools, TellsEnd DEF ViewTellsTheRun
<1> QED BY <1>1, <1>2, <1>3, PTL DEF ViewSpec
=============================================================================
