------------------------------ MODULE EventBus ------------------------------
(***************************************************************************)
(* EventBus of src/src/events/event-bus.ts.                                *)
(*                                                                         *)
(* Everything is synchronous, so nothing interleaves.  What makes the bus  *)
(* hard is that a listener is a program: while it is called it may         *)
(* subscribe, unsubscribe, emit, clear, replay, or throw.  The state is    *)
(* therefore the stack of the loops that wait for a listener to return:    *)
(* the code that runs is the listener called by the top frame or, when the *)
(* stack is empty, the program that uses the bus.                          *)
(***************************************************************************)
EXTENDS Naturals, FiniteSets, SequencesExt

CONSTANTS
  Types,           \* event types
  Fns,             \* functions that callers pass to on() and off()
  Wildcard,        \* the pseudo type "*"
  MaxHistorySize,
  MaxEmits,        \* bound: calls of emit
  MaxRegs,         \* bound: calls of on and once that add an entry
  MaxDepth         \* bound: nested loops

Once    == "once"     \* the wrapper function a call of once() creates
Dropped == "dropped"  \* the type of an event that middleware dropped
AnyType == "any"      \* replay() without a type

ASSUME BusAssumption ==
  /\ Wildcard \notin Types
  /\ {Dropped, AnyType} \cap Types = {}
  /\ Once \notin Fns
  /\ MaxHistorySize \in Nat \ {0}
  /\ {MaxEmits, MaxRegs, MaxDepth} \subseteq Nat

VARIABLES
  regs,       \* listenersByType: entries of the sets, numbered by insertion
  inserted,   \* entries inserted so far
  history,    \* historyBuffer: the numbers of the retained events
  typeOf,     \* type of each emitted event once the middleware has run
  stack,      \* loops over listeners (emit) or over events (replay)
  (* history variables, read by properties only *)
  published,  \* events that reached the history since the last clear()
  heard,      \* <<entry, event>>: the entry was called with the event
  missed      \* <<entry, event>>: a subscriber that an emit passed over

vars == <<regs, inserted, history, typeOf, stack, published, heard, missed>>

Event == 1..MaxEmits

Reg == [seq: 1..MaxRegs, channel: Types \cup {Wildcard}, fn: Fns \cup {Once}]

(* The loops of emit: it has called the entry number cursor of this stage. *)
EmitFrame == [event: Event, stage: {"typed", "wild"}, cursor: 0..MaxRegs,
              audience: SUBSET (1..MaxRegs)]

(* The loop of replay: it has called the listener with the event at pos.   *)
(* It runs over the history itself, or over a copy of what was due.        *)
ReplayFrame == [live: BOOLEAN, items: Seq(Event), due: SUBSET (1..MaxHistorySize),
                pos: 1..MaxHistorySize, given: Seq(Event)]

TypeOK ==
  /\ regs \subseteq Reg
  /\ inserted \in 0..MaxRegs
  /\ history \in Seq(Event) /\ Len(history) <= MaxHistorySize
  /\ typeOf \in Seq(Types \cup {Dropped})
  /\ stack \in Seq(EmitFrame \cup ReplayFrame)
  /\ published \in Seq(Event)
  /\ heard \subseteq (1..MaxRegs) \X Event
  /\ missed \subseteq (1..MaxRegs) \X Event

Init ==
  /\ regs = {}
  /\ inserted = 0
  /\ history = <<>>
  /\ typeOf = <<>>
  /\ stack = <<>>
  /\ published = <<>>
  /\ heard = {}
  /\ missed = {}

-----------------------------------------------------------------------------
LastOf(s, n) == SubSeq(s, Len(s) - n + 1, Len(s))

Retained_OffByOne(buffer) ==
  IF Len(buffer) > MaxHistorySize + 1 THEN LastOf(buffer, MaxHistorySize) ELSE buffer

Retained_DropsNewest(buffer) ==
  IF Len(buffer) > MaxHistorySize THEN SubSeq(buffer, 1, MaxHistorySize) ELSE buffer

Retained(buffer) ==
  IF Len(buffer) > MaxHistorySize THEN LastOf(buffer, MaxHistorySize) ELSE buffer

Stored(buffer, event) == Retained(Append(buffer, event))

Earliest(entries) == {r \in entries : \A q \in entries : r.seq <= q.seq}

Candidates(f, entries) ==
  LET typed == {r \in entries : /\ f.stage = "typed"
                                /\ r.channel = typeOf'[f.event]
                                /\ r.seq > f.cursor}
      wild  == {r \in entries : /\ r.channel = Wildcard
                                /\ f.stage = "typed" \/ r.seq > f.cursor}
  IN IF typed # {} THEN typed ELSE wild

(* An array iterated by index, in place of the Set: an entry that removes  *)
(* itself makes the loop pass over the one that follows it.                *)
NextEntry_ByIndex(f, entries) ==
  LET passedOver == IF f.cursor = 0 \/ \E r \in entries : r.seq = f.cursor
                    THEN {} ELSE Earliest(Candidates(f, entries))
  IN Earliest(Candidates(f, entries \ passedOver))

(* Iterating a Set visits its entries in insertion order: one deleted      *)
(* before its turn is not visited, and one added meanwhile is.             *)
NextEntry(f, entries) == Earliest(Candidates(f, entries))

(* The entries that are left when r has been called up to its listener:    *)
(* the wrapper of once() unsubscribes itself before it calls the listener. *)
AfterCall(entries, r) == IF r.fn = Once THEN entries \ {r} ELSE entries

Stage(r) == IF r.channel = Wildcard THEN "wild" ELSE "typed"

(* The loop f has come to the entry r, or past it.                         *)
HasReached(f, r) ==
  IF Stage(r) = f.stage THEN r.seq <= f.cursor ELSE f.stage = "wild"

(* Of these entries, those that were there when emit began and have not    *)
(* been called.                                                            *)
LeftOut(f, entries) ==
  {<<r.seq, f.event>> : r \in {q \in entries : q.seq \in f.audience}} \ heard

(* The loop f of emit goes on above the frames below: it calls the next    *)
(* entry or, after the last one, returns the event.                        *)
Deliver(f, below) ==
  \/ \E r \in NextEntry(f, regs) :
       /\ stack' = Append(below, [f EXCEPT !.stage = Stage(r), !.cursor = r.seq])
       /\ regs' = AfterCall(regs, r)
       /\ heard' = heard \cup {<<r.seq, f.event>>}
       /\ UNCHANGED missed
  \/ /\ NextEntry(f, regs) = {}
     /\ stack' = below
     /\ missed' = missed \cup LeftOut(f, regs)
     /\ UNCHANGED <<regs, heard>>

-----------------------------------------------------------------------------
(* What the running code may do.                                           *)

(* on(): adding a function again to a Set that holds it changes nothing.   *)
Subscribe(fn, channel) ==
  /\ inserted < MaxRegs
  /\ ~\E r \in regs : r.fn = fn /\ r.channel = channel
  /\ inserted' = inserted + 1
  /\ regs' = regs \cup {[seq |-> inserted + 1, channel |-> channel, fn |-> fn]}
  /\ UNCHANGED <<history, typeOf, stack, published, heard, missed>>

(* once(): the wrapper is a function of its own, so nothing is a duplicate. *)
SubscribeOnce(channel) ==
  /\ inserted < MaxRegs
  /\ inserted' = inserted + 1
  /\ regs' = regs \cup {[seq |-> inserted + 1, channel |-> channel, fn |-> Once]}
  /\ UNCHANGED <<history, typeOf, stack, published, heard, missed>>

(* off(), or the function that on() and once() return.                     *)
Unsubscribe ==
  /\ \E r \in regs : regs' = regs \ {r}
  /\ UNCHANGED <<inserted, history, typeOf, stack, published, heard, missed>>

(* emit(): middleware may change the type or drop the event; otherwise it  *)
(* is stored and the loops begin.                                          *)
Emit ==
  /\ Len(typeOf) < MaxEmits
  /\ Len(stack) < MaxDepth
  /\ UNCHANGED inserted
  /\ LET event == Len(typeOf) + 1 IN
     \/ /\ typeOf' = Append(typeOf, Dropped)
        /\ UNCHANGED <<regs, history, stack, published, heard, missed>>
     \/ \E type \in Types :
          /\ typeOf' = Append(typeOf, type)
          /\ history' = Stored(history, event)
          /\ published' = Append(published, event)
          /\ Deliver([event |-> event, stage |-> "typed", cursor |-> 0,
                      audience |-> {r.seq : r \in
                        {q \in regs : q.channel \in {type, Wildcard}}}], stack)

Clear ==
  /\ history' = <<>>
  /\ published' = <<>>
  /\ UNCHANGED <<regs, inserted, typeOf, stack, heard, missed>>

(* The places in the history of the events that replay() is asked for:     *)
(* those of the type and, of these, no more than the limit.                *)
Replayable(type, limit) ==
  LET matching == {i \in DOMAIN history : type = AnyType \/ typeOf[history[i]] = type}
  IN  {i \in matching : limit = 0 \/ Cardinality({j \in matching : i <= j}) <= limit}

FirstOf(places) == {i \in places : \A j \in places : i <= j}

(* replay(): a filter or a limit makes a copy, without them the loop runs  *)
(* over the history buffer itself.                                         *)
Replay(type, limit) ==
  LET live == type = AnyType /\ limit = 0
      due  == Replayable(type, limit)
  IN
  /\ Len(stack) < MaxDepth
  /\ \E i \in FirstOf(due) :
       stack' = Append(stack, [live |-> live, items |-> IF live THEN <<>> ELSE history,
                               due |-> IF live THEN {} ELSE due,
                               pos |-> i, given |-> <<history[i]>>])
  /\ UNCHANGED <<regs, inserted, history, typeOf, published, heard, missed>>

(* The listener returns to the loop that called it, which goes on.         *)
ReturnToEmit ==
  /\ stack # <<>>
  /\ Last(stack) \in EmitFrame
  /\ UNCHANGED <<inserted, history, typeOf, published>>
  /\ Deliver(Last(stack), Front(stack))

ReturnToReplay ==
  /\ stack # <<>>
  /\ Last(stack) \in ReplayFrame
  /\ LET f     == Last(stack)
         items == IF f.live THEN history ELSE f.items
         ahead == {i \in IF f.live THEN DOMAIN history ELSE f.due : i > f.pos}
     IN
     \/ \E i \in FirstOf(ahead) :
          stack' = Append(Front(stack), [f EXCEPT !.pos = i, !.given = Append(@, items[i])])
     \/ ahead = {} /\ stack' = Front(stack)
  /\ UNCHANGED <<regs, inserted, history, typeOf, published, heard, missed>>

(* The listener throws: no loop catches, so the call of emit or replay     *)
(* throws, the remaining listeners do not see the event, and the code that *)
(* had called emit or replay catches or throws in its turn.                *)
Throw ==
  /\ stack # <<>>
  /\ stack' = Front(stack)
  /\ missed' = missed \cup
       LET f == Last(stack) IN
       IF f \in EmitFrame THEN LeftOut(f, {r \in regs : HasReached(f, r)}) ELSE {}
  /\ UNCHANGED <<regs, inserted, history, typeOf, published, heard>>

Next ==
  \/ \E channel \in Types \cup {Wildcard} :
       \/ \E fn \in Fns : Subscribe(fn, channel)
       \/ SubscribeOnce(channel)
  \/ Unsubscribe
  \/ Emit
  \/ Clear
  \/ \E type \in Types \cup {AnyType}, limit \in 0..MaxHistorySize : Replay(type, limit)
  \/ ReturnToEmit
  \/ ReturnToReplay
  \/ Throw

Spec == Init /\ [][Next]_vars

-----------------------------------------------------------------------------
(* Properties.                                                             *)

(* Whoever was subscribed when an event was emitted, and still is when the *)
(* emit returns, has heard the event, whatever the listeners before it     *)
(* subscribed, removed or emitted.  If a listener ends the emit by         *)
(* throwing, that holds of those whose turn had come.  And the listener    *)
(* given to once() is called once, although it may emit the same event     *)
(* before it has returned.                                                 *)
SubscribersHear ==
  /\ missed = {}
  /\ \A r \in regs : r.fn = Once => ~\E e \in Event : <<r.seq, e>> \in heard

(* The history holds the latest published events, in the order of their    *)
(* emit calls, although a nested event is heard before the event whose     *)
(* listener emitted it.  "History replay returns retained published events *)
(* in order." (docs/event-contract.md:19): a replay never gives an event   *)
(* twice, or an older one after a newer one, although its listener may     *)
(* emit into the buffer, or clear it, while the loop is in it.             *)
HistoryInOrder ==
  /\ history = IF Len(published) > MaxHistorySize
               THEN LastOf(published, MaxHistorySize) ELSE published
  /\ \A i \in 1..Len(stack) :
       stack[i] \in ReplayFrame =>
         \A j, k \in 1..Len(stack[i].given) : j < k => stack[i].given[j] < stack[i].given[k]
=============================================================================
