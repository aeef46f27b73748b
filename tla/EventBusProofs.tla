---------------------------- MODULE EventBusProofs ----------------------------
(***************************************************************************)
(* Proofs about EventBus, for any types, functions and bounds, however     *)
(* deep the listeners call the bus from inside its loops.                  *)
(***************************************************************************)
EXTENDS EventBus, SequenceTheorems, WellFoundedInduction, TLAPS

Frames == EmitFrame \cup ReplayFrame

(* TypeOK, and that numbers are given out in order.                        *)
RegsInv ==
  /\ regs \subseteq Reg /\ inserted \in 0..MaxRegs
  /\ \A r \in regs : r.seq <= inserted
  /\ \A r, q \in regs : r.seq = q.seq => r = q
  /\ heard \subseteq (1..inserted) \X Event

HistoryInv ==
  /\ typeOf \in Seq(Types \cup {Dropped}) /\ Len(typeOf) <= MaxEmits
  /\ published \in Seq(Event)
  /\ history \in Seq(Event) /\ history = Retained(published)
  /\ \A i \in 1..Len(history) : history[i] <= Len(typeOf)
  /\ \A i, j \in 1..Len(history) : i < j => history[i] < history[j]

(* The loop f of emit has called all subscribers that it has come to.      *)
Reached(f) ==
  /\ f.event <= Len(typeOf) /\ typeOf[f.event] \in Types /\ f.audience \subseteq 1..inserted
  /\ \A r \in regs : r.seq \in f.audience =>
       /\ r.channel \in {typeOf[f.event], Wildcard}
       /\ HasReached(f, r) => <<r.seq, f.event>> \in heard

(* What the loop f of replay has yet to give is newer than what it gave.   *)
Ascending(f) ==
  /\ f.given # <<>>
  /\ \A j, k \in 1..Len(f.given) : j < k => f.given[j] < f.given[k]
  /\ \A j \in 1..Len(f.given) : f.given[j] <= Len(typeOf)
  /\ f.live => \A i \in 1..Len(history) : i > f.pos => f.given[Len(f.given)] < history[i]
  /\ ~f.live =>
       /\ f.due \subseteq 1..Len(f.items)
       /\ \A i \in f.due : i > f.pos => f.given[Len(f.given)] < f.items[i]
       /\ \A i \in 1..Len(f.items) : f.items[i] <= Len(typeOf)
       /\ \A i, j \in 1..Len(f.items) : i < j => f.items[i] < f.items[j]

FrameOK(f) == (f \in EmitFrame => Reached(f)) /\ (f \in ReplayFrame => Ascending(f))

StackInv ==
  /\ stack \in Seq(Frames)
  /\ \A i \in 1..Len(stack) : FrameOK(stack[i])

HeardInv ==
  /\ missed = {}
  /\ \A r \in regs : r.fn = Once => ~\E e \in Event : <<r.seq, e>> \in heard

IInv == RegsInv /\ HistoryInv /\ StackInv /\ HeardInv

-----------------------------------------------------------------------------
(* Stacks, and the retained part of a sequence.                            *)

LEMMA HasLeast ==
  ASSUME NEW S \in SUBSET Nat, S # {}
  PROVE  \E x \in S : \A y \in S : x <= y
<1>1. IsWellFoundedOn(OpToRel(<, Nat), Nat)
  BY NatLessThanWellFounded, Zenon
<1>2. PICK x \in S : \A y \in S : ~(<<y, x>> \in OpToRel(<, Nat))
  BY <1>1, WFMin, Zenon
<1>3. \A y \in S : ~(y < x)
  BY <1>2 DEF OpToRel
<1>4. QED
  BY <1>3

LEMMA EventNat == Event \subseteq Nat /\ MaxEmits \in Nat /\ MaxRegs \in Nat
BY BusAssumption DEF Event

LEMMA ElementsNat ==
  ASSUME NEW s \in Seq(Event), NEW i \in 1..Len(s)
  PROVE  s[i] \in Event /\ s[i] \in Nat
<1>1. s[i] \in Event
  OBVIOUS
<1>2. QED
  BY <1>1, EventNat

LEMMA FramesDiffer == \A f \in EmitFrame : f \notin ReplayFrame
BY DEF EmitFrame, ReplayFrame

LEMMA FrontFacts ==
  ASSUME NEW S, NEW s \in Seq(S), s # <<>>
  PROVE  /\ Front(s) \in Seq(S) /\ Len(Front(s)) = Len(s) - 1
         /\ \A i \in 1..Len(Front(s)) : Front(s)[i] = s[i]
<1>1. Len(s) \in Nat /\ Len(s) # 0 /\ Len(s) - 1 \in Nat
  OBVIOUS
<1>2. \A i \in 1..Len(s) - 1 : s[i] \in S
  BY <1>1
<1>3. ASSUME NEW n \in Int, n = Len(s) - 1
      PROVE  /\ SubSeq(s, 1, n) \in Seq(S) /\ Len(SubSeq(s, 1, n)) = n
             /\ \A i \in 1..n : SubSeq(s, 1, n)[i] = s[i]
  <2>1. n \in Nat /\ n - 1 + 1 = n /\ \A i \in 1..n : s[i] \in S /\ 1 + i - 1 = i
    BY <1>1, <1>2, <1>3
  <2>2. /\ SubSeq(s, 1, n) \in Seq(S)
        /\ Len(SubSeq(s, 1, n)) = IF 1 <= n THEN n - 1 + 1 ELSE 0
        /\ \A i \in 1..n - 1 + 1 : SubSeq(s, 1, n)[i] = s[1 + i - 1]
    BY <2>1, SubSeqProperties
  <2> DEFINE r == SubSeq(s, 1, n)
  <2> HIDE DEF r
  <2>3. r \in Seq(S) /\ (Len(r) = IF 1 <= n THEN n - 1 + 1 ELSE 0)
        /\ \A i \in 1..n - 1 + 1 : r[i] = s[1 + i - 1]
    BY <2>2 DEF r
  <2>4. r \in Seq(S) /\ Len(r) = n /\ \A i \in 1..n : r[i] = s[i]
    BY <2>1, <2>3
  <2>5. QED
    BY <2>4 DEF r
<1>4. PICK n \in Int : n = Len(s) - 1
  BY <1>1
<1>5. Front(s) = SubSeq(s, 1, n)
  BY <1>4 DEF Front
<1>6. /\ Front(s) \in Seq(S) /\ Len(Front(s)) = n
      /\ \A i \in 1..n : Front(s)[i] = s[i]
  BY <1>3, <1>4, <1>5, Zenon
<1>7. QED
  BY <1>4, <1>6

LEMMA StackTop ==
  ASSUME StackInv, stack # <<>>
  PROVE  /\ Last(stack) \in Frames /\ FrameOK(Last(stack))
         /\ Front(stack) \in Seq(Frames)
         /\ \A i \in 1..Len(Front(stack)) : FrameOK(Front(stack)[i])
<1>1. stack \in Seq(Frames) /\ Len(stack) \in Nat \ {0}
  BY DEF StackInv
<1>2. Front(stack) \in Seq(Frames) /\ Len(Front(stack)) = Len(stack) - 1
      /\ \A i \in 1..Len(Front(stack)) : Front(stack)[i] = stack[i]
  BY <1>1, FrontFacts
<1>3. QED
  BY <1>1, <1>2 DEF StackInv, Last

LEMMA Pushes ==
  ASSUME NEW below \in Seq(Frames), NEW f \in Frames, stack' = Append(below, f),
         FrameOK(f)', \A i \in 1..Len(below) : FrameOK(below[i])'
  PROVE  StackInv'
<1>1. /\ stack' \in Seq(Frames) /\ Len(stack') = Len(below) + 1
      /\ stack'[Len(below) + 1] = f /\ Len(below) \in Nat
      /\ \A i \in 1..Len(below) : stack'[i] = below[i]
  OBVIOUS
<1>2. QED
  BY <1>1 DEF StackInv, FrameOK

LEMMA RetainedFacts ==
  ASSUME NEW s \in Seq(Event)
  PROVE  /\ Retained(s) \in Seq(Event) /\ Len(Retained(s)) <= MaxHistorySize
         /\ Len(s) <= MaxHistorySize => Retained(s) = s
         /\ Len(s) > MaxHistorySize =>
              /\ Len(Retained(s)) = MaxHistorySize
              /\ \A i \in 1..MaxHistorySize :
                   Retained(s)[i] = s[Len(s) - MaxHistorySize + i]
<1>1. CASE Len(s) <= MaxHistorySize
  BY <1>1, BusAssumption DEF Retained
<1>2. CASE Len(s) > MaxHistorySize
  <2>1. Retained(s) = SubSeq(s, Len(s) - MaxHistorySize + 1, Len(s))
    BY <1>2 DEF Retained, LastOf
  <2>2. QED
    BY <1>2, <2>1, BusAssumption
<1>3. QED
  BY <1>1, <1>2, BusAssumption

(* The history follows what is published.                                  *)
LEMMA RetainedAppends ==
  ASSUME NEW s \in Seq(Event), NEW e \in Event
  PROVE  Retained(Append(Retained(s), e)) = Retained(Append(s, e))
<1> DEFINE t == Retained(s)
           u == Append(t, e)
           v == Append(s, e)
<1>1. /\ t \in Seq(Event) /\ Len(t) <= MaxHistorySize
      /\ Len(s) <= MaxHistorySize => t = s
      /\ Len(s) > MaxHistorySize =>
           /\ Len(t) = MaxHistorySize
           /\ \A i \in 1..MaxHistorySize : t[i] = s[Len(s) - MaxHistorySize + i]
  BY RetainedFacts
<1>2. CASE Len(s) <= MaxHistorySize
  BY <1>1, <1>2
<1>3. CASE Len(s) > MaxHistorySize
  <2> HIDE DEF t
  <2>1. MaxHistorySize \in Nat \ {0}
    BY BusAssumption
  <2>2. /\ u \in Seq(Event) /\ Len(u) = MaxHistorySize + 1
        /\ \A i \in 1..MaxHistorySize : u[i] = t[i]
        /\ u[MaxHistorySize + 1] = e
    BY <1>1, <1>3, <2>1
  <2>3. /\ v \in Seq(Event) /\ Len(v) = Len(s) + 1
        /\ \A i \in 1..Len(s) : v[i] = s[i]
        /\ v[Len(s) + 1] = e
    OBVIOUS
  <2> HIDE DEF u, v
  <2>4. /\ Retained(u) \in Seq(Event) /\ Len(Retained(u)) = MaxHistorySize
        /\ \A i \in 1..MaxHistorySize : Retained(u)[i] = u[i + 1]
    BY <2>1, <2>2, RetainedFacts
  <2>5. /\ Retained(v) \in Seq(Event) /\ Len(Retained(v)) = MaxHistorySize
        /\ \A i \in 1..MaxHistorySize : Retained(v)[i] = v[Len(v) - MaxHistorySize + i]
    <3>1. Len(v) > MaxHistorySize
      BY <1>3, <2>1, <2>3
    <3>2. QED
      BY <2>3, <3>1, RetainedFacts
  <2>6. ASSUME NEW i \in 1..MaxHistorySize PROVE Retained(u)[i] = Retained(v)[i]
    <3>1. Retained(u)[i] = u[i + 1] /\ Retained(v)[i] = v[Len(s) - MaxHistorySize + (i + 1)]
      BY <2>1, <2>3, <2>4, <2>5
    <3>2. CASE i < MaxHistorySize
      <4>1. i + 1 \in 1..MaxHistorySize /\ Len(s) - MaxHistorySize + (i + 1) \in 1..Len(s)
        BY <1>3, <2>1, <3>2
      <4>2. u[i + 1] = t[i + 1] /\ t[i + 1] = s[Len(s) - MaxHistorySize + (i + 1)]
        BY <1>1, <1>3, <2>2, <4>1
      <4>3. v[Len(s) - MaxHistorySize + (i + 1)] = s[Len(s) - MaxHistorySize + (i + 1)]
        BY <2>3, <4>1
      <4>4. QED
        BY <3>1, <4>2, <4>3
    <3>3. CASE i = MaxHistorySize
      <4>1. Len(s) - MaxHistorySize + (i + 1) = Len(s) + 1
        BY <1>3, <2>1, <3>3
      <4>2. QED
        BY <2>2, <2>3, <3>1, <3>3, <4>1
    <3>4. QED
      BY <3>2, <3>3, <2>1
  <2>7. Retained(u) = Retained(v)
    BY <2>4, <2>5, <2>6
  <2>8. QED
    BY <2>7 DEF t, u, v
<1>4. Len(s) \in Nat /\ MaxHistorySize \in Nat
  BY BusAssumption
<1>5. QED
  BY <1>2, <1>3, <1>4

LEMMA InitInv == Init => IInv
BY BusAssumption
DEF Init, IInv, RegsInv, HistoryInv, StackInv, HeardInv, Retained, Frames

(* Storing an event appends it and may drop the oldest.                    *)
LEMMA StoredShift ==
  ASSUME HistoryInv, NEW e \in Event
  PROVE  \E shift \in Nat :
           /\ Len(Stored(history, e)) = Len(history) + 1 - shift
           /\ \A i \in 1..Len(Stored(history, e)) :
                /\ i + shift <= Len(history) => Stored(history, e)[i] = history[i + shift]
                /\ i + shift > Len(history) =>
                     i + shift = Len(history) + 1 /\ Stored(history, e)[i] = e
<1> DEFINE b == Append(history, e)
           t == Retained(b)
<1>1. /\ b \in Seq(Event) /\ Len(b) = Len(history) + 1 /\ Len(history) \in Nat
      /\ \A i \in 1..Len(history) : b[i] = history[i]
      /\ b[Len(history) + 1] = e
  BY DEF HistoryInv
<1>2. MaxHistorySize \in Nat \ {0}
  BY BusAssumption
<1> HIDE DEF b
<1>3. t \in Seq(Event)
      /\ (Len(b) <= MaxHistorySize => t = b)
      /\ (Len(b) > MaxHistorySize =>
            /\ Len(t) = MaxHistorySize
            /\ \A i \in 1..MaxHistorySize : t[i] = b[Len(b) - MaxHistorySize + i])
  BY <1>1, RetainedFacts
<1> HIDE DEF t
<1>4. CASE Len(b) <= MaxHistorySize
  <2>1. /\ Len(t) = Len(history) + 1 - 0
        /\ \A i \in 1..Len(t) : /\ i + 0 <= Len(history) => t[i] = history[i + 0]
                                /\ i + 0 > Len(history) => i + 0 = Len(history) + 1 /\ t[i] = e
    BY <1>1, <1>3, <1>4
  <2>2. QED
    BY <2>1 DEF t, b, Stored
<1>5. CASE Len(b) > MaxHistorySize
  <2>1. PICK shift \in Nat : shift = Len(b) - MaxHistorySize
    BY <1>1, <1>2, <1>5
  <2>2. Len(t) = Len(history) + 1 - shift
    BY <1>1, <1>2, <1>3, <1>5, <2>1
  <2>3. \A i \in 1..Len(t) : t[i] = b[i + shift] /\ i + shift \in 1..Len(b)
    BY <1>1, <1>2, <1>3, <1>5, <2>1
  <2>4. \A i \in 1..Len(t) :
          /\ i + shift <= Len(history) => t[i] = history[i + shift]
          /\ i + shift > Len(history) => i + shift = Len(history) + 1 /\ t[i] = e
    BY <1>1, <2>1, <2>3
  <2>5. QED
    BY <2>2, <2>4 DEF t, b, Stored
<1>6. QED
  BY <1>1, <1>2, <1>4, <1>5

-----------------------------------------------------------------------------
(* What the steps have in common.                                          *)

TypesGrow ==
  /\ typeOf' \in Seq(Types \cup {Dropped}) /\ Len(typeOf) <= Len(typeOf')
  /\ \A e \in 1..Len(typeOf) : typeOf'[e] = typeOf[e]

Stores ==
  /\ Len(typeOf) + 1 \in Event /\ Len(typeOf') = Len(typeOf) + 1
  /\ history' = Stored(history, Len(typeOf) + 1)
  /\ published' = Append(published, Len(typeOf) + 1)

HistoryMoves ==
  \/ history' = history /\ published' = published
  \/ history' = <<>> /\ published' = <<>>
  \/ Stores

RegsMove ==
  /\ inserted' \in Nat /\ inserted <= inserted' /\ heard \subseteq heard'
  /\ \A r \in regs' : r \in regs \/ r.seq > inserted

LEMMA HistoryKeeps ==
  ASSUME HistoryInv, TypesGrow, Len(typeOf') <= MaxEmits, HistoryMoves
  PROVE  HistoryInv'
<1>1. CASE history' = history /\ published' = published
  <2>1. /\ history' = Retained(published')
        /\ Len(typeOf) \in Nat /\ Len(typeOf') \in Nat /\ Len(typeOf) <= Len(typeOf')
    BY <1>1 DEF HistoryInv, TypesGrow
  <2>2. \A i \in 1..Len(history) : history[i] \in Nat
    BY ElementsNat DEF HistoryInv
  <2>3. \A i \in 1..Len(history) : history[i] <= Len(typeOf')
    BY <2>1, <2>2 DEF HistoryInv
  <2>4. QED
    BY <1>1, <2>1, <2>3 DEF HistoryInv, TypesGrow
<1>2. CASE history' = <<>> /\ published' = <<>>
  <2>1. MaxHistorySize \in Nat /\ Len(published') = 0 /\ Len(history') = 0
    BY <1>2, BusAssumption
  <2>2. Retained(published') = published'
    BY <2>1 DEF Retained
  <2>3. QED
    BY <1>2, <2>1, <2>2 DEF HistoryInv, TypesGrow
<1>3. CASE Stores
  <2> DEFINE e == Len(typeOf) + 1
  <2>1. e \in Event /\ Len(typeOf') = e /\ history' = Stored(history, e)
        /\ published' = Append(published, e) /\ published' \in Seq(Event)
    BY <1>3 DEF Stores, HistoryInv
  <2>2. /\ history \in Seq(Event) /\ published \in Seq(Event) /\ Len(typeOf) \in Nat
        /\ history = Retained(published)
        /\ \A i \in 1..Len(history) : history[i] \in Event /\ history[i] <= Len(typeOf)
        /\ \A i, j \in 1..Len(history) : i < j => history[i] < history[j]
    BY DEF HistoryInv
  <2>3. history' = Retained(published')
    BY <2>1, <2>2, RetainedAppends DEF Stored
  <2>4. history' \in Seq(Event)
    <3>1. Retained(published') \in Seq(Event)
      BY <2>1, RetainedFacts
    <3>2. QED
      BY <2>3, <3>1
  <2>5. PICK shift \in Nat :
           /\ Len(history') = Len(history) + 1 - shift
           /\ \A i \in 1..Len(history') :
                /\ i + shift <= Len(history) => history'[i] = history[i + shift]
                /\ i + shift > Len(history) => i + shift = Len(history) + 1 /\ history'[i] = e
    BY <2>1, StoredShift
  <2> HIDE DEF e
  <2>6. e \in Nat /\ e = Len(typeOf) + 1 /\ Len(history) \in Nat /\ Len(history') \in Nat
    BY <2>1, <2>2, <2>4 DEF e, Event
  <2>7. \A i \in 1..Len(history') : i + shift \in Nat /\ i + shift >= 1
    BY <2>6
  <2>8. \A i \in 1..Len(history') : history'[i] <= e
    <3> SUFFICES ASSUME NEW i \in 1..Len(history') PROVE history'[i] <= e
      OBVIOUS
    <3>1. CASE i + shift <= Len(history)
      <4>1. history'[i] = history[i + shift] /\ i + shift \in 1..Len(history)
        BY <2>5, <2>6, <2>7, <3>1
      <4>2. history[i + shift] \in Nat /\ history[i + shift] <= Len(typeOf)
        BY <2>2, <4>1 DEF Event
      <4>3. QED
        BY <2>2, <2>6, <4>1, <4>2
    <3>2. CASE i + shift > Len(history)
      BY <2>5, <2>6, <3>2
    <3>3. QED
      BY <2>6, <2>7, <3>1, <3>2
  <2>9. ASSUME NEW i \in 1..Len(history'), NEW j \in 1..Len(history'), i < j
        PROVE  history'[i] < history'[j]
    <3>1. i + shift <= Len(history) /\ i + shift >= 1 /\ i + shift < j + shift
      BY <2>5, <2>6, <2>9
    <3>2. history'[i] = history[i + shift] /\ history[i + shift] < e
      BY <2>2, <2>5, <2>6, <3>1 DEF Event
    <3>3. CASE j + shift <= Len(history)
      BY <2>2, <2>5, <2>6, <3>1, <3>2, <3>3
    <3>4. CASE j + shift > Len(history)
      BY <2>5, <3>2, <3>4
    <3>5. QED
      BY <3>3, <3>4, <2>6
  <2>10. QED
    BY <2>1, <2>3, <2>4, <2>6, <2>8, <2>9 DEF HistoryInv, TypesGrow
<1>4. QED
  BY <1>1, <1>2, <1>3 DEF HistoryMoves

(* A loop that waits for its listener is not disturbed.                    *)
LEMMA ReachedKeeps ==
  ASSUME RegsInv, HistoryInv, NEW f \in EmitFrame, Reached(f), TypesGrow, RegsMove
  PROVE  Reached(f)'
<1>1. f.event \in Event /\ f.event \in Nat /\ f.event >= 1 /\ Len(typeOf) \in Nat
      /\ Len(typeOf') \in Nat /\ inserted \in Nat
  BY BusAssumption DEF EmitFrame, Event, HistoryInv, TypesGrow, RegsInv
<1>2. f.event \in 1..Len(typeOf) /\ f.event <= Len(typeOf') /\ typeOf'[f.event] = typeOf[f.event]
  BY <1>1 DEF Reached, TypesGrow
<1>3. f.audience \subseteq 1..inserted /\ f.audience \subseteq 1..inserted'
  BY <1>1 DEF Reached, RegsMove
<1>4. ASSUME NEW r \in regs', r.seq \in f.audience
      PROVE  /\ r.channel \in {typeOf'[f.event], Wildcard}
             /\ HasReached(f, r) => <<r.seq, f.event>> \in heard'
  <2>1. r.seq \in 1..inserted
    BY <1>3, <1>4
  <2>2. r \in regs
    BY <1>1, <2>1 DEF RegsMove
  <2>3. QED
    BY <1>2, <1>4, <2>2 DEF Reached, RegsMove
<1>5. QED
  BY <1>2, <1>3, <1>4 DEF Reached

LEMMA AscendingKeeps ==
  ASSUME HistoryInv, NEW f \in ReplayFrame, Ascending(f), TypesGrow, HistoryMoves
  PROVE  Ascending(f)'
<1>1. /\ Len(typeOf) \in Nat /\ Len(typeOf') \in Nat /\ Len(typeOf) <= Len(typeOf')
      /\ history \in Seq(Event) /\ Len(history) \in Nat
      /\ f.given \in Seq(Event) /\ f.items \in Seq(Event) /\ f.pos \in Nat
  BY BusAssumption DEF HistoryInv, TypesGrow, ReplayFrame
<1>2. /\ \A j \in 1..Len(f.given) : f.given[j] \in Nat /\ f.given[j] <= Len(typeOf)
      /\ \A j \in 1..Len(f.items) : f.items[j] \in Nat
      /\ ~f.live => \A j \in 1..Len(f.items) : f.items[j] <= Len(typeOf)
  BY <1>1, ElementsNat DEF Ascending
<1>3. /\ \A j \in 1..Len(f.given) : f.given[j] <= Len(typeOf')
      /\ ~f.live => \A j \in 1..Len(f.items) : f.items[j] <= Len(typeOf')
  BY <1>1, <1>2
<1>4. ASSUME f.live, NEW i \in 1..Len(history'), i > f.pos
      PROVE  f.given[Len(f.given)] < history'[i]
  <2> DEFINE last == f.given[Len(f.given)]
  <2>1. last \in Nat /\ last <= Len(typeOf)
    BY <1>1, <1>2 DEF Ascending
  <2>2. \A k \in 1..Len(history) : k > f.pos => last < history[k]
    BY <1>4 DEF Ascending
  <2> HIDE DEF last
  <2>3. CASE history' = history
    BY <1>4, <2>2, <2>3 DEF last
  <2>4. CASE history' = <<>>
    BY <1>4, <2>4
  <2>5. CASE Stores
    <3>1. PICK shift \in Nat :
            \A k \in 1..Len(history') :
              /\ k + shift <= Len(history) => history'[k] = history[k + shift]
              /\ k + shift > Len(history) => history'[k] = Len(typeOf) + 1
      BY <2>5, StoredShift DEF Stores
    <3>2. i \in Nat /\ i + shift \in Nat /\ i + shift >= 1 /\ i + shift > f.pos
      BY <1>1, <1>4
    <3>3. CASE i + shift <= Len(history)
      <4>1. i + shift \in 1..Len(history) /\ history'[i] = history[i + shift]
        BY <1>1, <3>1, <3>2, <3>3
      <4>2. QED
        BY <2>2, <3>2, <4>1 DEF last
    <3>4. CASE i + shift > Len(history)
      BY <1>1, <2>1, <3>1, <3>4 DEF last
    <3>5. QED
      BY <1>1, <3>2, <3>3, <3>4
  <2>6. QED
    BY <2>3, <2>4, <2>5 DEF HistoryMoves
<1>5. QED
  BY <1>3, <1>4 DEF Ascending

LEMMA FrameKeeps ==
  ASSUME RegsInv, HistoryInv, NEW f \in Frames, FrameOK(f), TypesGrow, HistoryMoves, RegsMove
  PROVE  FrameOK(f)'
BY ReachedKeeps, AscendingKeeps DEF FrameOK

LEMMA StackKeeps ==
  ASSUME IInv, TypesGrow, HistoryMoves, RegsMove, UNCHANGED stack
  PROVE  StackInv'
BY FrameKeeps DEF IInv, StackInv

-----------------------------------------------------------------------------
(* A turn of the loop of emit.                                             *)

(* What a frame knows before its loop goes on; typeOf' may be newer.       *)
Ready(f) ==
  /\ f.event <= Len(typeOf') /\ typeOf'[f.event] \in Types /\ f.audience \subseteq 1..inserted
  /\ \A r \in regs : r.seq \in f.audience =>
       /\ r.channel \in {typeOf'[f.event], Wildcard}
       /\ HasReached(f, r) => <<r.seq, f.event>> \in heard

LEMMA RegFields ==
  ASSUME RegsInv, NEW r \in regs
  PROVE  r.seq \in Nat /\ r.seq \in 1..inserted /\ r.channel \in Types \cup {Wildcard}
<1>1. r \in Reg /\ r.seq <= inserted /\ inserted \in Nat
  BY EventNat DEF RegsInv
<1>2. QED
  BY <1>1, EventNat DEF Reg

LEMMA LoopFields ==
  ASSUME NEW f \in EmitFrame, Ready(f)
  PROVE  /\ f.cursor \in Nat /\ f.stage \in {"typed", "wild"} /\ f.event \in Event
         /\ typeOf'[f.event] # Wildcard
         /\ \A q \in regs : q.seq \in f.audience => q.channel \in {typeOf'[f.event], Wildcard}
<1>1. f.cursor \in 0..MaxRegs /\ f.stage \in {"typed", "wild"} /\ f.event \in Event
  BY DEF EmitFrame
<1>2. f.cursor \in Nat
  BY <1>1, EventNat
<1>3. typeOf'[f.event] \in Types
  BY DEF Ready
<1>4. typeOf'[f.event] # Wildcard
  BY <1>3, BusAssumption
<1>5. \A q \in regs : q.seq \in f.audience => q.channel \in {typeOf'[f.event], Wildcard}
  BY DEF Ready
<1>6. QED
  BY <1>1, <1>2, <1>4, <1>5

(* Of the entries in the audience, those that are not reached are          *)
(* candidates.                                                             *)
LEMMA UnreachedIsCandidate ==
  ASSUME RegsInv, NEW f \in EmitFrame, Ready(f), NEW q \in regs, q.seq \in f.audience,
         ~HasReached(f, q)
  PROVE  Candidates(f, regs) # {}
<1>1. /\ q.seq \in Nat /\ f.cursor \in Nat /\ f.stage \in {"typed", "wild"}
      /\ q.channel \in {typeOf'[f.event], Wildcard} /\ typeOf'[f.event] # Wildcard
  BY RegFields, LoopFields
<1>2. CASE q.channel = Wildcard
  BY <1>1, <1>2 DEF Candidates, HasReached, Stage
<1>3. CASE q.channel # Wildcard
  BY <1>1, <1>3 DEF Candidates, HasReached, Stage
<1>4. QED
  BY <1>2, <1>3

(* The loop calls the entries of its audience one after the other.         *)
LEMMA NextIsReached ==
  ASSUME RegsInv, NEW f \in EmitFrame, Ready(f), NEW r \in NextEntry(f, regs),
         NEW q \in regs, q.seq \in f.audience,
         HasReached([f EXCEPT !.stage = Stage(r), !.cursor = r.seq], q)
  PROVE  q = r \/ <<q.seq, f.event>> \in heard
<1> DEFINE g == [f EXCEPT !.stage = Stage(r), !.cursor = r.seq]
<1>1. g.stage = Stage(r) /\ g.cursor = r.seq
  BY DEF EmitFrame
<1>2. /\ r \in regs /\ r \in Candidates(f, regs)
      /\ \A p \in Candidates(f, regs) : r.seq <= p.seq
  BY DEF NextEntry, Earliest, Candidates
<1>3. /\ q.seq \in Nat /\ r.seq \in Nat /\ f.cursor \in Nat /\ f.stage \in {"typed", "wild"}
      /\ q.channel \in {typeOf'[f.event], Wildcard} /\ typeOf'[f.event] # Wildcard
  BY <1>2, RegFields, LoopFields
<1>4. q.seq = r.seq => q = r
  BY <1>2 DEF RegsInv
<1>5. SUFFICES ASSUME ~HasReached(f, q) PROVE q.seq = r.seq
  BY <1>4 DEF Ready
<1> DEFINE typed == {p \in regs : /\ f.stage = "typed"
                                  /\ p.channel = typeOf'[f.event]
                                  /\ p.seq > f.cursor}
           wild  == {p \in regs : p.channel = Wildcard /\ (f.stage = "typed" \/ p.seq > f.cursor)}
<1>6. Candidates(f, regs) = IF typed # {} THEN typed ELSE wild
  BY DEF Candidates
<1>7. CASE q.channel # Wildcard
  <2>1. q \in typed
    BY <1>3, <1>5, <1>7 DEF HasReached, Stage
  <2>2. r \in typed /\ r.seq <= q.seq
    BY <1>2, <1>6, <2>1
  <2>3. Stage(r) = "typed" /\ Stage(q) = "typed"
    BY <1>3, <1>7, <2>2 DEF Stage
  <2>4. q.seq <= r.seq
    BY <1>1, <2>3 DEF HasReached
  <2>5. QED
    BY <1>3, <2>2, <2>4
<1>8. CASE q.channel = Wildcard
  <2>1. q \in wild /\ Stage(q) = "wild"
    BY <1>3, <1>5, <1>8 DEF HasReached, Stage
  <2>2. Stage(r) = "wild" /\ q.seq <= r.seq
    BY <1>1, <2>1 DEF HasReached, Stage
  <2>3. r \notin typed
    BY <1>3, <2>2 DEF Stage
  <2>4. r.seq <= q.seq
    BY <1>2, <1>6, <2>1, <2>3
  <2>5. QED
    BY <1>3, <2>2, <2>4
<1>9. QED
  BY <1>7, <1>8

(* As long as there are candidates the loop goes on.                       *)
LEMMA NextExists ==
  ASSUME RegsInv, NEW f, NextEntry(f, regs) = {}
  PROVE  Candidates(f, regs) = {}
<1> DEFINE C == Candidates(f, regs)
           S == {r.seq : r \in C}
<1>1. C \subseteq regs
  BY DEF Candidates
<1> HIDE DEF C
<1>2. S \in SUBSET Nat
  BY <1>1, RegFields
<1>3. ASSUME C # {} PROVE FALSE
  <2>1. PICK x \in S : \A y \in S : x <= y
    BY <1>2, <1>3, HasLeast
  <2>2. PICK r \in C : r.seq = x
    BY <2>1
  <2>3. \A q \in C : r.seq <= q.seq
    BY <2>1, <2>2
  <2>4. r \in NextEntry(f, regs)
    BY <2>2, <2>3 DEF NextEntry, Earliest, C
  <2>5. QED
    BY <2>4
<1>4. QED
  BY <1>3 DEF C

LEMMA NothingLeftOut ==
  ASSUME RegsInv, NEW f \in EmitFrame, Ready(f), NextEntry(f, regs) = {}
  PROVE  LeftOut(f, regs) = {}
<1>1. Candidates(f, regs) = {}
  BY NextExists
<1>2. \A q \in regs : q.seq \in f.audience => HasReached(f, q)
  BY <1>1, UnreachedIsCandidate
<1>3. \A q \in regs : q.seq \in f.audience => <<q.seq, f.event>> \in heard
  BY <1>2 DEF Ready
<1>4. QED
  BY <1>3 DEF LeftOut

LEMMA DeliverKeeps ==
  ASSUME RegsInv, HistoryInv, HeardInv,
         NEW f \in EmitFrame, Ready(f),
         NEW below \in Seq(Frames), \A i \in 1..Len(below) : FrameOK(below[i]),
         Deliver(f, below), TypesGrow, HistoryMoves, UNCHANGED inserted
  PROVE  RegsInv' /\ StackInv' /\ HeardInv'
<1>1. inserted \in Nat /\ inserted' = inserted
  BY EventNat DEF RegsInv
<1>2. CASE \E r \in NextEntry(f, regs) :
             /\ stack' = Append(below, [f EXCEPT !.stage = Stage(r), !.cursor = r.seq])
             /\ regs' = AfterCall(regs, r)
             /\ heard' = heard \cup {<<r.seq, f.event>>}
             /\ UNCHANGED missed
  <2>1. PICK r \in NextEntry(f, regs) :
             /\ stack' = Append(below, [f EXCEPT !.stage = Stage(r), !.cursor = r.seq])
             /\ regs' = AfterCall(regs, r)
             /\ heard' = heard \cup {<<r.seq, f.event>>}
             /\ UNCHANGED missed
    BY <1>2
  <2> DEFINE g == [f EXCEPT !.stage = Stage(r), !.cursor = r.seq]
  <2>2. r \in regs
    BY <2>1 DEF NextEntry, Earliest, Candidates
  <2>3. regs' \subseteq regs /\ (r.fn = Once => r \notin regs')
    BY <2>1 DEF AfterCall
  <2>4. r.seq \in 1..inserted /\ f.event \in Event /\ r \in Reg
    BY <2>2, RegFields, LoopFields DEF RegsInv
  <2>5. RegsInv'
    BY <1>1, <2>1, <2>3, <2>4 DEF RegsInv
  <2>6. RegsMove
    BY <1>1, <2>1, <2>3 DEF RegsMove
  <2>7. \A i \in 1..Len(below) : FrameOK(below[i])'
    BY <2>6, FrameKeeps
  <2>8. g \in EmitFrame
    <3>1. Stage(r) \in {"typed", "wild"} /\ r.seq \in 0..MaxRegs
      BY <2>4, EventNat DEF Stage, Reg
    <3>2. QED
      BY <3>1 DEF EmitFrame
  <2>9. g.event = f.event /\ g.audience = f.audience
    BY DEF EmitFrame
  <2>10. ASSUME NEW q \in regs, q.seq \in f.audience, HasReached(g, q)
         PROVE  <<q.seq, f.event>> \in heard'
    BY <2>1, <2>10, NextIsReached
  <2> HIDE DEF g
  <2>11. Reached(g)'
    <3>1. g.event <= Len(typeOf') /\ typeOf'[g.event] \in Types /\ g.audience \subseteq 1..inserted'
      BY <1>1, <2>9 DEF Ready
    <3>2. ASSUME NEW q \in regs', q.seq \in g.audience
          PROVE  /\ q.channel \in {typeOf'[g.event], Wildcard}
                 /\ HasReached(g, q) => <<q.seq, g.event>> \in heard'
      BY <2>3, <2>9, <2>10, <3>2 DEF Ready
    <3>3. QED
      BY <3>1, <3>2 DEF Reached
  <2>12. FrameOK(g)'
    BY <2>8, <2>11, FramesDiffer DEF FrameOK
  <2>13. StackInv'
    BY <2>1, <2>7, <2>8, <2>12, Pushes DEF g, Frames
  <2>14. HeardInv'
    <3>1. ASSUME NEW q \in regs', q.fn = Once, NEW e \in Event, <<q.seq, e>> \in heard'
          PROVE  FALSE
      <4>1. q \in regs /\ q # r
        BY <2>3, <3>1
      <4>2. q.seq # r.seq
        BY <2>2, <4>1 DEF RegsInv
      <4>3. <<q.seq, e>> \in heard
        BY <2>1, <3>1, <4>2
      <4>4. QED
        BY <3>1, <4>1, <4>3 DEF HeardInv
    <3>2. QED
      BY <2>1, <3>1 DEF HeardInv
  <2>15. QED
    BY <2>5, <2>13, <2>14
<1>3. CASE /\ NextEntry(f, regs) = {}
           /\ stack' = below
           /\ missed' = missed \cup LeftOut(f, regs)
           /\ UNCHANGED <<regs, heard>>
  <2>1. missed' = {}
    BY <1>3, NothingLeftOut DEF HeardInv
  <2>2. RegsMove
    BY <1>1, <1>3 DEF RegsMove
  <2>3. \A i \in 1..Len(below) : FrameOK(below[i])'
    BY <2>2, FrameKeeps
  <2>4. StackInv'
    BY <1>3, <2>3 DEF StackInv, FrameOK
  <2>5. QED
    BY <1>1, <1>3, <2>1, <2>4 DEF RegsInv, HeardInv
<1>4. QED
  BY <1>2, <1>3 DEF Deliver

-----------------------------------------------------------------------------
(* One lemma for each action.                                              *)

LEMMA TypesStay == HistoryInv /\ UNCHANGED typeOf => TypesGrow
BY DEF HistoryInv, TypesGrow

LEMMA AddsKeeps ==
  ASSUME IInv, inserted < MaxRegs,
         NEW channel \in Types \cup {Wildcard}, NEW fn \in Fns \cup {Once},
         inserted' = inserted + 1,
         regs' = regs \cup {[seq |-> inserted + 1, channel |-> channel, fn |-> fn]},
         UNCHANGED <<history, typeOf, stack, published, heard, missed>>
  PROVE  IInv'
<1> DEFINE new == [seq |-> inserted + 1, channel |-> channel, fn |-> fn]
<1>1. inserted \in Nat /\ MaxRegs \in Nat /\ inserted + 1 \in 1..MaxRegs
  BY EventNat DEF IInv, RegsInv
<1>2. new \in Reg /\ new.seq = inserted + 1 /\ new.fn = fn
  BY <1>1 DEF Reg
<1> HIDE DEF new
<1>3. regs' = regs \cup {new}
  BY DEF new
<1>4. \A r \in regs : r.seq \in 1..inserted
  BY RegFields DEF IInv
<1>5. heard \subseteq (1..inserted) \X Event /\ ~\E e \in Event : <<inserted + 1, e>> \in heard
  <2>1. heard \subseteq (1..inserted) \X Event
    BY DEF IInv, RegsInv
  <2>2. inserted + 1 \notin 1..inserted
    BY <1>1
  <2>3. QED
    BY <2>1, <2>2, Zenon
<1>6. RegsInv'
  <2>1. regs' \subseteq Reg /\ inserted' \in 0..MaxRegs
    BY <1>1, <1>2, <1>3 DEF IInv, RegsInv
  <2>2. \A r \in regs' : r.seq <= inserted'
    BY <1>1, <1>2, <1>3, <1>4
  <2>3. \A r, q \in regs' : r.seq = q.seq => r = q
    BY <1>1, <1>2, <1>3, <1>4 DEF IInv, RegsInv
  <2>4. heard' \subseteq (1..inserted') \X Event
    BY <1>1, <1>5
  <2>5. QED
    BY <2>1, <2>2, <2>3, <2>4 DEF RegsInv
<1>7. HistoryInv'
  BY DEF IInv, HistoryInv
<1>8. RegsMove
  BY <1>1, <1>2, <1>3 DEF RegsMove
<1>9. StackInv'
  BY <1>8, StackKeeps, TypesStay DEF IInv, HistoryMoves
<1>10. HeardInv'
  BY <1>2, <1>3, <1>5 DEF IInv, HeardInv
<1>11. QED
  BY <1>6, <1>7, <1>9, <1>10 DEF IInv

LEMMA UnsubscribeKeeps == IInv /\ Unsubscribe => IInv'
<1> SUFFICES ASSUME IInv, Unsubscribe PROVE IInv'
  OBVIOUS
<1>1. regs' \subseteq regs /\ UNCHANGED <<inserted, history, typeOf, stack, published, heard, missed>>
  BY DEF Unsubscribe
<1>2. inserted \in Nat
  BY EventNat DEF IInv, RegsInv
<1>3. StackInv'
  BY <1>1, <1>2, StackKeeps, TypesStay DEF IInv, HistoryMoves, RegsMove
<1>4. RegsInv' /\ HistoryInv' /\ HeardInv'
  BY <1>1 DEF IInv, RegsInv, HistoryInv, HeardInv
<1>5. QED
  BY <1>3, <1>4 DEF IInv

LEMMA EmitKeeps == IInv /\ Emit => IInv'
<1> SUFFICES ASSUME IInv, Emit PROVE IInv'
  OBVIOUS
<1> DEFINE e == Len(typeOf) + 1
<1>1. /\ typeOf \in Seq(Types \cup {Dropped}) /\ Len(typeOf) \in Nat
      /\ e \in Event /\ e \in Nat /\ e <= MaxEmits /\ inserted' = inserted /\ inserted \in Nat
  BY EventNat DEF IInv, HistoryInv, RegsInv, Emit, Event
<1>2. ASSUME NEW type \in Types \cup {Dropped}, typeOf' = Append(typeOf, type)
      PROVE  /\ TypesGrow /\ Len(typeOf') = e /\ typeOf'[e] = type
  BY <1>1, <1>2 DEF TypesGrow
<1>3. CASE /\ typeOf' = Append(typeOf, Dropped)
           /\ UNCHANGED <<regs, history, stack, published, heard, missed>>
  <2>1. TypesGrow /\ Len(typeOf') <= MaxEmits
    BY <1>1, <1>2, <1>3
  <2>2. HistoryMoves /\ RegsMove
    BY <1>1, <1>3 DEF HistoryMoves, RegsMove
  <2>3. HistoryInv'
    BY <2>1, <2>2, HistoryKeeps DEF IInv
  <2>4. StackInv'
    BY <1>3, <2>1, <2>2, StackKeeps
  <2>5. RegsInv' /\ HeardInv'
    BY <1>1, <1>3 DEF IInv, RegsInv, HeardInv
  <2>6. QED
    BY <2>3, <2>4, <2>5 DEF IInv
<1>4. ASSUME NEW type \in Types,
             typeOf' = Append(typeOf, type),
             history' = Stored(history, e),
             published' = Append(published, e),
             Deliver([event |-> e, stage |-> "typed", cursor |-> 0,
                      audience |-> {r.seq : r \in
                        {q \in regs : q.channel \in {type, Wildcard}}}], stack)
      PROVE  IInv'
  <2> DEFINE f == [event |-> e, stage |-> "typed", cursor |-> 0,
                   audience |-> {r.seq : r \in
                     {q \in regs : q.channel \in {type, Wildcard}}}]
  <2>1. TypesGrow /\ Len(typeOf') = e /\ typeOf'[e] = type
    BY <1>2, <1>4
  <2>2. HistoryMoves
    BY <1>1, <1>4, <2>1 DEF HistoryMoves, Stores
  <2>3. HistoryInv'
    BY <1>1, <2>1, <2>2, HistoryKeeps DEF IInv
  <2>4. f.event = e /\ f.stage = "typed" /\ f.cursor = 0
        /\ f.audience = {r.seq : r \in {q \in regs : q.channel \in {type, Wildcard}}}
    OBVIOUS
  <2>5. f.audience \subseteq 1..inserted /\ f.audience \subseteq 1..MaxRegs
    BY RegFields, EventNat DEF IInv, RegsInv
  <2>6. f \in EmitFrame
    BY <1>1, <2>5, EventNat DEF EmitFrame
  <2> HIDE DEF f
  <2>7. Ready(f)
    <3>1. ASSUME NEW r \in regs, r.seq \in f.audience
          PROVE  r.channel \in {type, Wildcard}
      BY <2>4, <3>1 DEF IInv, RegsInv
    <3>2. ASSUME NEW r \in regs PROVE ~HasReached(f, r)
      <4>1. r.seq \in Nat /\ r.seq >= 1
        BY RegFields, EventNat DEF IInv, RegsInv
      <4>2. QED
        BY <2>4, <4>1 DEF HasReached, Stage
    <3>3. QED
      BY <1>1, <2>1, <2>4, <2>5, <3>1, <3>2 DEF Ready
  <2>8. Deliver(f, stack)
    BY <1>4 DEF f
  <2>9. stack \in Seq(Frames) /\ \A i \in 1..Len(stack) : FrameOK(stack[i])
    BY DEF IInv, StackInv
  <2>10. RegsInv' /\ StackInv' /\ HeardInv'
    BY <1>1, <2>1, <2>2, <2>6, <2>7, <2>8, <2>9, DeliverKeeps DEF IInv
  <2>11. QED
    BY <2>3, <2>10 DEF IInv
<1>5. QED
  BY <1>3, <1>4 DEF Emit

LEMMA ClearKeeps == IInv /\ Clear => IInv'
<1> SUFFICES ASSUME IInv, Clear PROVE IInv'
  OBVIOUS
<1>1. /\ history' = <<>> /\ published' = <<>>
      /\ UNCHANGED <<regs, inserted, typeOf, stack, heard, missed>>
  BY DEF Clear
<1>2. inserted \in Nat /\ TypesGrow /\ Len(typeOf') <= MaxEmits
  BY <1>1, EventNat, TypesStay DEF IInv, RegsInv, HistoryInv
<1>3. HistoryMoves /\ RegsMove
  BY <1>1, <1>2 DEF HistoryMoves, RegsMove
<1>4. HistoryInv' /\ StackInv'
  BY <1>1, <1>2, <1>3, HistoryKeeps, StackKeeps DEF IInv
<1>5. RegsInv' /\ HeardInv'
  BY <1>1 DEF IInv, RegsInv, HeardInv
<1>6. QED
  BY <1>4, <1>5 DEF IInv

(* The events that a replay goes through are in order, so that the first   *)
(* of those ahead is older than all the others.                            *)
LEMMA ReplayKeeps ==
  ASSUME IInv, NEW type \in Types \cup {AnyType}, NEW limit \in 0..MaxHistorySize,
         Replay(type, limit)
  PROVE  IInv'
<1> DEFINE live == type = AnyType /\ limit = 0
           due  == Replayable(type, limit)
<1>1. PICK i \in FirstOf(due) :
        stack' = Append(stack, [live |-> live, items |-> IF live THEN <<>> ELSE history,
                                due |-> IF live THEN {} ELSE due,
                                pos |-> i, given |-> <<history[i]>>])
  BY DEF Replay
<1> PICK f : f = [live |-> live, items |-> IF live THEN <<>> ELSE history,
                  due |-> IF live THEN {} ELSE due,
                  pos |-> i, given |-> <<history[i]>>]
  OBVIOUS
<1> PICK below : below = stack
  OBVIOUS
<1>2. UNCHANGED <<regs, inserted, history, typeOf, published, heard, missed>>
  BY DEF Replay
<1>3. /\ history \in Seq(Event) /\ Len(history) \in Nat /\ Len(history) <= MaxHistorySize
      /\ \A k \in 1..Len(history) : history[k] <= Len(typeOf)
      /\ \A j, k \in 1..Len(history) : j < k => history[j] < history[k]
  BY RetainedFacts DEF IInv, HistoryInv
<1>4. MaxHistorySize \in Nat
  BY BusAssumption
<1>5. due \subseteq 1..Len(history)
  BY <1>3 DEF Replayable
<1>6. i \in due
  BY <1>1 DEF FirstOf
<1> HIDE DEF due
<1>7. i \in 1..Len(history) /\ i \in 1..MaxHistorySize /\ due \subseteq 1..MaxHistorySize
  BY <1>3, <1>4, <1>5, <1>6
<1> HIDE DEF live
<1>8. live \in BOOLEAN
  BY DEF live
<1>9. history[i] \in Event /\ history[i] \in Nat
  BY <1>3, <1>7, ElementsNat
<1>10. /\ f.live = live /\ f.pos = i /\ f.given = <<history[i]>>
       /\ live => f.items = <<>> /\ f.due = {}
       /\ ~live => f.items = history /\ f.due = due
  OBVIOUS
<1>11. f \in ReplayFrame
  <2>1. <<history[i]>> \in Seq(Event)
    BY <1>9
  <2>2. (IF live THEN <<>> ELSE history) \in Seq(Event)
    BY <1>3
  <2>3. (IF live THEN {} ELSE due) \in SUBSET (1..MaxHistorySize)
    BY <1>7
  <2>4. QED
    BY <1>7, <1>8, <2>1, <2>2, <2>3 DEF ReplayFrame
<1>12. Ascending(f)
  <2>1. /\ f.given # <<>> /\ Len(f.given) = 1 /\ f.given[1] = history[i]
        /\ history[i] <= Len(typeOf)
    BY <1>3, <1>7, <1>10
  <2>2. \A k \in 1..Len(history) : k > i => history[i] < history[k]
    BY <1>3, <1>7
  <2>3. CASE live
    BY <1>10, <2>1, <2>2, <2>3 DEF Ascending
  <2>4. CASE ~live
    <3>1. f.items = history /\ f.due = due /\ ~f.live
      BY <1>10, <2>4
    <3>2. \A j, k \in 1..Len(f.given) : j < k => f.given[j] < f.given[k]
      BY <2>1
    <3>3. \A j \in 1..Len(f.given) : f.given[j] <= Len(typeOf)
      BY <2>1
    <3>4. \A k \in f.due : k > f.pos => f.given[Len(f.given)] < f.items[k]
      BY <1>5, <1>10, <2>1, <2>2, <3>1
    <3>5. QED
      BY <1>3, <1>5, <2>1, <3>1, <3>2, <3>3, <3>4 DEF Ascending
  <2>5. QED
    BY <2>3, <2>4
<1>13. inserted \in Nat /\ TypesGrow /\ HistoryMoves /\ RegsMove
  BY <1>2, EventNat, TypesStay DEF IInv, RegsInv, HistoryMoves, RegsMove
<1>14. FrameOK(f) /\ f \in Frames
  BY <1>11, <1>12, FramesDiffer DEF FrameOK, Frames
<1>15. FrameOK(f)'
  BY <1>13, <1>14, FrameKeeps DEF IInv
<1>16. below \in Seq(Frames) /\ \A k \in 1..Len(below) : FrameOK(below[k])
  BY DEF IInv, StackInv
<1>17. \A k \in 1..Len(below) : FrameOK(below[k])'
  BY <1>13, <1>16, FrameKeeps DEF IInv
<1>18. stack' = Append(below, f)
  BY <1>1
<1>19. StackInv'
  BY <1>14, <1>15, <1>16, <1>17, <1>18, Pushes
<1>20. QED
  BY <1>2, <1>19 DEF IInv, RegsInv, HistoryInv, HeardInv

LEMMA ReturnToEmitKeeps == IInv /\ ReturnToEmit => IInv'
<1> SUFFICES ASSUME IInv, ReturnToEmit PROVE IInv'
  OBVIOUS
<1> PICK f : f = Last(stack)
  OBVIOUS
<1> PICK below : below = Front(stack)
  OBVIOUS
<1>1. f \in EmitFrame /\ Deliver(f, below) /\ stack # <<>>
      /\ UNCHANGED <<inserted, history, typeOf, published>>
  BY DEF ReturnToEmit
<1>2. f \in Frames /\ FrameOK(f) /\ below \in Seq(Frames)
      /\ \A i \in 1..Len(below) : FrameOK(below[i])
  BY <1>1, StackTop DEF IInv
<1>3. Reached(f)
  BY <1>1, <1>2 DEF FrameOK
<1>4. Ready(f)
  BY <1>1, <1>3 DEF Ready, Reached
<1>5. TypesGrow /\ HistoryMoves
  BY <1>1, TypesStay DEF IInv, HistoryMoves
<1>6. RegsInv' /\ StackInv' /\ HeardInv'
  BY <1>1, <1>2, <1>4, <1>5, DeliverKeeps DEF IInv
<1>7. HistoryInv'
  BY <1>1 DEF IInv, HistoryInv
<1>8. QED
  BY <1>6, <1>7 DEF IInv

(* The next event of a replay is newer than the last one it gave.          *)
LEMMA ReturnToReplayKeeps == IInv /\ ReturnToReplay => IInv'
<1> SUFFICES ASSUME IInv, ReturnToReplay PROVE IInv'
  OBVIOUS
<1> PICK f : f = Last(stack)
  OBVIOUS
<1> PICK below : below = Front(stack)
  OBVIOUS
<1> DEFINE items == IF f.live THEN history ELSE f.items
           ahead == {i \in IF f.live THEN DOMAIN history ELSE f.due : i > f.pos}
<1>1. f \in ReplayFrame /\ stack # <<>>
      /\ UNCHANGED <<regs, inserted, history, typeOf, published, heard, missed>>
  BY DEF ReturnToReplay
<1>2. f \in Frames /\ FrameOK(f) /\ below \in Seq(Frames)
      /\ \A i \in 1..Len(below) : FrameOK(below[i])
  BY <1>1, StackTop DEF IInv
<1>3. Ascending(f)
  BY <1>1, <1>2 DEF FrameOK
<1>4. inserted \in Nat /\ TypesGrow /\ HistoryMoves /\ RegsMove
  BY <1>1, EventNat, TypesStay DEF IInv, RegsInv, HistoryMoves, RegsMove
<1>5. \A k \in 1..Len(below) : FrameOK(below[k])'
  BY <1>2, <1>4, FrameKeeps DEF IInv
<1>6. RegsInv' /\ HistoryInv' /\ HeardInv'
  BY <1>1 DEF IInv, RegsInv, HistoryInv, HeardInv
<1>7. \/ \E i \in FirstOf(ahead) :
          stack' = Append(below, [f EXCEPT !.pos = i, !.given = Append(@, items[i])])
      \/ stack' = below
  BY DEF ReturnToReplay
<1>8. CASE stack' = below
  BY <1>2, <1>5, <1>6, <1>8 DEF IInv, StackInv, FrameOK
<1>9. ASSUME NEW i \in FirstOf(ahead),
             stack' = Append(below, [f EXCEPT !.pos = i, !.given = Append(@, items[i])])
      PROVE  IInv'
  <2>1. i \in ahead
    BY <1>9 DEF FirstOf
  <2>2. /\ history \in Seq(Event) /\ Len(history) \in Nat /\ Len(history) <= MaxHistorySize
        /\ \A k \in 1..Len(history) : history[k] <= Len(typeOf)
        /\ \A j, k \in 1..Len(history) : j < k => history[j] < history[k]
        /\ MaxHistorySize \in Nat /\ Len(typeOf) \in Nat
    BY RetainedFacts, BusAssumption DEF IInv, HistoryInv
  <2> DEFINE n == Len(f.given)
  <2> PICK e : e = items[i]
    OBVIOUS
  <2> PICK g : g = [f EXCEPT !.pos = i, !.given = Append(@, e)]
    OBVIOUS
  <2>3. /\ f.given \in Seq(Event) /\ f.items \in Seq(Event) /\ f.due \subseteq 1..MaxHistorySize
        /\ f.live \in BOOLEAN /\ n \in Nat /\ n >= 1
    BY <1>1, <1>3 DEF ReplayFrame, Ascending
  <2>4. /\ items \in Seq(Event) /\ i \in 1..Len(items) /\ i \in 1..MaxHistorySize /\ i > f.pos
        /\ \A k \in 1..Len(items) : items[k] <= Len(typeOf)
        /\ \A j, k \in 1..Len(items) : j < k => items[j] < items[k]
        /\ f.given[n] < items[i]
    <3>1. CASE f.live
      BY <1>3, <2>1, <2>2, <2>3, <3>1 DEF Ascending
    <3>2. CASE ~f.live
      BY <1>3, <2>1, <2>3, <3>2 DEF Ascending
    <3>3. QED
      BY <3>1, <3>2
  <2>5. e \in Event /\ e \in Nat /\ e <= Len(typeOf) /\ f.given[n] < e
    BY <2>4, ElementsNat
  <2>6. \A k \in 1..Len(items) : k > i => e < items[k]
    BY <2>4
  <2>7. g.live = f.live /\ g.items = f.items /\ g.due = f.due /\ g.pos = i
        /\ g.given = Append(f.given, e)
    BY <1>1 DEF ReplayFrame
  <2>8. g \in ReplayFrame
    <3>1. Append(f.given, e) \in Seq(Event)
      BY <2>3, <2>5
    <3>2. QED
      BY <1>1, <2>4, <3>1 DEF ReplayFrame
  <2>9. /\ g.given \in Seq(Event) /\ g.given # <<>> /\ Len(g.given) = n + 1 /\ g.given[n + 1] = e
        /\ \A k \in 1..n : g.given[k] = f.given[k] /\ f.given[k] \in Nat
    <3>1. \A k \in 1..n : f.given[k] \in Nat
      BY <2>3, ElementsNat
    <3>2. QED
      BY <2>3, <2>5, <2>7, <3>1
  <2>10. \A j, k \in 1..n : j < k => f.given[j] < f.given[k]
    BY <1>3 DEF Ascending
  <2>11. \A j \in 1..n : f.given[j] <= Len(typeOf)
    BY <1>3 DEF Ascending
  <2> HIDE DEF n
  <2>12. \A j, k \in 1..Len(g.given) : j < k => g.given[j] < g.given[k]
    <3> SUFFICES ASSUME NEW j \in 1..n + 1, NEW k \in 1..n + 1, j < k
                 PROVE  g.given[j] < g.given[k]
      BY <2>9
    <3>1. j \in 1..n /\ f.given[j] \in Nat /\ f.given[n] \in Nat /\ n \in 1..n
      BY <2>3, <2>9
    <3>2. CASE k = n + 1
      <4>1. j = n \/ f.given[j] < f.given[n]
        BY <2>3, <2>10, <3>1
      <4>2. f.given[j] < e
        BY <2>5, <3>1, <4>1
      <4>3. QED
        BY <2>9, <3>1, <3>2, <4>2
    <3>3. CASE k \in 1..n
      BY <2>9, <2>10, <3>1, <3>3
    <3>4. k = n + 1 \/ k \in 1..n
      BY <2>3
    <3>5. QED
      BY <3>2, <3>3, <3>4, Zenon
  <2>13. \A j \in 1..Len(g.given) : g.given[j] <= Len(typeOf)
    BY <2>3, <2>5, <2>9, <2>11
  <2>14. g.given[Len(g.given)] = e
    BY <2>9
  <2>15. Ascending(g)
    <3>1. CASE f.live
      BY <2>6, <2>7, <2>9, <2>12, <2>13, <2>14, <3>1 DEF Ascending
    <3>2. CASE ~f.live
      BY <1>3, <2>4, <2>6, <2>7, <2>9, <2>12, <2>13, <2>14, <3>2 DEF Ascending
    <3>3. QED
      BY <3>1, <3>2
  <2>16. FrameOK(g) /\ g \in Frames
    BY <2>8, <2>15, FramesDiffer DEF FrameOK, Frames
  <2>17. FrameOK(g)'
    BY <1>4, <2>16, FrameKeeps DEF IInv
  <2>18. stack' = Append(below, g)
    BY <1>9
  <2>19. StackInv'
    BY <1>2, <1>5, <2>16, <2>17, <2>18, Pushes
  <2>20. QED
    BY <1>6, <2>19 DEF IInv
<1>10. QED
  BY <1>7, <1>8, <1>9

LEMMA ThrowKeeps == IInv /\ Throw => IInv'
<1> SUFFICES ASSUME IInv, Throw PROVE IInv'
  OBVIOUS
<1> PICK f : f = Last(stack)
  OBVIOUS
<1> PICK below : below = Front(stack)
  OBVIOUS
<1>1. stack # <<>> /\ stack' = below
      /\ missed' = missed \cup
           (IF f \in EmitFrame THEN LeftOut(f, {r \in regs : HasReached(f, r)}) ELSE {})
      /\ UNCHANGED <<regs, inserted, history, typeOf, published, heard>>
  BY DEF Throw
<1>2. f \in Frames /\ FrameOK(f) /\ below \in Seq(Frames)
      /\ \A i \in 1..Len(below) : FrameOK(below[i])
  BY <1>1, StackTop DEF IInv
<1>3. f \in EmitFrame => LeftOut(f, {r \in regs : HasReached(f, r)}) = {}
  BY <1>2 DEF FrameOK, Reached, LeftOut
<1>4. missed' = {}
  BY <1>1, <1>3 DEF IInv, HeardInv
<1>5. inserted \in Nat /\ TypesGrow /\ HistoryMoves /\ RegsMove
  BY <1>1, EventNat, TypesStay DEF IInv, RegsInv, HistoryMoves, RegsMove
<1>6. \A k \in 1..Len(below) : FrameOK(below[k])'
  BY <1>2, <1>5, FrameKeeps DEF IInv
<1>7. StackInv'
  BY <1>1, <1>2, <1>6 DEF StackInv, FrameOK
<1>8. QED
  BY <1>1, <1>4, <1>7 DEF IInv, RegsInv, HistoryInv, HeardInv

LEMMA StutterKeeps == IInv /\ UNCHANGED vars => IInv'
<1> SUFFICES ASSUME IInv, UNCHANGED vars PROVE IInv'
  OBVIOUS
<1>1. inserted \in Nat /\ UNCHANGED vars
  BY EventNat DEF IInv, RegsInv
<1>2. StackInv'
  BY <1>1, StackKeeps, TypesStay DEF IInv, HistoryMoves, RegsMove, vars
<1>3. QED
  BY <1>1, <1>2 DEF IInv, RegsInv, HistoryInv, HeardInv, vars

-----------------------------------------------------------------------------
LEMMA NextKeeps == IInv /\ [Next]_vars => IInv'
<1> SUFFICES ASSUME IInv, [Next]_vars PROVE IInv'
  OBVIOUS
<1>1. ASSUME NEW channel \in Types \cup {Wildcard}, NEW fn \in Fns, Subscribe(fn, channel)
      PROVE  IInv'
  BY <1>1, AddsKeeps DEF Subscribe
<1>2. ASSUME NEW channel \in Types \cup {Wildcard}, SubscribeOnce(channel)
      PROVE  IInv'
  BY <1>2, AddsKeeps DEF SubscribeOnce
<1>3. CASE Unsubscribe
  BY <1>3, UnsubscribeKeeps
<1>4. CASE Emit
  BY <1>4, EmitKeeps
<1>5. CASE Clear
  BY <1>5, ClearKeeps
<1>6. ASSUME NEW type \in Types \cup {AnyType}, NEW limit \in 0..MaxHistorySize,
             Replay(type, limit)
      PROVE  IInv'
  BY <1>6, ReplayKeeps
<1>7. CASE ReturnToEmit
  BY <1>7, ReturnToEmitKeeps
<1>8. CASE ReturnToReplay
  BY <1>8, ReturnToReplayKeeps
<1>9. CASE Throw
  BY <1>9, ThrowKeeps
<1>10. CASE UNCHANGED vars
  BY <1>10, StutterKeeps
<1>11. QED
  BY <1>1, <1>2, <1>3, <1>4, <1>5, <1>6, <1>7, <1>8, <1>9, <1>10 DEF Next

LEMMA InductiveInv == Spec => []IInv
<1>1. QED
  BY InitInv, NextKeeps, PTL DEF Spec

(* The state of the bus is well formed, and its history bounded, whatever  *)
(* the listeners do while they are called.                                 *)
THEOREM BusType == Spec => []TypeOK
<1>1. ASSUME IInv PROVE TypeOK
  <2>1. RegsInv /\ HistoryInv /\ StackInv /\ HeardInv
    BY <1>1 DEF IInv
  <2>2. regs \subseteq Reg /\ inserted \in 0..MaxRegs
    BY <2>1 DEF RegsInv
  <2>3. history \in Seq(Event) /\ Len(history) <= MaxHistorySize
    BY <2>1, RetainedFacts DEF HistoryInv
  <2>4. typeOf \in Seq(Types \cup {Dropped}) /\ published \in Seq(Event)
    BY <2>1 DEF HistoryInv
  <2>5. stack \in Seq(EmitFrame \cup ReplayFrame)
    BY <2>1 DEF StackInv, Frames
  <2>6. heard \subseteq (1..MaxRegs) \X Event
    <3>1. 1..inserted \subseteq 1..MaxRegs
      BY <2>2, EventNat
    <3>2. heard \subseteq (1..inserted) \X Event
      BY <2>1 DEF RegsInv
    <3>3. QED
      BY <3>1, <3>2
  <2>7. missed \subseteq (1..MaxRegs) \X Event
    BY <2>1 DEF HeardInv
  <2>8. QED
    BY <2>2, <2>3, <2>4, <2>5, <2>6, <2>7 DEF TypeOK
<1>2. QED
  BY <1>1, InductiveInv, PTL

(* Nobody who was subscribed when an event was emitted and still is when   *)
(* its turn has come is passed over, and a listener of once() hears one    *)
(* event, whatever the listeners before it did to the bus.                 *)
THEOREM SubscribersAreCalled == Spec => []SubscribersHear
<1>1. IInv => SubscribersHear
  BY DEF IInv, HeardInv, SubscribersHear
<1>2. QED
  BY <1>1, InductiveInv, PTL

(* The history holds the latest events in the order of their emit calls,   *)
(* and no replay gives an event twice or out of order, although its        *)
(* listener may emit into the buffer that is replayed, or clear it.        *)
THEOREM HistoryIsInOrder == Spec => []HistoryInOrder
<1>1. ASSUME IInv PROVE HistoryInOrder
  <2>1. history = Retained(published)
    BY <1>1 DEF IInv, HistoryInv
  <2>2. \A i \in 1..Len(stack) : stack[i] \in ReplayFrame => Ascending(stack[i])
    BY <1>1 DEF IInv, StackInv, FrameOK
  <2>3. QED
    BY <2>1, <2>2 DEF HistoryInOrder, Retained, Ascending
<1>2. QED
  BY <1>1, InductiveInv, PTL
=============================================================================
