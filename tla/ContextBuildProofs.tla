--------------------------- MODULE ContextBuildProofs ---------------------------
(***************************************************************************)
(* Proofs about the context of a run, for any window, any number of turns, *)
(* calls and providers, and texts of any size: what projection,            *)
(* compaction, registry and truncation leave of a transcript, and with it  *)
(* what every request of a run holds.  First the algorithms of module      *)
(* ContextWindow, from the lists they are made of to Build; then the       *)
(* inductive invariant BuildInv of the run that calls Build turn by turn.  *)
(***************************************************************************)
EXTENDS ContextBuild, SequenceTheorems, FiniteSetTheorems, WellFoundedInduction, TLAPS

(***************************************************************************)
(* Numbers, sums and arrangements.                                         *)
(***************************************************************************)

(* A function on 1..m is a sequence of length m.                           *)
LEMMA SequenceOf ==
  ASSUME NEW S, NEW m \in Nat, NEW f \in [1..m -> S]
  PROVE  f \in Seq(S) /\ Len(f) = m
<1>1. f \in Seq(S)
  BY SeqDef
<1> QED BY <1>1, LenProperties

(* A set of numbers with a member has a least one.                         *)
LEMMA HasLeast ==
  ASSUME NEW S \in SUBSET Nat, S # {}
  PROVE  \E x \in S : \A y \in S : x <= y
<1>1. IsWellFoundedOn(OpToRel(<, Nat), Nat)
  BY NatLessThanWellFounded, Zenon
<1>2. PICK x \in S : \A y \in S : ~(<<y, x>> \in OpToRel(<, Nat))
  BY <1>1, WFMin, Zenon
<1>3. \A y \in S : ~(y < x)
  BY <1>2 DEF OpToRel
<1> QED BY <1>3

(* A set of numbers up to a bound has a greatest one.                      *)
LEMMA HasGreatest ==
  ASSUME NEW N \in Nat, NEW S \in SUBSET (0..N), S # {}
  PROVE  Max(S) \in S /\ \A y \in S : y <= Max(S)
<1> DEFINE T == {N - x : x \in S}
<1>1. T \in SUBSET Nat /\ T # {}
  OBVIOUS
<1> HIDE DEF T
<1>2. PICK t \in T : \A y \in T : t <= y
  BY <1>1, HasLeast
<1>3. PICK x \in S : t = N - x
  BY DEF T
<1>4. \A y \in S : t <= N - y
  BY <1>2 DEF T
<1>5. \A y \in S : x >= y
  BY <1>3, <1>4
<1>6. Max(S) \in S /\ \A y \in S : Max(S) >= y
  BY <1>5, Zenon DEF Max
<1> QED BY <1>6

(* The tokens of a list are a number, and of an empty one none.            *)
LEMMA TokensAre ==
  ASSUME NEW s, Len(s) \in Nat, \A i \in 1..Len(s) : s[i].tok \in Nat
  PROVE  Tokens(s) \in Nat /\ (Len(s) = 0 => Tokens(s) = 0)
<1> DEFINE Sum(f, n) == f = [i \in 0..n |-> IF i = 0 THEN 0 ELSE f[i - 1] + s[i].tok]
           Good(n) == \E f : Sum(f, n)
           Bad == {n \in 0..Len(s) : ~Good(n)}
<1>1. Good(0)
  <2> DEFINE f == [i \in 0..0 |-> 0]
  <2>1. f = [i \in 0..0 |-> IF i = 0 THEN 0 ELSE f[i - 1] + s[i].tok]
    OBVIOUS
  <2> QED BY <2>1
<1>2. ASSUME NEW n \in 1..Len(s), Good(n - 1)
      PROVE  Good(n)
  <2>1. PICK f : Sum(f, n - 1)
    BY <1>2
  <2> DEFINE g == [i \in 0..n |-> IF i = n THEN f[n - 1] + s[n].tok ELSE f[i]]
  <2>2. ASSUME NEW i \in 0..n
        PROVE  g[i] = IF i = 0 THEN 0 ELSE g[i - 1] + s[i].tok
    <3>1. n \in Nat /\ n > 0 /\ 0 \in 0..n
      OBVIOUS
    <3>2. CASE i = n
      <4>1. g[i] = f[n - 1] + s[n].tok
        BY <3>2
      <4>2. n - 1 \in 0..n /\ n - 1 # n
        BY <3>1
      <4>3. g[n - 1] = f[n - 1]
        BY <4>2
      <4> QED BY <3>1, <3>2, <4>1, <4>3
    <3>3. CASE i # n
      <4>1. i \in 0..(n - 1)
        BY <3>1, <3>3
      <4>2. f[i] = IF i = 0 THEN 0 ELSE f[i - 1] + s[i].tok
        BY <2>1, <4>1
      <4>3. g[i] = f[i]
        BY <3>3
      <4>4. i # 0 => g[i - 1] = f[i - 1]
        BY <3>1, <4>1
      <4> QED BY <4>2, <4>3, <4>4
    <3> QED BY <3>2, <3>3
  <2>3. g = [i \in 0..n |-> IF i = 0 THEN 0 ELSE g[i - 1] + s[i].tok]
    <3>1. g = [i \in 0..n |-> g[i]]
      OBVIOUS
    <3> HIDE DEF g
    <3> QED BY <2>2, <3>1
  <2> QED BY <2>3
<1>3. Good(Len(s))
  <2> SUFFICES ASSUME ~Good(Len(s)) PROVE FALSE
    OBVIOUS
  <2>1. Bad \in SUBSET Nat /\ Len(s) \in Bad
    OBVIOUS
  <2> HIDE DEF Good
  <2>2. PICK n \in Bad : \A y \in Bad : n <= y
    BY <2>1, HasLeast
  <2> QED BY <1>1, <1>2, <2>2
<1> DEFINE sum == CHOOSE f : f = [i \in 0..Len(s) |-> IF i = 0 THEN 0 ELSE f[i - 1] + s[i].tok]
<1>4. Sum(sum, Len(s))
  BY <1>3
<1>5. Tokens(s) = sum[Len(s)]
  BY Zenon DEF Tokens
<1>6. \A i \in 0..Len(s) : sum[i] = IF i = 0 THEN 0 ELSE sum[i - 1] + s[i].tok
  BY <1>4
<1> HIDE DEF sum
<1> DEFINE Wrong == {i \in 0..Len(s) : sum[i] \notin Nat}
<1>7. Wrong = {}
  <2> SUFFICES ASSUME Wrong # {} PROVE FALSE
    OBVIOUS
  <2>0. Wrong \in SUBSET Nat
    OBVIOUS
  <2>1. PICK n \in Wrong : \A y \in Wrong : n <= y
    BY <2>0, HasLeast
  <2>2. n \in 0..Len(s) /\ sum[n] \notin Nat /\ n # 0
    BY <1>6
  <2>3. n - 1 \in 0..Len(s) /\ n - 1 \notin Wrong
    BY <2>1, <2>2
  <2> QED BY <1>6, <2>2, <2>3
<1> QED BY <1>5, <1>6, <1>7

(* What is arranged has the rank by which it was arranged.                 *)
LEMMA ArrangedIs ==
  ASSUME NEW S, NEW ss \in Seq(S), NEW kept \in SUBSET (1..Len(ss)), NEW upTo \in [kept -> SUBSET kept],
         \A i \in kept : i \in upTo[i],
         \A i, j \in kept :
           i # j => \/ upTo[i] \subseteq upTo[j] /\ j \notin upTo[i]
                    \/ upTo[j] \subseteq upTo[i] /\ i \notin upTo[j]
  PROVE  /\ Arranged(ss, upTo) \in Seq(S)
         /\ Cardinality(kept) \in Nat /\ Len(Arranged(ss, upTo)) = Cardinality(kept)
         /\ \A k \in 1..Cardinality(kept) :
              \E i \in kept : Cardinality(upTo[i]) = k /\ Arranged(ss, upTo)[k] = ss[i]
         /\ \A i \in kept : /\ Cardinality(upTo[i]) \in 1..Cardinality(kept)
                            /\ Arranged(ss, upTo)[Cardinality(upTo[i])] = ss[i]
         /\ \A i \in kept : IsFiniteSet(upTo[i])
<1> DEFINE size == Cardinality(kept)
           rank == [i \in kept |-> Cardinality(upTo[i])]
           f == [k \in 1..size |-> CHOOSE i \in kept : Cardinality(upTo[i]) = k]
<1>1. Len(ss) \in Nat /\ IsFiniteSet(1..Len(ss))
  BY FS_Interval, LenProperties
<1>2. IsFiniteSet(kept) /\ size \in Nat
  BY <1>1, FS_Subset, FS_CardinalityType
<1>3. ASSUME NEW i \in kept
      PROVE  IsFiniteSet(upTo[i]) /\ Cardinality(upTo[i]) \in 1..size
  <2>1. upTo[i] \in SUBSET kept /\ i \in upTo[i]
    BY <1>1
  <2>2. IsFiniteSet(upTo[i]) /\ Cardinality(upTo[i]) <= size
    BY <1>2, <2>1, FS_Subset
  <2>3. Cardinality(upTo[i]) # 0
    BY <2>1, <2>2, FS_EmptySet
  <2>4. Cardinality(upTo[i]) \in Nat
    BY <2>2, FS_CardinalityType
  <2> QED BY <1>2, <2>2, <2>3, <2>4
<1>4. ASSUME NEW i \in kept, NEW j \in kept, upTo[i] \subseteq upTo[j] /\ j \notin upTo[i]
      PROVE  Cardinality(upTo[i]) # Cardinality(upTo[j])
  <2>1. j \in upTo[j]
    OBVIOUS
  <2> QED BY <1>3, <1>4, <2>1, FS_Subset
<1>5. rank \in Injection(kept, 1..size)
  <2>1. rank \in [kept -> 1..size]
    BY <1>3
  <2>2. ASSUME NEW i \in kept, NEW j \in kept, rank[i] = rank[j]
        PROVE  i = j
    <3>1. Cardinality(upTo[i]) = Cardinality(upTo[j])
      BY <2>2
    <3> QED BY <1>4, <3>1
  <2> QED BY <2>1, <2>2 DEF Injection, IsInjective
<1>6. IsFiniteSet(1..size) /\ Cardinality(1..size) = size
  BY <1>2, FS_Interval
<1>7. rank \in Surjection(kept, 1..size)
  BY <1>5, <1>6, FS_Injection
<1>8. \A k \in 1..size : \E i \in kept : Cardinality(upTo[i]) = k
  BY <1>7 DEF Surjection
<1>9. \A k \in 1..size : f[k] \in kept /\ Cardinality(upTo[f[k]]) = k
  BY <1>8
<1>10. Arranged(ss, upTo) = [k \in 1..size |-> ss[f[k]]]
  BY DEF Arranged
<1>11. Len(Arranged(ss, upTo)) = size /\ Arranged(ss, upTo) \in Seq(S)
  <2>1. \A k \in 1..size : ss[f[k]] \in S
    BY <1>9, ElementOfSeq
  <2>2. Arranged(ss, upTo) \in [1..size -> S]
    BY <1>10, <2>1
  <2> HIDE DEF size
  <2> QED BY <1>2, <2>2, SequenceOf
<1>12. \A k \in 1..size : f[k] \in kept /\ Arranged(ss, upTo)[k] = ss[f[k]]
  BY <1>9, <1>10
<1>13. ASSUME NEW i \in kept
       PROVE  Cardinality(upTo[i]) \in 1..size /\ Arranged(ss, upTo)[Cardinality(upTo[i])] = ss[i]
  <2> DEFINE k == Cardinality(upTo[i])
  <2>1. k \in 1..size
    BY <1>3
  <2>2. f[k] \in kept /\ Cardinality(upTo[f[k]]) = k
    BY <1>9, <2>1
  <2>3. rank[f[k]] = rank[i]
    BY <2>2
  <2>4. f[k] = i
    BY <1>5, <2>2, <2>3 DEF Injection, IsInjective
  <2> QED BY <1>12, <2>1, <2>4
<1> HIDE DEF f
<1> QED BY <1>2, <1>3, <1>9, <1>11, <1>12, <1>13

(***************************************************************************)
(* What is kept, in order.                                                 *)
(***************************************************************************)

(* The place of what is kept among what is kept.                           *)
Place(kept, i) == Cardinality({j \in kept : j <= i})

(* What Filtered makes: what is at the places kept, each at the number of  *)
(* places kept up to it.                                                   *)
LEMMA FilteredIs ==
  ASSUME NEW S, NEW ss \in Seq(S), NEW kept \in SUBSET (1..Len(ss))
  PROVE  /\ Filtered(ss, kept) \in Seq(S)
         /\ Len(Filtered(ss, kept)) \in Nat
         /\ \A k \in 1..Len(Filtered(ss, kept)) :
              \E i \in kept : Place(kept, i) = k /\ Filtered(ss, kept)[k] = ss[i]
         /\ \A i \in kept : /\ Place(kept, i) \in 1..Len(Filtered(ss, kept))
                            /\ Filtered(ss, kept)[Place(kept, i)] = ss[i]
<1> DEFINE upTo == [i \in kept |-> {j \in kept : j <= i}]
<1>1. Len(ss) \in Nat /\ \A i \in kept : i \in Nat
  BY LenProperties
<1>2. upTo \in [kept -> SUBSET kept] /\ \A i \in kept : i \in upTo[i]
  BY <1>1
<1>3. ASSUME NEW i \in kept, NEW j \in kept, i # j
      PROVE  \/ upTo[i] \subseteq upTo[j] /\ j \notin upTo[i]
             \/ upTo[j] \subseteq upTo[i] /\ i \notin upTo[j]
  <2>1. ASSUME NEW a \in kept, NEW b \in kept, a < b
        PROVE  upTo[a] \subseteq upTo[b] /\ b \notin upTo[a]
    <3>1. \A x \in kept : x <= a => x <= b
      BY <1>1, <2>1
    <3>2. ~(b <= a)
      BY <1>1, <2>1
    <3> QED BY <3>1, <3>2
  <2>2. i < j \/ j < i
    BY <1>1, <1>3
  <2> QED BY <2>1, <2>2
<1>4. Filtered(ss, kept) = Arranged(ss, upTo)
  BY DEF Filtered
<1>5. \A i \in kept : Cardinality(upTo[i]) = Place(kept, i)
  BY DEF Place
<1> HIDE DEF upTo
<1>6. /\ Arranged(ss, upTo) \in Seq(S)
      /\ Cardinality(kept) \in Nat /\ Len(Arranged(ss, upTo)) = Cardinality(kept)
      /\ \A k \in 1..Cardinality(kept) :
           \E i \in kept : Cardinality(upTo[i]) = k /\ Arranged(ss, upTo)[k] = ss[i]
      /\ \A i \in kept : /\ Cardinality(upTo[i]) \in 1..Cardinality(kept)
                         /\ Arranged(ss, upTo)[Cardinality(upTo[i])] = ss[i]
      /\ \A i \in kept : IsFiniteSet(upTo[i])
  BY <1>2, <1>3, ArrangedIs
<1> QED BY <1>4, <1>5, <1>6

(* Places follow the order, and what is kept without a gap stays together. *)
LEMMA PlacesFollow ==
  ASSUME NEW n \in Nat, NEW kept \in SUBSET (1..n), NEW i \in kept, NEW j \in kept, i <= j
  PROVE  /\ Place(kept, i) \in Nat /\ Place(kept, j) \in Nat
         /\ Place(kept, i) <= Place(kept, j)
         /\ i < j => Place(kept, i) < Place(kept, j)
         /\ i..j \subseteq kept => Place(kept, j) = Place(kept, i) + (j - i)
<1> DEFINE A == {k \in kept : k <= i}
           B == {k \in kept : k <= j}
<1>1. IsFiniteSet(kept) /\ i \in Nat /\ j \in Nat
  <2>1. 1 \in Int /\ n \in Int
    OBVIOUS
  <2>2. IsFiniteSet(1..n)
    BY <2>1, FS_Interval
  <2>3. \A x \in kept : x \in Nat
    OBVIOUS
  <2>4. IsFiniteSet(kept)
    BY <2>2, FS_Subset
  <2> QED BY <2>3, <2>4
<1>2. IsFiniteSet(B) /\ IsFiniteSet(A) /\ A \in SUBSET B
  <2>1. \A k \in kept : k <= i => k <= j
    BY <1>1
  <2>2. B \in SUBSET kept /\ A \in SUBSET kept /\ A \in SUBSET B
    BY <2>1
  <2> QED BY <1>1, <2>2, FS_Subset
<1>3. Cardinality(A) \in Nat /\ Cardinality(B) \in Nat /\ Cardinality(A) <= Cardinality(B)
  BY <1>2, FS_Subset, FS_CardinalityType
<1>4. ASSUME i < j PROVE Cardinality(A) < Cardinality(B)
  <2>1. j \in B /\ j \notin A
    BY <1>1, <1>4
  <2>2. Cardinality(A) # Cardinality(B)
    BY <1>2, <2>1, FS_Subset
  <2> QED BY <1>3, <2>2
<1>5. ASSUME i..j \subseteq kept PROVE Cardinality(B) = Cardinality(A) + (j - i)
  <2> DEFINE C == (i + 1)..j
  <2>1. B = A \cup C
    <3>1. \A k \in B : k \in A \/ k \in C
      BY <1>1
    <3>2. \A k \in C : k \in B
      <4> TAKE k \in C
      <4>1. k \in i..j /\ k <= j
        BY <1>1
      <4> QED BY <1>5, <4>1
    <3> QED BY <1>2, <3>1, <3>2
  <2>2. A \cap C = {}
    BY <1>1
  <2>3. IsFiniteSet(C) /\ Cardinality(C) = j - i
    <3>1. i + 1 \in Int /\ j \in Int
      BY <1>1
    <3>2. IsFiniteSet((i + 1)..j) /\ Cardinality((i + 1)..j) = IF i + 1 > j THEN 0 ELSE j - (i + 1) + 1
      BY <3>1, FS_Interval
    <3> QED BY <1>1, <3>2
  <2> HIDE DEF A, B, C
  <2>4. Cardinality(A \cup C) = Cardinality(A) + Cardinality(C) - Cardinality(A \cap C)
    BY <1>2, <2>3, FS_Union
  <2>5. Cardinality(A \cap C) = 0
    BY <2>2, FS_EmptySet
  <2> QED BY <1>1, <1>3, <2>1, <2>3, <2>4, <2>5
<1>6. Place(kept, i) = Cardinality(A) /\ Place(kept, j) = Cardinality(B)
  BY DEF Place
<1> HIDE DEF A, B
<1> QED BY <1>3, <1>4, <1>5, <1>6

(* The sections.                                                           *)
Sections ==
  [key : CallIds \cup {NoKey, "failure"}, pri : Int,
   kind : {"user", "workspace", "provider", "tool", "verification"}, tok : Nat]

(* The registry has the last of each key and whatever has none, each that  *)
(* is not empty; and nothing comes before what has a greater priority.     *)
LEMMA RegisteredIs ==
  ASSUME NEW ss \in Seq(Sections)
  PROVE  /\ Registered(ss) \in Seq(Sections)
         /\ Len(Registered(ss)) \in Nat
         /\ \A i \in Kept(ss) : \E k \in 1..Len(Registered(ss)) : Registered(ss)[k] = ss[i]
         /\ \A k, l \in 1..Len(Registered(ss)) :
              k < l => Registered(ss)[k].pri >= Registered(ss)[l].pri
<1> DEFINE kept == Kept(ss)
           upTo == [i \in kept |-> {j \in kept : \/ ss[j].pri > ss[i].pri
                                                 \/ ss[j].pri = ss[i].pri /\ j <= i}]
<1>1. Len(ss) \in Nat /\ DOMAIN ss = 1..Len(ss)
  BY LenProperties
<1>2. kept \in SUBSET (1..Len(ss)) /\ \A i \in kept : i \in Nat /\ ss[i].pri \in Int
  <2>1. \A i \in 1..Len(ss) : ss[i] \in Sections
    BY <1>1, ElementOfSeq
  <2> QED BY <1>1, <2>1 DEF Kept, Sections
<1> HIDE DEF kept
<1>3. upTo \in [kept -> SUBSET kept] /\ \A i \in kept : i \in upTo[i]
  BY <1>2
<1>4. ASSUME NEW i \in kept, NEW j \in kept, i # j
      PROVE  \/ upTo[i] \subseteq upTo[j] /\ j \notin upTo[i]
             \/ upTo[j] \subseteq upTo[i] /\ i \notin upTo[j]
  <2>1. ASSUME NEW a \in kept, NEW b \in kept,
               ss[a].pri > ss[b].pri \/ (ss[a].pri = ss[b].pri /\ a < b)
        PROVE  upTo[a] \subseteq upTo[b] /\ b \notin upTo[a]
    <3>1. ASSUME NEW x \in kept, ss[x].pri > ss[a].pri \/ (ss[x].pri = ss[a].pri /\ x <= a)
          PROVE  ss[x].pri > ss[b].pri \/ (ss[x].pri = ss[b].pri /\ x <= b)
      BY <1>2, <2>1, <3>1
    <3>2. ~(ss[b].pri > ss[a].pri \/ (ss[b].pri = ss[a].pri /\ b <= a))
      BY <1>2, <2>1
    <3> QED BY <3>1, <3>2
  <2>2. \/ ss[i].pri > ss[j].pri \/ (ss[i].pri = ss[j].pri /\ i < j)
        \/ ss[j].pri > ss[i].pri \/ (ss[j].pri = ss[i].pri /\ j < i)
    BY <1>2, <1>4
  <2> QED BY <2>1, <2>2
<1>5. Registered(ss) = Arranged(ss, upTo)
  BY DEF Registered, kept
<1>6. ASSUME NEW i \in kept, NEW j \in kept, ss[i].pri < ss[j].pri
      PROVE  upTo[j] \subseteq upTo[i]
  <2>1. \A x \in kept : ss[x].pri > ss[j].pri \/ (ss[x].pri = ss[j].pri /\ x <= j) => ss[x].pri > ss[i].pri
    BY <1>2, <1>6
  <2> QED BY <2>1
<1> HIDE DEF upTo
<1>7. /\ Arranged(ss, upTo) \in Seq(Sections)
      /\ Cardinality(kept) \in Nat /\ Len(Arranged(ss, upTo)) = Cardinality(kept)
      /\ \A k \in 1..Cardinality(kept) :
           \E i \in kept : Cardinality(upTo[i]) = k /\ Arranged(ss, upTo)[k] = ss[i]
      /\ \A i \in kept : /\ Cardinality(upTo[i]) \in 1..Cardinality(kept)
                         /\ Arranged(ss, upTo)[Cardinality(upTo[i])] = ss[i]
      /\ \A i \in kept : IsFiniteSet(upTo[i])
  BY <1>2, <1>3, <1>4, ArrangedIs
<1>8. \A i \in kept : \E k \in 1..Len(Registered(ss)) : Registered(ss)[k] = ss[i]
  BY <1>5, <1>7
<1>9. ASSUME NEW k \in 1..Len(Registered(ss)), NEW l \in 1..Len(Registered(ss)), k < l
      PROVE  Registered(ss)[k].pri >= Registered(ss)[l].pri
  <2>1. PICK i \in kept : Cardinality(upTo[i]) = k /\ Registered(ss)[k] = ss[i]
    BY <1>5, <1>7
  <2>2. PICK j \in kept : Cardinality(upTo[j]) = l /\ Registered(ss)[l] = ss[j]
    BY <1>5, <1>7
  <2>3. ASSUME ss[i].pri < ss[j].pri PROVE FALSE
    <3>1. upTo[j] \in SUBSET upTo[i] /\ IsFiniteSet(upTo[i])
      BY <1>6, <1>7, <2>3
    <3>2. Cardinality(upTo[j]) <= Cardinality(upTo[i])
      BY <3>1, FS_Subset
    <3> QED BY <1>7, <1>9, <2>1, <2>2, <3>2
  <2> QED BY <1>2, <2>1, <2>2, <2>3
<1> QED BY <1>5, <1>7, <1>8, <1>9 DEF kept

(***************************************************************************)
(* Projection.                                                             *)
(***************************************************************************)

(* An exchange, by what its messages are.                                  *)
LEMMA ExchangeIs ==
  ASSUME NEW ms \in Seq(Message), NEW k \in Exchanges(ms)
  PROVE  /\ k \in 1..Len(ms) /\ ms[k].calls # {} /\ ms[k].role = "assistant"
         /\ Cardinality(ms[k].calls) \in Nat \ {0}
         /\ k + Cardinality(ms[k].calls) <= Len(ms)
         /\ ExchangeOf(ms, k) = k..(k + Cardinality(ms[k].calls))
         /\ \A j \in (k + 1)..(k + Cardinality(ms[k].calls)) :
              ms[j].role = "tool" /\ ms[j].for \in ms[k].calls
<1>1. Len(ms) \in Nat /\ DOMAIN ms = 1..Len(ms) /\ k \in 1..Len(ms) /\ Complete(ms, k)
  BY LenProperties DEF Exchanges
<1>2. ms[k] \in Message /\ ms[k].calls # {}
  BY <1>1, ElementOfSeq DEF Complete
<1>3. ms[k].calls \in SUBSET CallIds /\ ms[k].role = "assistant"
  BY <1>2 DEF Message
<1>4. IsFiniteSet(ms[k].calls)
  BY <1>3, CallsAssumption, FS_Subset
<1>5. Cardinality(ms[k].calls) \in Nat \ {0}
  BY <1>2, <1>4, FS_CardinalityType, FS_EmptySet
<1> QED BY <1>1, <1>2, <1>3, <1>5 DEF Complete, ExchangeOf

(* Exchanges do not overlap: only one begins in each.                      *)
LEMMA ExchangesApart ==
  ASSUME NEW ms \in Seq(Message), NEW k \in Exchanges(ms), NEW l \in Exchanges(ms),
         l \in ExchangeOf(ms, k)
  PROVE  l = k
<1>1. ms[l].role = "assistant" /\ k \in Nat /\ Cardinality(ms[k].calls) \in Nat
  BY ExchangeIs
<1>2. \A j \in (k + 1)..(k + Cardinality(ms[k].calls)) : ms[j].role = "tool"
  BY ExchangeIs
<1>3. l \in k..(k + Cardinality(ms[k].calls))
  BY ExchangeIs
<1> QED BY <1>1, <1>2, <1>3

(* What the projection keeps of a transcript.                              *)
Projection(ms) == {i \in 1..Len(ms) : Plain(ms[i]) \/ \E k \in Latest(ms) : i \in ExchangeOf(ms, k)}

(* TranscriptProjector keeps what is plain and the newest exchange, once   *)
(* the exchanges are whole.                                                *)
LEMMA ProjectedIs ==
  ASSUME NEW ms \in Seq(Message), Whole(ms)
  PROVE  Projected(ms) = Filtered(ms, Projection(ms))
<1>1. Len(ms) \in Nat /\ DOMAIN ms = 1..Len(ms) /\ \A i \in 1..Len(ms) : ms[i] \in Message
  BY LenProperties, ElementOfSeq
<1>2. \A i \in 1..Len(ms) :
        (ms[i].role \notin {"tool", "system"} /\ i \notin Exchanges(ms)) <=> Plain(ms[i])
  <2> TAKE i \in 1..Len(ms)
  <2>1. ms[i].calls # {} => i \in Exchanges(ms)
    BY <1>1 DEF Whole, Exchanges
  <2>2. i \in Exchanges(ms) => ms[i].calls # {}
    BY DEF Exchanges, Complete
  <2>3. ms[i].role \in {"system", "user", "assistant", "tool"}
    BY <1>1 DEF Message
  <2> QED BY <2>1, <2>2, <2>3 DEF Plain
<1>3. {i \in DOMAIN ms : \/ ms[i].role \notin {"tool", "system"} /\ i \notin Exchanges(ms)
                         \/ \E k \in Latest(ms) : i \in ExchangeOf(ms, k)} = Projection(ms)
  BY <1>1, <1>2 DEF Projection
<1> QED BY <1>3, Zenon DEF Projected

(* Among the messages kept, an exchange is the latest and stays together.  *)
LEMMA LatestKept ==
  ASSUME NEW ms \in Seq(Message), Whole(ms), NEW k \in Latest(ms), NEW d \in Nat,
         k + d \in ExchangeOf(ms, k)
  PROVE  /\ k \in Projection(ms) /\ k + d \in Projection(ms)
         /\ Place(Projection(ms), k + d) = Place(Projection(ms), k) + d
<1>1. k \in Exchanges(ms)
  BY DEF Latest
<1>2. /\ k \in 1..Len(ms) /\ Cardinality(ms[k].calls) \in Nat
      /\ k + Cardinality(ms[k].calls) <= Len(ms)
      /\ ExchangeOf(ms, k) = k..(k + Cardinality(ms[k].calls))
  BY <1>1, ExchangeIs
<1>3. Len(ms) \in Nat
  BY LenProperties
<1>4. k..(k + d) \subseteq Projection(ms)
  <2> SUFFICES ASSUME NEW i \in k..(k + d) PROVE i \in Projection(ms)
    OBVIOUS
  <2>1. i \in 1..Len(ms) /\ i \in ExchangeOf(ms, k)
    BY <1>2, <1>3
  <2> QED BY <2>1 DEF Projection
<1>5. Projection(ms) \in SUBSET (1..Len(ms)) /\ k \in Projection(ms) /\ k + d \in Projection(ms) /\ k <= k + d
  <2>1. k \in k..(k + d) /\ k + d \in k..(k + d)
    BY <1>2
  <2> QED BY <1>2, <1>4, <2>1 DEF Projection
<1>6. k + d - k = d
  BY <1>2
<1> HIDE DEF Projection
<1> DEFINE j == k + d
<1>7. j \in Projection(ms) /\ k <= j /\ k..j \subseteq Projection(ms) /\ j - k = d
  BY <1>4, <1>5, <1>6
<1> HIDE DEF j
<1>8. Place(Projection(ms), j) = Place(Projection(ms), k) + (j - k)
  BY <1>3, <1>5, <1>7, PlacesFollow
<1> QED BY <1>5, <1>7, <1>8 DEF j

(* A projected transcript is whole; its one exchange is the latest.        *)
LEMMA ProjectedWhole ==
  ASSUME NEW ms \in Seq(Message), Whole(ms)
  PROVE  /\ Projected(ms) \in Seq(Message) /\ Len(Projected(ms)) \in Nat
         /\ Whole(Projected(ms))
         /\ \A k \in Projection(ms) : /\ Place(Projection(ms), k) \in 1..Len(Projected(ms))
                                      /\ Projected(ms)[Place(Projection(ms), k)] = ms[k]
         /\ \A p \in 1..Len(Projected(ms)) :
              \E i \in Projection(ms) : Place(Projection(ms), i) = p /\ Projected(ms)[p] = ms[i]
         /\ \A p \in 1..Len(Projected(ms)) : Projected(ms)[p].calls # {} =>
              \E k \in Latest(ms) : p = Place(Projection(ms), k)
<1> DEFINE kept == Projection(ms)
           P == Projected(ms)
<1>1. Len(ms) \in Nat /\ DOMAIN ms = 1..Len(ms) /\ \A i \in 1..Len(ms) : ms[i] \in Message
  BY LenProperties, ElementOfSeq
<1>2. kept \in SUBSET (1..Len(ms))
  BY DEF Projection
<1>3. /\ P \in Seq(Message) /\ Len(P) \in Nat
      /\ \A p \in 1..Len(P) : \E i \in kept : Place(kept, i) = p /\ P[p] = ms[i]
      /\ \A i \in kept : Place(kept, i) \in 1..Len(P) /\ P[Place(kept, i)] = ms[i]
  <2>1. P = Filtered(ms, kept)
    BY ProjectedIs
  <2> HIDE DEF P, kept
  <2> QED BY <1>2, <2>1, FilteredIs
<1> HIDE DEF P
<1>4. DOMAIN P = 1..Len(P)
  BY <1>3, LenProperties
<1>5. ASSUME NEW k \in Latest(ms)
      PROVE  /\ k \in kept /\ Complete(P, Place(kept, k))
             /\ \A i \in ExchangeOf(ms, k) : Place(kept, i) \in ExchangeOf(P, Place(kept, k))
  <2> DEFINE c == Cardinality(ms[k].calls)
             q == Place(kept, k)
  <2>1. k \in Exchanges(ms)
    BY DEF Latest
  <2>2. /\ k \in 1..Len(ms) /\ c \in Nat \ {0} /\ k + c <= Len(ms) /\ ms[k].calls # {}
        /\ ExchangeOf(ms, k) = k..(k + c)
        /\ \A j \in (k + 1)..(k + c) : ms[j].role = "tool" /\ ms[j].for \in ms[k].calls
    BY <2>1, ExchangeIs
  <2>3. ASSUME NEW d \in 0..c
        PROVE  k \in kept /\ k + d \in kept /\ Place(kept, k + d) = q + d
    <3>1. d \in Nat /\ k + d \in ExchangeOf(ms, k)
      BY <2>2
    <3> QED BY <3>1, LatestKept
  <2>4. q \in 1..Len(P) /\ P[q] = ms[k]
    <3>1. 0 \in 0..c
      BY <2>2
    <3> QED BY <1>3, <2>3, <3>1
  <2>5. q + c <= Len(P)
    <3>1. c \in 0..c
      BY <2>2
    <3>2. q + c \in 1..Len(P)
      BY <1>3, <2>3, <3>1
    <3> QED BY <3>2
  <2>6. ASSUME NEW j \in (q + 1)..(q + c)
        PROVE  P[j].role = "tool" /\ P[j].for \in P[q].calls
    <3> HIDE DEF c, q
    <3>0. c \in Nat /\ q \in Nat /\ k \in Nat
      BY <1>1, <1>3, <2>2, <2>4
    <3>1. j - q \in 0..c /\ k + (j - q) \in (k + 1)..(k + c) /\ q + (j - q) = j
      BY <3>0
    <3> DEFINE d == j - q
    <3>2. d \in 0..c /\ k + d \in (k + 1)..(k + c) /\ q + d = j
      BY <3>1
    <3> HIDE DEF d
    <3>3. P[j] = ms[k + d]
      BY <1>3, <2>3, <3>2
    <3> QED BY <2>2, <2>4, <3>2, <3>3
  <2>7. ASSUME NEW i \in ExchangeOf(ms, k)
        PROVE  Place(kept, i) \in q..(q + c)
    <3>1. i - k \in 0..c /\ k + (i - k) = i
      BY <2>2
    <3> DEFINE d == i - k
    <3>2. d \in 0..c /\ k + d = i
      BY <3>1
    <3>3. Place(kept, k + d) = q + d
      BY <2>3, <3>2
    <3> HIDE DEF d, c, q
    <3> QED BY <2>2, <2>4, <3>2, <3>3 DEF c
  <2>8. k \in kept
    BY <2>2, <2>3
  <2> QED BY <2>2, <2>4, <2>5, <2>6, <2>7, <2>8 DEF Complete, ExchangeOf
<1>6. ASSUME NEW p \in 1..Len(P), P[p].calls # {}
      PROVE  \E k \in Latest(ms) : p = Place(kept, k)
  <2>1. PICK i \in kept : Place(kept, i) = p /\ P[p] = ms[i]
    BY <1>3
  <2>2. i \in 1..Len(ms) /\ ms[i].calls # {} /\ i \in Exchanges(ms)
    BY <1>1, <1>2, <1>6, <2>1 DEF Whole, Exchanges
  <2>3. PICK k \in Latest(ms) : i \in ExchangeOf(ms, k)
    BY <2>2 DEF Projection, Plain
  <2>4. i = k
    BY <2>2, <2>3, ExchangesApart DEF Latest
  <2> QED BY <2>1, <2>4
<1>7. Whole(P)
  <2> SUFFICES ASSUME NEW p \in 1..Len(P)
               PROVE  /\ P[p].calls # {} => Complete(P, p)
                      /\ P[p].role = "tool" => \E q \in Exchanges(P) : p \in ExchangeOf(P, q)
    BY <1>4 DEF Whole
  <2>1. P[p].calls # {} => Complete(P, p)
    BY <1>5, <1>6
  <2>2. ASSUME P[p].role = "tool" PROVE \E q \in Exchanges(P) : p \in ExchangeOf(P, q)
    <3>1. PICK i \in kept : Place(kept, i) = p /\ P[p] = ms[i]
      BY <1>3
    <3>2. PICK k \in Latest(ms) : i \in ExchangeOf(ms, k)
      BY <2>2, <3>1 DEF Projection, Plain
    <3>3. Complete(P, Place(kept, k)) /\ Place(kept, k) \in 1..Len(P)
      BY <1>3, <1>5
    <3>4. p \in ExchangeOf(P, Place(kept, k))
      BY <1>5, <3>1, <3>2
    <3> QED BY <1>4, <3>3, <3>4 DEF Exchanges
  <2> QED BY <2>1, <2>2
<1> QED BY <1>3, <1>6, <1>7 DEF P

(***************************************************************************)
(* Compaction.                                                             *)
(***************************************************************************)

(* The protected part of a transcript begins no later than at its last     *)
(* message of the user, and at its last call.                              *)
LEMMA ProtectedIs ==
  ASSUME NEW p \in Seq(Message)
  PROVE  /\ ProtectedStart(p) \in 1..(Len(p) + 1)
         /\ \A u \in 1..Len(p) :
              p[u].role = "user" /\ (\A v \in 1..Len(p) : p[v].role = "user" => v <= u)
                => ProtectedStart(p) <= u
         /\ \A c \in 1..Len(p) :
              p[c].calls # {} /\ (\A d \in 1..Len(p) : p[d].calls # {} => d <= c)
                => ProtectedStart(p) <= c
<1> DEFINE users == {i \in DOMAIN p : p[i].role = "user"}
           calls == {i \in DOMAIN p : p[i].role = "assistant" /\ p[i].calls # {}}
           candidates == {Max(s) : s \in {users, calls} \ {{}}}
           start == ProtectedStart(p)
<1>1. Len(p) \in Nat /\ DOMAIN p = 1..Len(p) /\ \A i \in 1..Len(p) : p[i] \in Message
  BY LenProperties, ElementOfSeq
<1>2. calls = {i \in 1..Len(p) : p[i].calls # {}}
  BY <1>1 DEF Message
<1>3. start = IF candidates = {} THEN AtLeast(1, Len(p)) ELSE Min(candidates)
  BY DEF ProtectedStart
<1>4. users \in SUBSET (1..Len(p)) /\ calls \in SUBSET (1..Len(p))
  BY <1>1
<1>5. ASSUME NEW s \in {users, calls}, s # {}
      PROVE  Max(s) \in s /\ \A y \in s : y <= Max(s)
  <2>1. s \in SUBSET (0..Len(p))
    BY <1>1, <1>4
  <2> QED BY <1>1, <1>5, <2>1, HasGreatest
<1>6. users # {} => Max(users) \in candidates
  OBVIOUS
<1>7. calls # {} => Max(calls) \in candidates
  OBVIOUS
<1>8. candidates \in SUBSET (1..Len(p))
  <2> SUFFICES ASSUME NEW m \in candidates PROVE m \in 1..Len(p)
    OBVIOUS
  <2>1. PICK s \in {users, calls} \ {{}} : m = Max(s)
    OBVIOUS
  <2> HIDE DEF users, calls, candidates
  <2>2. m \in s
    BY <1>5, <2>1
  <2>3. s \in SUBSET (1..Len(p))
    BY <1>4, <2>1
  <2> QED BY <2>2, <2>3
<1>9. \A u \in 1..Len(p) :
        p[u].role = "user" /\ (\A v \in 1..Len(p) : p[v].role = "user" => v <= u)
          => users # {} /\ u = Max(users)
  <2> TAKE u \in 1..Len(p)
  <2> SUFFICES ASSUME p[u].role = "user", \A v \in 1..Len(p) : p[v].role = "user" => v <= u
               PROVE  users # {} /\ u = Max(users)
    OBVIOUS
  <2>1. u \in users
    BY <1>1
  <2>2. Max(users) \in users /\ u <= Max(users)
    BY <1>5, <2>1
  <2>3. Max(users) \in 1..Len(p) /\ p[Max(users)].role = "user"
    BY <1>1, <2>2
  <2>4. Max(users) <= u /\ Max(users) \in Nat
    BY <1>1, <2>3
  <2> QED BY <2>1, <2>2, <2>4
<1>10. \A c \in 1..Len(p) :
        p[c].calls # {} /\ (\A d \in 1..Len(p) : p[d].calls # {} => d <= c)
          => calls # {} /\ c = Max(calls)
  <2> TAKE c \in 1..Len(p)
  <2> SUFFICES ASSUME p[c].calls # {}, \A d \in 1..Len(p) : p[d].calls # {} => d <= c
               PROVE  calls # {} /\ c = Max(calls)
    OBVIOUS
  <2>1. c \in calls
    BY <1>2
  <2>2. PICK m : m = Max(calls)
    OBVIOUS
  <2>3. m \in calls /\ c <= m
    BY <1>5, <2>1, <2>2
  <2>4. m \in 1..Len(p) /\ p[m].calls # {}
    BY <1>2, <2>3
  <2>5. m <= c /\ m \in Nat
    BY <1>1, <2>4
  <2> QED BY <2>1, <2>2, <2>3, <2>5
<1> HIDE DEF users, calls, candidates, start
<1>11. CASE candidates = {}
  <2>1. users = {} /\ calls = {}
    BY <1>6, <1>7, <1>11
  <2>2. start = AtLeast(1, Len(p))
    BY <1>3, <1>11
  <2>3. start \in 1..(Len(p) + 1)
    <3>1. PICK n \in Nat : n = Len(p)
      BY <1>1
    <3>2. start = IF 1 >= n THEN 1 ELSE n
      BY <2>2, <3>1 DEF AtLeast
    <3>3. start \in 1..(n + 1)
      <4>1. CASE 1 >= n
        BY <3>2, <4>1
      <4>2. CASE ~(1 >= n)
        BY <3>2, <4>2
      <4> QED BY <4>1, <4>2
    <3> QED BY <3>1, <3>3
  <2> QED BY <1>9, <1>10, <2>1, <2>3 DEF start
<1>12. CASE candidates # {}
  <2>1. candidates \in SUBSET Nat
    BY <1>8
  <2>2. \E x \in candidates : \A y \in candidates : y >= x
    <3>1. PICK x \in candidates : \A y \in candidates : x <= y
      BY <1>12, <2>1, HasLeast
    <3>2. \A y \in candidates : y >= x
      BY <2>1, <3>1
    <3> QED BY <3>2
  <2>3. Min(candidates) \in candidates /\ \A y \in candidates : Min(candidates) <= y
    <3>1. Min(candidates) \in candidates /\ \A y \in candidates : y >= Min(candidates)
      BY <2>2, Zenon DEF Min
    <3> QED BY <2>1, <3>1
  <2>4. start = Min(candidates)
    BY <1>3, <1>12
  <2>5. start \in 1..(Len(p) + 1)
    <3>1. start \in candidates
      BY <2>3, <2>4
    <3>2. start \in 1..Len(p)
      BY <1>8, <3>1
    <3> QED BY <1>1, <3>2
  <2> QED BY <1>6, <1>7, <1>9, <1>10, <2>3, <2>4, <2>5 DEF start
<1> QED BY <1>11, <1>12

(* What a cut leaves is a number of tokens.                                *)
LEMMA PartIs ==
  ASSUME NEW room \in Nat, NEW share \in Shares
  PROVE  Part(room, share) \in Nat
<1>1. share \in {"full", "line", "none"}
  BY DEF Shares
<1>2. (room + 1) \div 2 \in Nat
  OBVIOUS
<1> QED BY <1>1, <1>2 DEF Part

(* What compaction makes of a list: it begins later, perhaps behind a      *)
(* summary of what it left out.                                            *)
Begun(p, r, start, head) ==
  /\ r \in Seq(Message) /\ start \in 1..(Len(p) + 1) /\ head \in {0, 1}
  /\ Len(r) = Len(p) - (start - 1) + head
  /\ \A i \in 1..Len(r) : i > head => r[i] = p[i + (start - 1) - head]
  /\ head = 1 => Plain(r[1])
  /\ start = 1 => head = 0

(* The tokens of messages are a number.                                    *)
LEMMA TokensOf ==
  ASSUME NEW p \in Seq(Message)
  PROVE  Tokens(p) \in Nat
<1>1. Len(p) \in Nat /\ \A i \in 1..Len(p) : p[i] \in Message
  BY LenProperties, ElementOfSeq
<1>2. \A i \in 1..Len(p) : p[i].tok \in Nat
  BY <1>1 DEF Message
<1> QED BY <1>1, <1>2, TokensAre

(* Compaction cuts at the beginning or at the protected messages, and      *)
(* reports what it leaves out.                                             *)
LEMMA CompactedIs ==
  ASSUME NEW p \in Seq(Message), NEW budget \in Nat, NEW share \in Shares
  PROVE  \E start \in {1, ProtectedStart(p)}, head \in {0, 1} :
           /\ Begun(p, Compacted(p, budget, share).messages, start, head)
           /\ Compacted(p, budget, share).summarized = start - 1
<1>1. Len(p) \in Nat /\ DOMAIN p = 1..Len(p) /\ \A i \in 1..Len(p) : p[i] \in Message
  BY LenProperties, ElementOfSeq
<1> DEFINE C == Compacted(p, budget, share)
<1>2. CASE Tokens(p) <= budget
  <2>1. C = [messages |-> p, summarized |-> 0]
    BY <1>2 DEF Compacted
  <2>2. Begun(p, p, 1, 0)
    BY <1>1 DEF Begun
  <2> QED BY <2>1, <2>2
<1>3. CASE ~(Tokens(p) <= budget)
  <2>1. PICK start : start = ProtectedStart(p)
    OBVIOUS
  <2>2. start \in 1..(Len(p) + 1)
    BY <2>1, ProtectedIs
  <2>3. PICK prefix : prefix = SubSeq(p, 1, start - 1)
    OBVIOUS
  <2>4. PICK guarded : guarded = SubSeq(p, start, Len(p))
    OBVIOUS
  <2>5. PICK room : room = AtLeast(0, budget - Tokens(guarded) - 8)
    OBVIOUS
  <2>6. PICK summary : summary = Part(room, share)
    OBVIOUS
  <2>7. C = [messages |-> IF prefix # <<>> /\ Tokens(guarded) <= budget /\ summary > 0
                            THEN <<Summary(summary)>> \o guarded
                            ELSE guarded,
             summarized |-> Len(prefix)]
    BY <1>3, <2>1, <2>3, <2>4, <2>5, <2>6, Zenon DEF Compacted
  <2>8. /\ guarded \in Seq(Message) /\ Len(guarded) = Len(p) - (start - 1)
        /\ \A i \in 1..Len(guarded) : guarded[i] = p[i + (start - 1)]
    <3>1. start \in Int /\ Len(p) \in Int /\ \A i \in start..Len(p) : p[i] \in Message
      BY <1>1, <2>2
    <3>2. /\ SubSeq(p, start, Len(p)) \in Seq(Message)
          /\ Len(SubSeq(p, start, Len(p))) = IF start <= Len(p) THEN Len(p) - start + 1 ELSE 0
          /\ \A i \in 1..(Len(p) - start + 1) : SubSeq(p, start, Len(p))[i] = p[start + i - 1]
      <4> DEFINE t == Len(p)
      <4>1. start \in Int /\ t \in Int /\ \A i \in start..t : p[i] \in Message
        BY <3>1
      <4> HIDE DEF t
      <4>2. /\ SubSeq(p, start, t) \in Seq(Message)
            /\ Len(SubSeq(p, start, t)) = IF start <= t THEN t - start + 1 ELSE 0
            /\ \A i \in 1..(t - start + 1) : SubSeq(p, start, t)[i] = p[start + i - 1]
        BY <4>1, SubSeqProperties
      <4> QED BY <4>2 DEF t
    <3>3. Len(guarded) = Len(p) - (start - 1)
      BY <1>1, <2>2, <2>4, <3>2
    <3>4. \A i \in 1..Len(guarded) : i \in 1..(Len(p) - start + 1) /\ start + i - 1 = i + (start - 1)
      BY <1>1, <2>2, <3>3
    <3> QED BY <2>4, <3>2, <3>3, <3>4
  <2>9. Len(prefix) = start - 1
    <3>1. 1 \in Int /\ start - 1 \in Int /\ \A i \in 1..(start - 1) : p[i] \in Message
      BY <1>1, <2>2
    <3> DEFINE t == start - 1
    <3>2. 1 \in Int /\ t \in Int /\ \A i \in 1..t : p[i] \in Message
      BY <3>1
    <3>3. prefix = SubSeq(p, 1, t)
      BY <2>3
    <3>4. t >= 0
      BY <2>2
    <3> HIDE DEF t
    <3>5. Len(SubSeq(p, 1, t)) = IF 1 <= t THEN t - 1 + 1 ELSE 0
      BY <3>2, SubSeqProperties
    <3> QED BY <3>2, <3>3, <3>4, <3>5 DEF t
  <2>10. summary \in Nat
    <3>1. Tokens(guarded) \in Nat
      BY <2>8, TokensOf
    <3>2. room \in Nat
      BY <2>5, <3>1 DEF AtLeast
    <3> QED BY <2>6, <3>2, PartIs
  <2>11. Begun(p, guarded, start, 0)
    BY <1>1, <2>2, <2>8 DEF Begun
  <2>12. ASSUME prefix # <<>>
         PROVE  Begun(p, <<Summary(summary)>> \o guarded, start, 1)
    <3>1. PICK s : s = Summary(summary)
      OBVIOUS
    <3>2. s \in Message /\ Plain(s)
      <4>1. 1 + SummaryHeadTok + summary \in Nat \ {0}
        BY <2>10 DEF SummaryHeadTok
      <4>2. s = [role |-> "user", id |-> 0, calls |-> {}, for |-> NoKey, tok |-> 1 + SummaryHeadTok + summary]
        BY <3>1 DEF Summary
      <4> QED BY <4>1, <4>2 DEF Message, Plain
    <3>3. start # 1
      <4>1. start = 1 => Len(prefix) = 0
        BY <2>9
      <4>2. prefix \in Seq(Message)
        <5>1. 1 \in Int /\ start - 1 \in Int /\ \A i \in 1..(start - 1) : p[i] \in Message
          BY <1>1, <2>2
        <5> QED BY <2>3, <5>1, SubSeqProperties
      <4>3. Len(prefix) = 0 => prefix = <<>>
        BY <4>2, EmptySeq
      <4> QED BY <2>12, <4>1, <4>3
    <3>4. PICK one : one = <<s>>
      OBVIOUS
    <3>5. one \in Seq(Message) /\ Len(one) = 1 /\ one[1] = s
      BY <3>2, <3>4
    <3>6. PICK r : r = one \o guarded
      OBVIOUS
    <3>7. /\ r \in Seq(Message) /\ Len(r) = 1 + Len(guarded)
          /\ \A i \in 1..Len(r) : r[i] = IF i <= 1 THEN one[i] ELSE guarded[i - 1]
      <4>1. guarded \in Seq(Message) /\ one \in Seq(Message)
        BY <2>8, <3>5
      <4>2. /\ one \o guarded \in Seq(Message) /\ Len(one \o guarded) = Len(one) + Len(guarded)
            /\ \A i \in 1..(Len(one) + Len(guarded)) :
                 (one \o guarded)[i] = IF i <= Len(one) THEN one[i] ELSE guarded[i - Len(one)]
        BY <4>1, ConcatProperties
      <4> QED BY <3>5, <3>6, <4>2
    <3>8. \A i \in 1..Len(r) : i > 1 => r[i] = p[i + (start - 1) - 1]
      <4> SUFFICES ASSUME NEW i \in 1..Len(r), i > 1 PROVE r[i] = p[i + (start - 1) - 1]
        OBVIOUS
      <4>1. i - 1 \in 1..Len(guarded) /\ (i - 1) + (start - 1) = i + (start - 1) - 1
        BY <1>1, <2>2, <2>8, <3>7
      <4>2. r[i] = guarded[i - 1]
        BY <3>7
      <4> QED BY <2>8, <4>1, <4>2
    <3>9. r[1] = s
      <4>1. 1 \in 1..Len(r)
        BY <1>1, <2>2, <2>8, <3>7
      <4> QED BY <3>5, <3>7, <4>1
    <3>10. Begun(p, r, start, 1)
      BY <1>1, <2>2, <2>8, <3>2, <3>3, <3>7, <3>8, <3>9 DEF Begun
    <3> QED BY <3>1, <3>4, <3>6, <3>10
  <2>13. C.summarized = start - 1 /\ (C.messages = guarded \/ (prefix # <<>> /\ C.messages = <<Summary(summary)>> \o guarded))
    BY <2>7, <2>9
  <2> QED BY <2>1, <2>11, <2>12, <2>13
<1> QED BY <1>2, <1>3

(* What begins no later than the calls in it stays whole.                  *)
LEMMA BegunWhole ==
  ASSUME NEW p \in Seq(Message), Whole(p), NEW r, NEW start, NEW head, Begun(p, r, start, head),
         \A c \in 1..Len(p) : p[c].calls # {} => start <= c
  PROVE  Whole(r)
<1>1. Len(p) \in Nat /\ DOMAIN p = 1..Len(p) /\ start \in 1..(Len(p) + 1) /\ head \in {0, 1}
  BY LenProperties DEF Begun
<1>2. Len(r) \in Nat /\ DOMAIN r = 1..Len(r) /\ Len(r) = Len(p) - (start - 1) + head
  BY LenProperties DEF Begun
<1>3. PICK s \in Int : s = start - 1 - head
  BY <1>1
<1>4. \A i \in 1..Len(r) : i > head => i + s \in 1..Len(p) /\ r[i] = p[i + s]
  <2> SUFFICES ASSUME NEW i \in 1..Len(r), i > head
               PROVE  i + s \in 1..Len(p) /\ r[i] = p[i + s]
    OBVIOUS
  <2>1. i + s = i + (start - 1) - head
    BY <1>1, <1>3
  <2> QED BY <1>1, <1>2, <1>3, <2>1 DEF Begun
<1>5. \A i \in 1..Len(r) : i <= head => Plain(r[i])
  BY <1>1 DEF Begun
<1>6. ASSUME NEW k \in Exchanges(p)
      PROVE  k - s \in Exchanges(r) /\ ExchangeOf(r, k - s) = (k - s)..((k - s) + Cardinality(p[k].calls))
  <2> DEFINE c == Cardinality(p[k].calls)
  <2>1. /\ k \in 1..Len(p) /\ p[k].calls # {} /\ c \in Nat \ {0} /\ k + c <= Len(p)
        /\ \A j \in (k + 1)..(k + c) : p[j].role = "tool" /\ p[j].for \in p[k].calls
    BY ExchangeIs
  <2> HIDE DEF c
  <2>2. start <= k
    BY <2>1
  <2>3. /\ k - s \in 1..Len(r) /\ k - s > head /\ (k - s) + c <= Len(r) /\ (k - s) + s = k
    BY <1>1, <1>2, <1>3, <2>1, <2>2
  <2>4. r[k - s] = p[k]
    BY <1>4, <2>3
  <2>5. ASSUME NEW j \in (k - s + 1)..(k - s + c)
        PROVE  r[j].role = "tool" /\ r[j].for \in r[k - s].calls
    <3>1. j \in 1..Len(r) /\ j > head /\ j + s \in (k + 1)..(k + c)
      BY <1>1, <1>2, <2>1, <2>3
    <3>2. r[j] = p[j + s]
      BY <1>4, <3>1
    <3> QED BY <2>1, <2>4, <3>1, <3>2
  <2>6. Complete(r, k - s)
    BY <2>1, <2>3, <2>4, <2>5 DEF Complete, c
  <2> QED BY <1>2, <2>3, <2>4, <2>6 DEF Exchanges, ExchangeOf
<1>7. ASSUME NEW i \in 1..Len(r)
      PROVE  /\ r[i].calls # {} => Complete(r, i)
             /\ r[i].role = "tool" => \E k \in Exchanges(r) : i \in ExchangeOf(r, k)
  <2>1. CASE i <= head
    BY <1>5, <2>1 DEF Plain
  <2>2. CASE ~(i <= head)
    <3>1. i > head /\ i + s \in 1..Len(p) /\ r[i] = p[i + s]
      BY <1>1, <1>4, <2>2
    <3>2. ASSUME r[i].calls # {} PROVE Complete(r, i)
      <4>1. i + s \in Exchanges(p)
        BY <1>1, <3>1, <3>2 DEF Whole, Exchanges
      <4>2. (i + s) - s = i
        OBVIOUS
      <4>3. i \in Exchanges(r)
        BY <1>6, <4>1, <4>2
      <4> QED BY <4>3 DEF Exchanges
    <3>3. ASSUME r[i].role = "tool" PROVE \E k \in Exchanges(r) : i \in ExchangeOf(r, k)
      <4>1. PICK k \in Exchanges(p) : i + s \in ExchangeOf(p, k)
        BY <1>1, <3>1, <3>3 DEF Whole
      <4>2. k \in Nat /\ Cardinality(p[k].calls) \in Nat /\ i + s \in k..(k + Cardinality(p[k].calls))
        BY <4>1, ExchangeIs
      <4>3. i \in (k - s)..((k - s) + Cardinality(p[k].calls))
        BY <4>2
      <4> QED BY <1>6, <4>3
    <3> QED BY <3>2, <3>3
  <2> QED BY <2>1, <2>2
<1> QED BY <1>2, <1>7 DEF Whole

(* What does not begin behind a place keeps what is there.                 *)
LEMMA BegunKeeps ==
  ASSUME NEW p \in Seq(Message), NEW r, NEW start, NEW head, Begun(p, r, start, head),
         NEW i \in 1..Len(p), start <= i
  PROVE  p[i] \in Range(r)
<1>1. Len(p) \in Nat /\ start \in 1..(Len(p) + 1) /\ head \in {0, 1}
  BY LenProperties DEF Begun
<1>2. Len(r) \in Nat /\ DOMAIN r = 1..Len(r) /\ Len(r) = Len(p) - (start - 1) + head
  BY LenProperties DEF Begun
<1>3. PICK j \in Int : j = i - (start - 1) + head
  BY <1>1
<1>4. j \in 1..Len(r) /\ j > head /\ j + (start - 1) - head = i
  BY <1>1, <1>2, <1>3
<1>5. r[j] = p[i]
  BY <1>4 DEF Begun
<1> QED BY <1>2, <1>4, <1>5 DEF Range

(***************************************************************************)
(* Budget and truncation.                                                  *)
(***************************************************************************)

(* The budget is made of numbers.                                          *)
LEMMA BudgetIs ==
  ASSUME NEW l \in Nat, NEW p \in Seq(Message)
  PROVE  /\ HardInputLimit(l) \in Nat /\ RequestTokens(SystemTok, p) \in Nat
         /\ Available(l, p) \in Nat /\ FixedOverflow(l, p) \in Nat
<1>1. MaxContext(l) \in Nat
  BY DEF MaxContext
<1>2. MaxContext(l) \div 5 \in Nat
  BY <1>1
<1>3. Reserved(l) \in Nat
  BY <1>2 DEF Reserved, AtMost
<1>4. MaxInput(l) \in Nat
  BY <1>1, <1>3 DEF MaxInput, AtLeast
<1>5. SafetyMargin(l) \in Nat
  <2> PICK m \in Nat : m = MaxInput(l)
    BY <1>4
  <2>1. (2 * m) \div 100 \in Nat
    OBVIOUS
  <2>2. AtLeast(256, (2 * m) \div 100) \in Nat
    BY <2>1 DEF AtLeast
  <2>3. AtMost(m, AtLeast(256, (2 * m) \div 100)) \in Nat
    BY <2>2 DEF AtMost
  <2> QED BY <2>3 DEF SafetyMargin
<1>6. HardInputLimit(l) \in Nat
  BY <1>4, <1>5 DEF HardInputLimit, AtLeast
<1>7. RequestTokens(SystemTok, p) \in Nat
  <2>1. Tokens(p) \in Nat /\ Len(p) \in Nat
    BY TokensOf, LenProperties
  <2>2. Overhead(Len(p) + 1) \in Nat
    BY <2>1, SizesAssumption DEF Overhead
  <2> QED BY <2>1, <2>2, SizesAssumption DEF RequestTokens
<1>8. Available(l, p) \in Nat
  BY <1>6, <1>7 DEF Available, AtLeast
<1>9. FixedOverflow(l, p) \in Nat
  BY <1>6, <1>7 DEF FixedOverflow, AtLeast
<1> QED BY <1>6, <1>7, <1>8, <1>9

(* The text of no sections has no tokens.                                  *)
LEMMA NothingTakesNothing ==
  ASSUME NEW s, Len(s) = 0
  PROVE  TextTokens(s) = 0
<1>1. Tokens(s) = 0
  BY TokensAre
<1>2. AtLeast(0, Len(s) - 1) = 0
  BY DEF AtLeast
<1> QED BY <1>1, <1>2 DEF TextTokens, SepTok

(* Truncation keeps the first sections, and perhaps a part of the next.    *)
LEMMA TruncatedIs ==
  ASSUME NEW S, NEW ss \in Seq(S), NEW available \in Nat, NEW share
  PROVE  \E n \in 0..Len(ss) :
           /\ Truncated(ss, available, share).included = SubSeq(ss, 1, n)
           /\ Truncated(ss, available, share).dropped = SubSeq(ss, n + 1, Len(ss))
           /\ n = Len(ss) => Truncated(ss, available, share).part = 0
<1> DEFINE fits == {i \in 0..Len(ss) : TextTokens(SubSeq(ss, 1, i)) <= available}
<1>1. Len(ss) \in Nat /\ fits \in SUBSET (0..Len(ss))
  BY LenProperties
<1>2. 0 \in fits
  <2>1. 1 \in Int /\ 0 \in Int /\ \A i \in 1..0 : ss[i] \in S
    OBVIOUS
  <2>2. Len(SubSeq(ss, 1, 0)) = IF 1 <= 0 THEN 0 - 1 + 1 ELSE 0
    BY <2>1, SubSeqProperties
  <2>3. TextTokens(SubSeq(ss, 1, 0)) = 0
    <3>1. PICK z : z = SubSeq(ss, 1, 0)
      OBVIOUS
    <3>2. Len(z) = 0
      BY <2>2, <3>1
    <3>3. TextTokens(z) = 0
      BY <3>2, NothingTakesNothing
    <3> QED BY <3>1, <3>3
  <2> QED BY <1>1, <2>3
<1>3. PICK n : n = Max(fits)
  OBVIOUS
<1> HIDE DEF fits
<1>4. n \in fits
  BY <1>1, <1>2, <1>3, HasGreatest
<1>5. /\ Truncated(ss, available, share).included = SubSeq(ss, 1, n)
      /\ Truncated(ss, available, share).dropped = SubSeq(ss, n + 1, Len(ss))
      /\ n = Len(ss) => Truncated(ss, available, share).part = 0
  BY <1>3 DEF Truncated, fits
<1> QED BY <1>1, <1>4, <1>5

(* What is shown of some sections: those included, and the one in part.    *)
Shown(t) == t.included \o IF t.part > 0 THEN <<t.dropped[1]>> ELSE <<>>

(* Nothing dropped is everything included; and whatever is shown are the   *)
(* first sections.                                                         *)
LEMMA TruncatedShows ==
  ASSUME NEW S, NEW ss \in Seq(S), NEW available \in Nat, NEW share
  PROVE  /\ Truncated(ss, available, share).dropped = <<>> =>
              Truncated(ss, available, share).included = ss
         /\ \E m \in Nat : DOMAIN Shown(Truncated(ss, available, share)) = 1..m
         /\ \A k \in DOMAIN Shown(Truncated(ss, available, share)) :
              k \in 1..Len(ss) /\ Shown(Truncated(ss, available, share))[k] = ss[k]
<1>1. PICK t : t = Truncated(ss, available, share)
  OBVIOUS
<1>2. PICK n \in 0..Len(ss) : /\ t.included = SubSeq(ss, 1, n)
                              /\ t.dropped = SubSeq(ss, n + 1, Len(ss))
                              /\ n = Len(ss) => t.part = 0
  BY <1>1, TruncatedIs
<1>3. PICK m \in Nat : m = Len(ss)
  BY LenProperties
<1>4. /\ \A i \in 1..m : ss[i] \in S
      /\ 1 \in Int /\ n \in Int /\ n + 1 \in Int /\ m \in Int
      /\ \A i \in 1..n : ss[i] \in S
      /\ \A i \in (n + 1)..m : ss[i] \in S
  BY <1>2, <1>3, ElementOfSeq
<1>5. /\ t.included \in Seq(S) /\ Len(t.included) = n
      /\ \A i \in 1..n : t.included[i] = ss[i]
  <2>1. /\ SubSeq(ss, 1, n) \in Seq(S)
        /\ Len(SubSeq(ss, 1, n)) = IF 1 <= n THEN n - 1 + 1 ELSE 0
        /\ \A i \in 1..(n - 1 + 1) : SubSeq(ss, 1, n)[i] = ss[1 + i - 1]
    BY <1>4, SubSeqProperties
  <2> QED BY <1>2, <2>1
<1>6. /\ t.dropped \in Seq(S) /\ Len(t.dropped) = m - n
      /\ \A i \in 1..(m - n) : t.dropped[i] = ss[n + i]
  <2> DEFINE a == n + 1
  <2>1. a \in Int /\ m \in Int /\ \A i \in a..m : ss[i] \in S
    BY <1>4
  <2>2. t.dropped = SubSeq(ss, a, m)
    BY <1>2, <1>3
  <2> HIDE DEF a
  <2>3. /\ SubSeq(ss, a, m) \in Seq(S)
        /\ Len(SubSeq(ss, a, m)) = IF a <= m THEN m - a + 1 ELSE 0
        /\ \A i \in 1..(m - a + 1) : SubSeq(ss, a, m)[i] = ss[a + i - 1]
    BY <2>1, SubSeqProperties
  <2>4. m - a + 1 = m - n /\ (a <= m <=> n < m) /\ \A i \in Int : a + i - 1 = n + i
    BY <1>2, <1>3 DEF a
  <2>5. Len(t.dropped) = m - n
    BY <1>2, <1>3, <2>2, <2>3, <2>4
  <2>6. ASSUME NEW i \in 1..(m - n)
        PROVE  t.dropped[i] = ss[n + i]
    <3>1. i \in 1..(m - a + 1) /\ a + i - 1 = n + i
      BY <2>4
    <3> QED BY <2>2, <2>3, <3>1
  <2> QED BY <2>2, <2>3, <2>5, <2>6
<1>7. ASSUME t.dropped = <<>> PROVE t.included = ss
  <2>1. m - n = 0
    BY <1>6, <1>7
  <2>2. n = m
    BY <1>2, <1>3, <2>1
  <2>3. Len(t.included) = Len(ss) /\ \A i \in 1..Len(ss) : t.included[i] = ss[i]
    BY <1>3, <1>5, <2>2
  <2> QED BY <1>5, <2>3, SeqEqual
<1>8. /\ \E l \in Nat : DOMAIN Shown(t) = 1..l
      /\ \A k \in DOMAIN Shown(t) : k \in 1..m /\ Shown(t)[k] = ss[k]
  <2>1. PICK rest : rest = IF t.part > 0 THEN <<t.dropped[1]>> ELSE <<>>
    OBVIOUS
  <2>2. Shown(t) = t.included \o rest
    BY <2>1 DEF Shown
  <2>3. PICK R : R = S \cup {t.dropped[1]}
    OBVIOUS
  <2>4. rest \in Seq(R) /\ Len(rest) = (IF t.part > 0 THEN 1 ELSE 0)
        /\ (t.part > 0 => rest[1] = t.dropped[1])
    <3>1. CASE t.part > 0
      <4>1. t.dropped[1] \in R /\ rest = <<t.dropped[1]>>
        BY <2>1, <2>3, <3>1
      <4>2. <<t.dropped[1]>> \in [1..1 -> R] /\ 1 \in Nat
        BY <4>1
      <4>3. <<t.dropped[1]>> \in Seq(R) /\ Len(<<t.dropped[1]>>) = 1
        BY <4>2, SequenceOf
      <4> QED BY <3>1, <4>1, <4>3
    <3>2. CASE ~(t.part > 0)
      BY <2>1, <3>2, EmptySeq
    <3> QED BY <3>1, <3>2
  <2>5. t.included \in Seq(R)
    <3>1. \A i \in 1..n : t.included[i] \in R
      BY <1>4, <1>5, <2>3
    <3> QED BY <1>5, <3>1, SeqDef, LenProperties
  <2>6. /\ t.included \o rest \in Seq(R)
        /\ Len(t.included \o rest) = Len(t.included) + Len(rest)
        /\ \A i \in 1..(Len(t.included) + Len(rest)) :
             (t.included \o rest)[i] =
               IF i <= Len(t.included) THEN t.included[i] ELSE rest[i - Len(t.included)]
    BY <2>4, <2>5, ConcatProperties
  <2>7. DOMAIN Shown(t) = 1..(n + Len(rest))
    BY <1>5, <2>2, <2>6, LenProperties
  <2>8. ASSUME NEW k \in DOMAIN Shown(t) PROVE k \in 1..m /\ Shown(t)[k] = ss[k]
    <3>1. CASE k <= n
      <4>1. k \in 1..n
        BY <2>4, <2>7, <2>8, <3>1
      <4>2. Shown(t)[k] = t.included[k]
        BY <1>5, <2>2, <2>6, <2>7, <2>8, <3>1
      <4> QED BY <1>2, <1>3, <1>5, <4>1, <4>2
    <3>2. CASE ~(k <= n)
      <4>1. k = n + 1 /\ t.part > 0 /\ Len(rest) = 1
        BY <2>4, <2>7, <2>8, <3>2
      <4>2. Shown(t)[k] = rest[1]
        <5>1. Shown(t)[k] = rest[k - n]
          BY <1>5, <2>2, <2>6, <2>7, <2>8, <3>2
        <5>2. k - n = 1
          BY <4>1
        <5> QED BY <5>1, <5>2
      <4>3. n # m
        <5>1. ~(0 > 0)
          OBVIOUS
        <5> QED BY <1>2, <1>3, <4>1, <5>1
      <4>4. 1 \in 1..(m - n) /\ n + 1 \in 1..m
        BY <1>2, <1>3, <4>3
      <4>5. t.dropped[1] = ss[n + 1]
        BY <1>6, <4>4
      <4> QED BY <2>4, <4>1, <4>2, <4>4, <4>5
    <3> QED BY <3>1, <3>2
  <2>9. n + Len(rest) \in Nat
    BY <2>4
  <2> QED BY <2>7, <2>8, <2>9
<1> QED BY <1>1, <1>3, <1>7, <1>8

(***************************************************************************)
(* Archive and registry.                                                   *)
(***************************************************************************)

Numbered(ms) == \A i \in 1..Len(ms) : ms[i].id = i

(* The results of older exchanges become sections, in order, each under    *)
(* the key of its call; they are all that the projection leaves out.       *)
LEMMA ArchivedIs ==
  ASSUME NEW ms \in Seq(Message), Numbered(ms), Whole(ms)
  PROVE  /\ Archived(ms) \in Seq(Sections) /\ OldResults(ms) \in SUBSET (1..Len(ms))
         /\ \A i \in OldResults(ms) :
              LET k == Place(OldResults(ms), i) IN
              /\ k \in 1..Len(Archived(ms)) /\ Archived(ms)[k] = SectionOf(ms, ms[i])
              /\ SectionOf(ms, ms[i]).key = ms[i].for
         /\ \A k \in 1..Len(Archived(ms)) :
              /\ Archived(ms)[k].key \in CallIds /\ Archived(ms)[k].tok > 0
              /\ \E i \in OldResults(ms) : Place(OldResults(ms), i) = k
         /\ \A i \in 1..Len(ms) :
              ms[i].role = "tool" /\ i \notin Projection(ms) => i \in OldResults(ms)
<1> DEFINE old == OldResults(ms)
           results == Filtered(ms, old)
           asker(m) == ms[Max({i \in Exchanges(ms) : i < m.id})]
           A == Archived(ms)
<1>1. Len(ms) \in Nat /\ DOMAIN ms = 1..Len(ms) /\ \A i \in 1..Len(ms) : ms[i] \in Message
  BY LenProperties, ElementOfSeq
<1>2. A = [k \in DOMAIN results |-> SectionOf(ms, results[k])]
  BY DEF Archived
<1>3. old \in SUBSET (1..Len(ms))
  BY <1>1 DEF OldResults
<1>4. /\ results \in Seq(Message) /\ Len(results) \in Nat
      /\ \A k \in 1..Len(results) : \E i \in old : Place(old, i) = k /\ results[k] = ms[i]
      /\ \A i \in old : Place(old, i) \in 1..Len(results) /\ results[Place(old, i)] = ms[i]
  <2> HIDE DEF old
  <2> QED BY <1>3, FilteredIs
<1>5. DOMAIN results = 1..Len(results)
  BY <1>4, LenProperties
<1>6. ASSUME NEW i \in old
      PROVE  ms[i].for \in CallIds /\ ms[i].tok \in Nat \ {0} /\ asker(ms[i]) \in Message
  <2>1. i \in 1..Len(ms) /\ ms[i].role = "tool" /\ ms[i] \in Message /\ ms[i].id = i
    BY <1>1 DEF Numbered, OldResults
  <2>2. PICK k \in Exchanges(ms) : i \in ExchangeOf(ms, k)
    BY DEF OldResults
  <2>3. /\ k \in 1..Len(ms) /\ ms[k].role = "assistant" /\ Cardinality(ms[k].calls) \in Nat
        /\ i \in k..(k + Cardinality(ms[k].calls))
        /\ \A j \in (k + 1)..(k + Cardinality(ms[k].calls)) : ms[j].for \in ms[k].calls
    BY <2>2, ExchangeIs
  <2>4. k < i /\ ms[i].for \in ms[k].calls
    <3>1. k # i
      BY <2>1, <2>3
    <3>2. i \in (k + 1)..(k + Cardinality(ms[k].calls)) /\ k < i
      BY <2>3, <3>1
    <3> QED BY <2>3, <3>2
  <2>5. ms[k].calls \in SUBSET CallIds
    BY <1>1, <2>3 DEF Message
  <2> DEFINE before == {j \in Exchanges(ms) : j < ms[i].id}
  <2>6. k \in before /\ before \in SUBSET (0..Len(ms)) /\ before \in SUBSET (1..Len(ms))
    BY <1>1, <2>1, <2>4 DEF Exchanges
  <2>7. asker(ms[i]) = ms[Max(before)]
    OBVIOUS
  <2> HIDE DEF before
  <2>8. Max(before) \in before
    BY <1>1, <2>6, HasGreatest
  <2>9. Max(before) \in 1..Len(ms)
    BY <2>6, <2>8
  <2> QED BY <1>1, <2>1, <2>4, <2>5, <2>7, <2>9 DEF Message
<1>10. \A m : SectionOf(ms, m) = ToolResultSection(m.for, asker(m), m)
  BY DEF SectionOf
<1> HIDE DEF old, results, asker
<1>7. ASSUME NEW i \in old
      PROVE  /\ SectionOf(ms, ms[i]) \in Sections /\ SectionOf(ms, ms[i]).key = ms[i].for
             /\ SectionOf(ms, ms[i]).key \in CallIds /\ SectionOf(ms, ms[i]).tok > 0
  <2>1. PICK m : m = asker(ms[i])
    OBVIOUS
  <2>2. m \in Message /\ ms[i].for \in CallIds /\ ms[i].tok \in Nat \ {0}
    BY <1>6, <2>1
  <2>3. m.tok + ms[i].tok \in Nat /\ m.tok + ms[i].tok > 0
    BY <2>2 DEF Message
  <2>4. SectionOf(ms, ms[i]) = [key |-> ms[i].for, pri |-> 40, kind |-> "tool",
                                tok |-> m.tok + ms[i].tok]
    BY <1>10, <2>1 DEF ToolResultSection
  <2> QED BY <2>2, <2>3, <2>4 DEF Sections
<1>8. A \in Seq(Sections) /\ Len(A) = Len(results)
      /\ \A k \in 1..Len(results) : A[k] = SectionOf(ms, results[k])
  <2>1. \A k \in 1..Len(results) : SectionOf(ms, results[k]) \in Sections
    BY <1>4, <1>7
  <2>2. \A k \in 1..Len(results) : A[k] = SectionOf(ms, results[k])
    BY <1>2, <1>5
  <2>3. A \in [1..Len(results) -> Sections]
    BY <1>2, <1>5, <2>1
  <2> HIDE DEF A
  <2> QED BY <1>4, <2>2, <2>3, SequenceOf
<1>9. ASSUME NEW i \in 1..Len(ms), ms[i].role = "tool", i \notin Projection(ms)
      PROVE  i \in old
  <2>1. PICK k \in Exchanges(ms) : i \in ExchangeOf(ms, k)
    BY <1>1, <1>9 DEF Whole
  <2>2. k \notin Latest(ms)
    BY <1>9, <2>1 DEF Projection
  <2> QED BY <1>1, <1>9, <2>1, <2>2 DEF old, OldResults
<1>11. ASSUME NEW i \in old
       PROVE  /\ Place(old, i) \in 1..Len(A) /\ A[Place(old, i)] = SectionOf(ms, ms[i])
              /\ SectionOf(ms, ms[i]).key = ms[i].for
  BY <1>4, <1>7, <1>8
<1>12. ASSUME NEW k \in 1..Len(A)
       PROVE  A[k].key \in CallIds /\ A[k].tok > 0 /\ \E i \in old : Place(old, i) = k
  BY <1>4, <1>7, <1>8
<1> HIDE DEF A
<1>13. /\ A \in Seq(Sections) /\ old \in SUBSET (1..Len(ms))
       /\ \A i \in old :
            LET k == Place(old, i) IN
            /\ k \in 1..Len(A) /\ A[k] = SectionOf(ms, ms[i])
            /\ SectionOf(ms, ms[i]).key = ms[i].for
       /\ \A k \in 1..Len(A) :
            A[k].key \in CallIds /\ A[k].tok > 0 /\ \E i \in old : Place(old, i) = k
       /\ \A i \in 1..Len(ms) : ms[i].role = "tool" /\ i \notin Projection(ms) => i \in old
  BY <1>3, <1>8, <1>9, <1>11, <1>12
<1> QED BY <1>13, Zenon DEF old, A

(* Of the sections with a key that are not empty the registry keeps one,   *)
(* and none before which there is another.                                 *)
LEMMA KeyIsKept ==
  ASSUME NEW ss \in Seq(Sections), NEW i \in 1..Len(ss), ss[i].tok > 0
  PROVE  \E j \in Kept(ss) : j \in i..Len(ss) /\ ss[j].key = ss[i].key
<1> DEFINE same == {j \in 1..Len(ss) : ss[j].key = ss[i].key /\ ss[j].tok > 0}
<1>1. Len(ss) \in Nat /\ DOMAIN ss = 1..Len(ss) /\ \A j \in 1..Len(ss) : ss[j] \in Sections
  BY LenProperties, ElementOfSeq
<1>2. same \in SUBSET (0..Len(ss)) /\ i \in same
  BY <1>1
<1>3. PICK m : m = Max(same)
  OBVIOUS
<1>4. m \in same /\ \A j \in same : j <= m
  <2> HIDE DEF same
  <2> QED BY <1>1, <1>2, <1>3, HasGreatest
<1>5. m \in 1..Len(ss) /\ ss[m].key = ss[i].key /\ ss[m].tok > 0
  BY <1>4
<1>6. ASSUME NEW j \in (m + 1)..Len(ss), ss[j].key = ss[m].key
      PROVE  ss[j].tok = 0
  <2>1. j \in 1..Len(ss) /\ ~(j <= m)
    BY <1>1, <1>5
  <2>2. ~(ss[j].tok > 0)
    BY <1>4, <1>5, <1>6, <2>1
  <2>3. ss[j].tok \in Nat
    BY <1>1, <2>1 DEF Sections
  <2> QED BY <2>2, <2>3
<1>7. m \in Kept(ss)
  BY <1>1, <1>5, <1>6 DEF Kept
<1>8. m \in i..Len(ss)
  BY <1>1, <1>2, <1>4, <1>5
<1> QED BY <1>5, <1>7, <1>8

(* Compression cuts what is too long, and nothing else; of a failure it    *)
(* cuts nothing.                                                           *)
LEMMA CompressedIs ==
  ASSUME NEW section \in Sections, NEW available, NEW share, NEW c,
         c = Compressed(section, available, share)
  PROVE  /\ c.pri = section.pri /\ Says(c, section, SectionLimit(available))
         /\ section.kind = "verification" => c = section
<1>1. PICK l : l = SectionLimit(available)
  OBVIOUS
<1>2. PICK tok : tok = AtMost(section.tok, HeadTail(l, share))
  OBVIOUS
<1>3. c = IF section.kind \in {"tool", "file"} /\ section.tok > l
            THEN [section EXCEPT !.tok = tok]
            ELSE section
  BY <1>1, <1>2, Zenon DEF Compressed
<1>4. [section EXCEPT !.tok = tok].key = section.key /\ [section EXCEPT !.tok = tok].pri = section.pri
  BY DEF Sections
<1>5. CASE section.kind \in {"tool", "file"} /\ section.tok > l
  BY <1>1, <1>3, <1>4, <1>5 DEF Says
<1>6. CASE ~(section.kind \in {"tool", "file"} /\ section.tok > l)
  BY <1>1, <1>3, <1>6 DEF Says
<1> QED BY <1>5, <1>6

(* What the registry keeps of some sections, a build included.             *)
KeysIncluded(b, ss, longest) ==
  \A j \in Kept(ss) : \E s \in Range(b.included) : Says(s, ss[j], longest)

(* What a build shows are the first sections of the registry.              *)
ShowsFirst(b, R) ==
  /\ \E m \in Nat : DOMAIN Shown(b) = 1..m
  /\ \A k \in DOMAIN Shown(b) :
       /\ k \in 1..Len(R) /\ Shown(b)[k].pri = R[k].pri
       /\ R[k].kind = "verification" => Shown(b)[k] = R[k]

(* What a build makes of its inputs.                                       *)
LEMMA BuildIs ==
  ASSUME NEW l \in Nat, NEW secs \in Seq(Sections), NEW ms \in Seq(Message), Numbered(ms), Whole(ms),
         NEW sumShare \in Shares, NEW share \in Shares, NEW b, b = Build(l, secs, ms, sumShare, share)
  PROVE  /\ b.status \in {"built", "refused"}
         /\ \E start \in {1, ProtectedStart(Projected(ms))}, head \in {0, 1} :
              /\ Begun(Projected(ms), b.messages, start, head)
              /\ ~b.compacted => start = 1
         /\ ~b.compacted =>
              KeysIncluded(b, secs \o Archived(ms), SectionLimit(Available(l, b.messages)))
         /\ ShowsFirst(b, Registered(secs \o Archived(ms)))
<1>1. PICK p : p = Projected(ms)
  OBVIOUS
<1>2. p \in Seq(Message)
  BY <1>1, ProjectedWhole
<1>3. PICK overflow : overflow = FixedOverflow(l, p)
  OBVIOUS
<1>4. PICK budget : budget = AtLeast(0, TranscriptTokens(p) - overflow)
  OBVIOUS
<1>5. overflow \in Nat /\ budget \in Nat
  <2>1. overflow \in Nat
    BY <1>2, <1>3, BudgetIs
  <2>2. TranscriptTokens(p) \in Nat
    BY <1>2, TokensOf DEF TranscriptTokens
  <2> QED BY <1>4, <2>1, <2>2 DEF AtLeast
<1>6. PICK C : C = IF overflow > 0 THEN Compacted(p, budget, sumShare)
                                   ELSE [messages |-> p, summarized |-> 0]
  OBVIOUS
<1>7. \E start \in {1, ProtectedStart(p)}, head \in {0, 1} :
         Begun(p, C.messages, start, head) /\ C.summarized = start - 1
  <2>1. CASE overflow > 0
    BY <1>2, <1>5, <1>6, <2>1, CompactedIs
  <2>2. CASE ~(overflow > 0)
    <3>1. Begun(p, p, 1, 0)
      <4>1. Len(p) \in Nat
        BY <1>2, LenProperties
      <4> QED BY <1>2, <4>1 DEF Begun
    <3>2. C.messages = p /\ C.summarized = 0
      BY <1>6, <2>2
    <3> QED BY <3>1, <3>2
  <2> QED BY <2>1, <2>2
<1>8. PICK start \in {1, ProtectedStart(p)}, head \in {0, 1} :
         Begun(p, C.messages, start, head) /\ C.summarized = start - 1
  BY <1>7
<1>9. PICK available : available = Available(l, C.messages)
  OBVIOUS
<1>10. available \in Nat
  <2>1. C.messages \in Seq(Message)
    BY <1>8 DEF Begun
  <2> QED BY <1>9, <2>1, BudgetIs
<1>11. PICK all : all = secs \o Archived(ms)
  OBVIOUS
<1>12. all \in Seq(Sections)
  <2>1. Archived(ms) \in Seq(Sections)
    BY ArchivedIs
  <2> QED BY <1>11, <2>1, ConcatProperties
<1>13. PICK R : R = Registered(all)
  OBVIOUS
<1>14. R \in Seq(Sections) /\ Len(R) \in Nat /\ DOMAIN R = 1..Len(R)
       /\ \A j \in Kept(all) : \E k \in 1..Len(R) : R[k] = all[j]
  BY <1>12, <1>13, RegisteredIs, LenProperties
<1>15. PICK Z : Z = IF CompressionRequired(R, available)
                      THEN [i \in DOMAIN R |-> Compressed(R[i], available, share)]
                      ELSE R
  OBVIOUS
<1>16. /\ \E S : Z \in Seq(S)
       /\ Len(Z) = Len(R)
       /\ \A i \in 1..Len(R) : /\ Z[i].pri = R[i].pri /\ Says(Z[i], R[i], SectionLimit(available))
                               /\ R[i].kind = "verification" => Z[i] = R[i]
  <2>1. CASE CompressionRequired(R, available)
    <3>1. Z = [i \in 1..Len(R) |-> Compressed(R[i], available, share)]
      BY <1>14, <1>15, <2>1
    <3> DEFINE S == {Z[i] : i \in 1..Len(R)}
    <3>2. Z \in [1..Len(R) -> S]
      BY <3>1
    <3>3. Z \in Seq(S) /\ Len(Z) = Len(R)
      <4> HIDE DEF S
      <4> QED BY <1>14, <3>2, SequenceOf
    <3>4. \A i \in 1..Len(R) : R[i] \in Sections /\ Z[i] = Compressed(R[i], available, share)
      BY <1>14, <3>1, ElementOfSeq
    <3> HIDE DEF S
    <3>5. \A i \in 1..Len(R) : /\ Z[i].pri = R[i].pri /\ Says(Z[i], R[i], SectionLimit(available))
                               /\ R[i].kind = "verification" => Z[i] = R[i]
      BY <3>4, CompressedIs
    <3> QED BY <3>3, <3>5
  <2>2. CASE ~CompressionRequired(R, available)
    <3>1. Z = R
      BY <1>15, <2>2
    <3> QED BY <1>14, <3>1 DEF Says
  <2> QED BY <2>1, <2>2
<1>17. PICK t : t = Truncated(Z, available, share)
  OBVIOUS
<1>18. PICK total : total = RequestTokens(SystemPromptTokens(t.tokens), C.messages)
  OBVIOUS
<1>19. b = [status    |-> IF total > HardInputLimit(l) THEN "refused" ELSE "built",
            messages  |-> C.messages,
            included  |-> t.included,
            part      |-> t.part,
            dropped   |-> t.dropped,
            compacted |-> C.summarized > 0 \/ t.dropped # <<>>,
            total     |-> total]
  BY <1>1, <1>3, <1>4, <1>6, <1>9, <1>11, <1>13, <1>15, <1>17, <1>18, Zenon DEF Build
<1>20. /\ t.dropped = <<>> => t.included = Z
       /\ \E m \in Nat : DOMAIN Shown(t) = 1..m
       /\ \A k \in DOMAIN Shown(t) : k \in 1..Len(Z) /\ Shown(t)[k] = Z[k]
  <2>1. PICK S : Z \in Seq(S)
    BY <1>16
  <2>2. /\ Truncated(Z, available, share).dropped = <<>> => Truncated(Z, available, share).included = Z
        /\ \E m \in Nat : DOMAIN Shown(Truncated(Z, available, share)) = 1..m
        /\ \A k \in DOMAIN Shown(Truncated(Z, available, share)) :
             k \in 1..Len(Z) /\ Shown(Truncated(Z, available, share))[k] = Z[k]
    BY <1>10, <2>1, TruncatedShows
  <2> QED BY <1>17, <2>2, Zenon
<1> DEFINE status == IF total > HardInputLimit(l) THEN "refused" ELSE "built"
           compacted == C.summarized > 0 \/ t.dropped # <<>>
<1>22. /\ b.status = status /\ b.messages = C.messages /\ b.included = t.included
       /\ b.part = t.part /\ b.dropped = t.dropped /\ b.compacted = compacted
  <2>1. b = [status |-> status, messages |-> C.messages, included |-> t.included, part |-> t.part,
             dropped |-> t.dropped, compacted |-> compacted, total |-> total]
    BY <1>19
  <2> HIDE DEF status, compacted
  <2> QED BY <2>1
<1>21. Shown(b) = Shown(t)
  BY <1>22, Zenon DEF Shown
<1>28. b.status \in {"built", "refused"}
  BY <1>22
<1>23. ~b.compacted => ~(C.summarized > 0) /\ t.dropped = <<>>
  BY <1>22
<1> HIDE DEF status, compacted
<1>24. ~b.compacted => start = 1
  <2>1. start \in Nat /\ start >= 1
    <3>1. start \in 1..(Len(p) + 1) /\ Len(p) \in Nat
      BY <1>2, <1>8, LenProperties DEF Begun
    <3> QED BY <3>1
  <2> QED BY <1>8, <1>23, <2>1
<1>25. ASSUME ~b.compacted, NEW j \in Kept(all)
       PROVE  \E s \in Range(b.included) : Says(s, all[j], SectionLimit(available))
  <2>1. PICK k \in 1..Len(R) : R[k] = all[j]
    BY <1>14
  <2>2. b.included = Z
    BY <1>20, <1>22, <1>23, <1>25
  <2>3. Z[k] \in Range(Z)
    <3>1. PICK S : Z \in Seq(S)
      BY <1>16
    <3>2. k \in DOMAIN Z
      BY <1>16, <3>1, LenProperties
    <3> QED BY <3>2 DEF Range
  <2>4. Says(Z[k], all[j], SectionLimit(available))
    BY <1>16, <2>1
  <2> QED BY <2>2, <2>3, <2>4
<1>26. ShowsFirst(b, R)
  <2>1. \A k \in DOMAIN Shown(b) : k \in 1..Len(R) /\ Shown(b)[k] = Z[k]
    BY <1>16, <1>20, <1>21
  <2>2. \E m \in Nat : DOMAIN Shown(b) = 1..m
    BY <1>20, <1>21
  <2> QED BY <1>16, <2>1, <2>2 DEF ShowsFirst
<1>27. \E st \in {1, ProtectedStart(p)}, hd \in {0, 1} :
         Begun(p, b.messages, st, hd) /\ (~b.compacted => st = 1)
  BY <1>8, <1>22, <1>24
<1>29. ~b.compacted => KeysIncluded(b, all, SectionLimit(Available(l, b.messages)))
  <2>1. ~b.compacted => KeysIncluded(b, all, SectionLimit(available))
    BY <1>25 DEF KeysIncluded
  <2> QED BY <1>9, <1>22, <2>1
<1> QED BY <1>1, <1>11, <1>13, <1>28, <1>26, <1>27, <1>29

(***************************************************************************)
(* What a request holds.                                                   *)
(***************************************************************************)

(* The build left out no message the projection keeps, and of the results  *)
(* it does not keep the newest of each call is a section.                  *)
NothingLost(b, ms, longest) ==
  \A i \in 1..Len(ms) :
    /\ i \in Projection(ms) => ms[i] \in Range(b.messages)
    /\ ms[i].role = "tool" /\ i \notin Projection(ms) =>
         \E j \in i..Len(ms) :
           /\ ms[j].for = ms[i].for
           /\ \E s \in Range(b.included) : Says(s, SectionOf(ms, ms[j]), longest)

(* What a request holds of a transcript whose exchanges are whole: whole   *)
(* exchanges, the newest of them, what is plain since the last user        *)
(* message, and, unless it says otherwise, all of it.                      *)
LEMMA BuildKeeps ==
  ASSUME NEW l \in Nat, NEW secs \in Seq(Sections), NEW ms \in Seq(Message), Numbered(ms), Whole(ms),
         NEW sumShare \in Shares, NEW share \in Shares, NEW b, b = Build(l, secs, ms, sumShare, share)
  PROVE  /\ Whole(b.messages)
         /\ \A u \in 1..Len(ms) :
              ms[u].role = "user" /\ (\A v \in 1..Len(ms) : ms[v].role = "user" => v <= u) =>
                \A i \in u..Len(ms) : Plain(ms[i]) => ms[i] \in Range(b.messages)
         /\ \A k \in Latest(ms) : \A i \in ExchangeOf(ms, k) : ms[i] \in Range(b.messages)
         /\ ~b.compacted /\ (\A i \in 1..Len(secs) : secs[i].key \notin CallIds) =>
              NothingLost(b, ms, SectionLimit(Available(l, b.messages)))
<1> DEFINE kept == Projection(ms)
<1>1. PICK P : P = Projected(ms)
  OBVIOUS
<1>2. Len(ms) \in Nat /\ \A i \in 1..Len(ms) : ms[i] \in Message
  BY LenProperties, ElementOfSeq
<1>3. kept \in SUBSET (1..Len(ms))
  BY DEF Projection
<1>4. /\ P \in Seq(Message) /\ Len(P) \in Nat /\ Whole(P)
      /\ \A k \in kept : Place(kept, k) \in 1..Len(P) /\ P[Place(kept, k)] = ms[k]
      /\ \A p \in 1..Len(P) : \E i \in kept : Place(kept, i) = p /\ P[p] = ms[i]
      /\ \A p \in 1..Len(P) : P[p].calls # {} => \E k \in Latest(ms) : p = Place(kept, k)
  BY <1>1, ProjectedWhole
<1>5. PICK start \in {1, ProtectedStart(P)}, head \in {0, 1} :
         Begun(P, b.messages, start, head) /\ (~b.compacted => start = 1)
  BY <1>1, BuildIs
<1>6. PICK longest : longest = SectionLimit(Available(l, b.messages))
  OBVIOUS
<1>16. ~b.compacted => KeysIncluded(b, secs \o Archived(ms), longest)
  BY <1>6, BuildIs
<1>7. \A i, j \in Latest(ms) : i = j
  <2> SUFFICES ASSUME NEW i \in Latest(ms), NEW j \in Latest(ms) PROVE i = j
    OBVIOUS
  <2>1. i <= j /\ j <= i /\ i \in Exchanges(ms) /\ j \in Exchanges(ms)
    BY DEF Latest
  <2>2. i \in Nat /\ j \in Nat
    BY <2>1, ExchangeIs
  <2> QED BY <2>1, <2>2
<1>8. /\ ProtectedStart(P) \in 1..(Len(P) + 1)
      /\ \A u \in 1..Len(P) :
           P[u].role = "user" /\ (\A v \in 1..Len(P) : P[v].role = "user" => v <= u)
             => ProtectedStart(P) <= u
      /\ \A c \in 1..Len(P) :
           P[c].calls # {} /\ (\A d \in 1..Len(P) : P[d].calls # {} => d <= c)
             => ProtectedStart(P) <= c
  BY <1>4, ProtectedIs
<1> HIDE DEF kept
<1>9. ASSUME NEW c \in 1..Len(P), P[c].calls # {}
      PROVE  start <= c
  <2>1. \A d \in 1..Len(P) : P[d].calls # {} => d = c
    BY <1>4, <1>7, <1>9
  <2>2. \A d \in 1..Len(P) : P[d].calls # {} => d <= c
    BY <2>1
  <2>3. ProtectedStart(P) <= c
    BY <1>8, <1>9, <2>2
  <2> QED BY <1>4, <2>3
<1>10. Whole(b.messages)
  BY <1>4, <1>5, <1>9, BegunWhole
<1>11. ASSUME NEW i \in kept, start <= Place(kept, i)
       PROVE  ms[i] \in Range(b.messages)
  <2>1. PICK n \in 1..Len(P) : n = Place(kept, i) /\ P[n] = ms[i]
    BY <1>4
  <2> QED BY <1>4, <1>5, <1>11, <2>1, BegunKeeps
<1>12. ASSUME NEW k \in Latest(ms), NEW i \in ExchangeOf(ms, k)
       PROVE  ms[i] \in Range(b.messages)
  <2>1. /\ k \in 1..Len(ms) /\ ms[k].calls # {} /\ Cardinality(ms[k].calls) \in Nat
        /\ k + Cardinality(ms[k].calls) <= Len(ms)
        /\ ExchangeOf(ms, k) = k..(k + Cardinality(ms[k].calls))
    <3>1. k \in Exchanges(ms)
      BY DEF Latest
    <3> QED BY <3>1, ExchangeIs
  <2>2. i \in 1..Len(ms) /\ k <= i /\ k \in ExchangeOf(ms, k)
    BY <1>2, <2>1, <1>12
  <2>3. i \in kept /\ k \in kept
    BY <2>1, <2>2, <1>12 DEF kept, Projection
  <2>4. Place(kept, k) \in Nat /\ Place(kept, i) \in Nat /\ Place(kept, k) <= Place(kept, i)
    BY <1>2, <1>3, <2>2, <2>3, PlacesFollow
  <2>5. start <= Place(kept, k)
    BY <1>4, <1>9, <2>1, <2>3
  <2>6. start \in Nat
    BY <1>8
  <2>7. start <= Place(kept, i)
    BY <2>4, <2>5, <2>6
  <2> QED BY <1>11, <2>3, <2>7
<1>13. ASSUME NEW u \in 1..Len(ms), ms[u].role = "user",
              \A v \in 1..Len(ms) : ms[v].role = "user" => v <= u,
              NEW i \in u..Len(ms), Plain(ms[i])
       PROVE  ms[i] \in Range(b.messages)
  <2>1. i \in 1..Len(ms) /\ u <= i
    BY <1>2
  <2>2. Plain(ms[u])
    BY <1>2, <1>13 DEF Message, Plain
  <2>3. i \in kept /\ u \in kept
    BY <2>1, <2>2, <1>13 DEF kept, Projection
  <2>4. Place(kept, u) \in Nat /\ Place(kept, i) \in Nat /\ Place(kept, u) <= Place(kept, i)
    BY <1>2, <1>3, <2>1, <2>3, PlacesFollow
  <2>5. ASSUME NEW v \in 1..Len(P), P[v].role = "user"
        PROVE  v <= Place(kept, u)
    <3>1. PICK j \in kept : Place(kept, j) = v /\ P[v] = ms[j]
      BY <1>4
    <3>2. j \in 1..Len(ms) /\ j <= u
      BY <1>3, <1>13, <2>5, <3>1
    <3>3. Place(kept, j) <= Place(kept, u)
      BY <1>2, <1>3, <2>3, <3>2, PlacesFollow
    <3> QED BY <3>1, <3>3
  <2>6. Place(kept, u) \in 1..Len(P) /\ P[Place(kept, u)].role = "user"
    BY <1>4, <1>13, <2>3
  <2>7. ProtectedStart(P) <= Place(kept, u)
    BY <1>8, <2>5, <2>6
  <2>8. start \in Nat /\ start <= Place(kept, u)
    BY <1>8, <2>6, <2>7
  <2>9. start <= Place(kept, i)
    BY <2>4, <2>8
  <2> QED BY <1>11, <2>3, <2>9
<1>14. ASSUME ~b.compacted, \A i \in 1..Len(secs) : secs[i].key \notin CallIds,
              NEW i \in 1..Len(ms)
       PROVE  /\ i \in kept => ms[i] \in Range(b.messages)
              /\ ms[i].role = "tool" /\ i \notin kept =>
                   \E j \in i..Len(ms) :
                     /\ ms[j].for = ms[i].for
                     /\ \E s \in Range(b.included) : Says(s, SectionOf(ms, ms[j]), longest)
  <2>1. ASSUME i \in kept PROVE ms[i] \in Range(b.messages)
    <3>1. start <= Place(kept, i)
      BY <1>4, <1>5, <1>14, <2>1
    <3> QED BY <1>11, <2>1, <3>1
  <2>2. ASSUME ms[i].role = "tool", i \notin kept
        PROVE  \E j \in i..Len(ms) :
                 /\ ms[j].for = ms[i].for
                 /\ \E s \in Range(b.included) : Says(s, SectionOf(ms, ms[j]), longest)
    <3>1. PICK A : A = Archived(ms)
      OBVIOUS
    <3>2. PICK old : old = OldResults(ms)
      OBVIOUS
    <3>3. /\ A \in Seq(Sections) /\ old \in SUBSET (1..Len(ms)) /\ i \in old
          /\ \A j \in old : /\ Place(old, j) \in 1..Len(A) /\ A[Place(old, j)] = SectionOf(ms, ms[j])
                            /\ SectionOf(ms, ms[j]).key = ms[j].for
          /\ \A k \in 1..Len(A) :
               A[k].key \in CallIds /\ A[k].tok > 0 /\ \E j \in old : Place(old, j) = k
      BY <2>2, <3>1, <3>2, ArchivedIs DEF kept
    <3>4. PICK k \in 1..Len(A) : k = Place(old, i) /\ A[k].key = ms[i].for
      BY <3>3
    <3>5. PICK all : all = secs \o A
      OBVIOUS
    <3>6. /\ all \in Seq(Sections) /\ Len(secs) \in Nat /\ Len(A) \in Nat /\ Len(all) = Len(secs) + Len(A)
          /\ \A m \in 1..(Len(secs) + Len(A)) :
               all[m] = IF m <= Len(secs) THEN secs[m] ELSE A[m - Len(secs)]
      BY <3>3, <3>5, ConcatProperties, LenProperties
    <3>7. \A m \in 1..Len(A) : all[Len(secs) + m] = A[m]
      BY <3>6
    <3>8. PICK n \in 1..Len(all) : n = Len(secs) + k
      BY <3>6
    <3>9. all[n].tok > 0 /\ all[n].key = ms[i].for /\ all[n].key \in CallIds
      BY <3>3, <3>4, <3>7, <3>8
    <3>10. PICK m \in Kept(all) : m \in n..Len(all) /\ all[m].key = all[n].key
      BY <3>6, <3>9, KeyIsKept
    <3>11. PICK later \in 1..Len(A) : later = m - Len(secs) /\ all[m] = A[later] /\ later >= k
      <4>1. m - Len(secs) \in 1..Len(A) /\ m - Len(secs) >= k /\ Len(secs) + (m - Len(secs)) = m
        BY <3>6, <3>8, <3>10
      <4> QED BY <3>7, <4>1
    <3>12. PICK j \in old : Place(old, j) = later
      BY <3>3
    <3>13. PICK j2 \in old : Place(old, j2) = later /\ j2 >= i
      <4>1. CASE later = k
        BY <1>2, <3>3, <3>4, <4>1
      <4>2. CASE later > k
        <5>1. ASSUME ~(j >= i) PROVE FALSE
          <6>1. j <= i /\ i \in old /\ j \in old
            BY <1>2, <3>3, <5>1
          <6>2. Place(old, j) <= Place(old, i)
            BY <1>2, <3>3, <6>1, PlacesFollow
          <6> QED BY <3>4, <3>11, <3>12, <4>2, <6>2
        <5> QED BY <3>12, <5>1
      <4> QED BY <3>11, <4>1, <4>2
    <3>14. all[m] = SectionOf(ms, ms[j2]) /\ SectionOf(ms, ms[j2]).key = ms[j2].for
      BY <3>3, <3>11, <3>13
    <3>15. \E s \in Range(b.included) : Says(s, all[m], longest)
      BY <1>14, <1>16, <3>1, <3>5, <3>10, Zenon DEF KeysIncluded
    <3>16. j2 \in i..Len(ms) /\ ms[j2].for = ms[i].for
      BY <1>2, <3>3, <3>9, <3>10, <3>13, <3>14
    <3> QED BY <3>14, <3>15, <3>16
  <2> QED BY <2>1, <2>2
<1>15. ~b.compacted /\ (\A i \in 1..Len(secs) : secs[i].key \notin CallIds) =>
         NothingLost(b, ms, longest)
  BY <1>14 DEF NothingLost, kept
<1> QED BY <1>6, <1>10, <1>12, <1>13, <1>15

(* A failure that nothing replaces is shown before what is less urgent.    *)
LEMMA FailureFirst ==
  ASSUME NEW l \in Nat, NEW secs \in Seq(Sections), NEW ms \in Seq(Message), Numbered(ms), Whole(ms),
         NEW sumShare \in Shares, NEW share \in Shares,
         NEW failure \in Sections, failure.tok > 0, failure.key = "failure",
         failure.kind = "verification",
         NEW b, b = Build(l, secs \o <<failure>>, ms, sumShare, share),
         NEW k \in DOMAIN Shown(b), Shown(b)[k].pri < failure.pri
  PROVE  \E j \in 1..k - 1 : Shown(b)[j] = failure
<1>1. PICK A : A = Archived(ms)
  OBVIOUS
<1>2. /\ A \in Seq(Sections)
      /\ \A i \in 1..Len(A) : A[i].key \in CallIds
  BY <1>1, ArchivedIs
<1>3. PICK S : S = secs \o <<failure>>
  OBVIOUS
<1>4. PICK all : all = S \o A
  OBVIOUS
<1>5. PICK n \in Nat : n = Len(secs)
  BY LenProperties
<1>6. /\ S \in Seq(Sections) /\ Len(S) = n + 1
      /\ \A m \in 1..n : S[m] = secs[m]
      /\ S[n + 1] = failure
  <2>1. S = Append(secs, failure)
    BY <1>3
  <2> QED BY <1>5, <2>1, AppendProperties
<1>7. /\ Len(A) \in Nat /\ all \in Seq(Sections) /\ Len(all) = n + 1 + Len(A)
      /\ \A m \in 1..(n + 1) : all[m] = S[m]
      /\ \A m \in (n + 2)..(n + 1 + Len(A)) : all[m] = A[m - (n + 1)]
  <2>1. /\ Len(S) \in Nat /\ Len(A) \in Nat /\ all \in Seq(Sections) /\ Len(all) = Len(S) + Len(A)
        /\ \A m \in 1..(Len(S) + Len(A)) : all[m] = IF m <= Len(S) THEN S[m] ELSE A[m - Len(S)]
    <3>1. Len(S) \in Nat /\ Len(A) \in Nat
      BY <1>2, <1>6, LenProperties
    <3>2. /\ S \o A \in Seq(Sections) /\ Len(S \o A) = Len(S) + Len(A)
          /\ \A m \in 1..(Len(S) + Len(A)) :
               (S \o A)[m] = IF m <= Len(S) THEN S[m] ELSE A[m - Len(S)]
      <4>1. S \in Seq(Sections) /\ A \in Seq(Sections)
        BY <1>2, <1>6
      <4> QED BY <4>1, ConcatProperties
    <3> QED BY <1>2, <1>4, <1>6, <3>1, <3>2
  <2> QED BY <1>6, <2>1
<1>8. n + 1 \in 1..Len(all) /\ all[n + 1] = failure
  BY <1>6, <1>7
<1>9. \A m \in (n + 2)..Len(all) : all[m].key \in CallIds
  <2> SUFFICES ASSUME NEW m \in (n + 2)..Len(all) PROVE all[m].key \in CallIds
    OBVIOUS
  <2>1. PICK i \in 1..Len(A) : i = m - (n + 1)
    BY <1>7
  <2>2. all[m] = A[i]
    BY <1>7, <2>1
  <2> QED BY <1>2, <2>2
<1>10. DOMAIN all = 1..Len(all)
  BY <1>7, LenProperties
<1>11. n + 1 \in Kept(all)
  <2>1. \A m \in (n + 1 + 1)..Len(all) : all[m].key # all[n + 1].key
    BY <1>8, <1>9, CallsAssumption
  <2> QED BY <1>8, <1>10, <2>1 DEF Kept
<1>12. PICK R : R = Registered(all)
  OBVIOUS
<1>13. /\ R \in Seq(Sections) /\ Len(R) \in Nat
       /\ \A i \in Kept(all) : \E f \in 1..Len(R) : R[f] = all[i]
       /\ \A i, j \in 1..Len(R) : i < j => R[i].pri >= R[j].pri
  BY <1>7, <1>12, RegisteredIs
<1>14. PICK f \in 1..Len(R) : R[f] = failure
  BY <1>8, <1>11, <1>13
<1>15. ShowsFirst(b, R)
  <2>1. b = Build(l, S, ms, sumShare, share)
    BY <1>3
  <2> QED BY <1>1, <1>4, <1>6, <1>12, <2>1, BuildIs
<1>16. k \in 1..Len(R) /\ R[k].pri < R[f].pri
  BY <1>14, <1>15 DEF ShowsFirst
<1>17. f \in 1..k - 1
  <2>1. R[k].pri \in Int /\ R[f].pri \in Int
    <3>1. R[k] \in Sections /\ R[f] \in Sections
      BY <1>13, <1>14, <1>16, ElementOfSeq
    <3> QED BY <3>1 DEF Sections
  <2>2. ~(k < f) /\ k # f
    BY <1>13, <1>16, <2>1
  <2> QED BY <1>13, <1>16, <2>2
<1>18. f \in DOMAIN Shown(b)
  <2>1. \E m \in Nat : DOMAIN Shown(b) = 1..m
    BY <1>15 DEF ShowsFirst
  <2> QED BY <1>16, <1>17, <2>1
<1> QED BY <1>14, <1>15, <1>17, <1>18 DEF ShowsFirst

(***************************************************************************)
(* The transcript.                                                         *)
(***************************************************************************)

(* A list of one.                                                          *)
LEMMA OneIs ==
  ASSUME NEW S, NEW x \in S
  PROVE  <<x>> \in Seq(S) /\ Len(<<x>>) = 1 /\ <<x>>[1] = x
<1>1. <<x>> \in [1..1 -> S] /\ 1 \in Nat
  OBVIOUS
<1>2. <<x>> \in Seq(S) /\ Len(<<x>>) = 1
  BY <1>1, SequenceOf
<1> QED BY <1>2

(* What the transcript is built from are messages.                         *)
LEMMA MessagesAre ==
  /\ User(PromptTok) \in Message /\ User(PromptTok).role = "user" /\ Plain(User(PromptTok))
  /\ \A calls \in SUBSET CallIds, tok \in AnswerToks :
       /\ Assistant(calls, tok) \in Message /\ Assistant(calls, tok).role = "assistant"
       /\ Assistant(calls, tok).calls = calls
  /\ \A call \in CallIds, tok \in ResultToks :
       /\ ToolResult(call, tok) \in Message /\ ToolResult(call, tok).role = "tool"
       /\ ToolResult(call, tok).for = call /\ ToolResult(call, tok).calls = {}
<1>1. PromptTok \in Nat \ {0} /\ AnswerToks \subseteq Nat \ {0} /\ ResultToks \subseteq Nat \ {0}
  BY TextsAssumption
<1>2. User(PromptTok) \in Message /\ User(PromptTok).role = "user" /\ Plain(User(PromptTok))
  BY <1>1 DEF User, Message, Plain
<1>3. ASSUME NEW calls \in SUBSET CallIds, NEW tok \in AnswerToks
      PROVE  /\ Assistant(calls, tok) \in Message /\ Assistant(calls, tok).role = "assistant"
             /\ Assistant(calls, tok).calls = calls
  BY <1>1 DEF Assistant, Message
<1>4. ASSUME NEW call \in CallIds, NEW tok \in ResultToks
      PROVE  /\ ToolResult(call, tok) \in Message /\ ToolResult(call, tok).role = "tool"
             /\ ToolResult(call, tok).for = call /\ ToolResult(call, tok).calls = {}
  BY <1>1 DEF ToolResult, Message
<1> QED BY <1>2, <1>3, <1>4

(* The messages of two lists agree in all that makes exchanges.            *)
Agree(m, n) == m.role = n.role /\ m.calls = n.calls /\ m.for = n.for

(* What is pushed goes behind what is there, each with its place.          *)
LEMMA PushedIs ==
  ASSUME NEW ms \in Seq(Message), NEW more \in Seq(Message)
  PROVE  /\ Pushed(ms, more) \in Seq(Message)
         /\ Len(ms) \in Nat /\ Len(more) \in Nat /\ Len(Pushed(ms, more)) = Len(ms) + Len(more)
         /\ \A i \in 1..Len(ms) : Pushed(ms, more)[i] = ms[i]
         /\ \A i \in 1..Len(more) : Agree(Pushed(ms, more)[Len(ms) + i], more[i])
         /\ Numbered(ms) => Numbered(Pushed(ms, more))
<1>1. PICK n \in Nat : n = Len(ms)
  BY LenProperties
<1>2. PICK k \in Nat : k = Len(more)
  BY LenProperties
<1>3. DOMAIN more = 1..k /\ \A i \in 1..k : more[i] \in Message
  BY <1>2, LenProperties, ElementOfSeq
<1> DEFINE new == [i \in 1..k |-> [more[i] EXCEPT !.id = n + i]]
<1>4. \A i \in 1..k : /\ new[i] \in Message /\ new[i].id = n + i /\ Agree(new[i], more[i])
  <2> SUFFICES ASSUME NEW i \in 1..k
               PROVE  new[i] \in Message /\ new[i].id = n + i /\ Agree(new[i], more[i])
    OBVIOUS
  <2>1. new[i] = [more[i] EXCEPT !.id = n + i] /\ n + i \in Nat /\ more[i] \in Message
    BY <1>3
  <2> HIDE DEF new
  <2> QED BY <2>1 DEF Message, Agree
<1>5. new \in Seq(Message) /\ Len(new) = k
  <2>1. new \in [1..k -> Message]
    BY <1>4
  <2> HIDE DEF new
  <2> QED BY <2>1, SequenceOf
<1>6. Pushed(ms, more) = ms \o new
  BY <1>1, <1>3 DEF Pushed
<1> HIDE DEF new
<1>7. PICK t : t = ms \o new
  OBVIOUS
<1>8. /\ t \in Seq(Message) /\ Len(t) = n + k
      /\ \A i \in 1..(n + k) : t[i] = IF i <= n THEN ms[i] ELSE new[i - n]
  BY <1>1, <1>5, <1>7, ConcatProperties
<1>9. \A i \in 1..n : t[i] = ms[i]
  BY <1>8
<1>10. \A i \in 1..k : t[n + i] = new[i]
  <2> SUFFICES ASSUME NEW i \in 1..k PROVE t[n + i] = new[i]
    OBVIOUS
  <2>1. n + i \in 1..(n + k) /\ ~(n + i <= n) /\ n + i - n = i
    OBVIOUS
  <2> QED BY <1>8, <2>1
<1>11. ASSUME Numbered(ms) PROVE Numbered(t)
  <2> SUFFICES ASSUME NEW i \in 1..(n + k) PROVE t[i].id = i
    BY <1>8 DEF Numbered
  <2>1. CASE i <= n
    BY <1>1, <1>9, <1>11, <2>1 DEF Numbered
  <2>2. CASE ~(i <= n)
    <3>1. PICK j \in 1..k : i = n + j
      <4>1. i - n \in 1..k /\ i = n + (i - n)
        BY <2>2
      <4> QED BY <4>1
    <3> QED BY <1>4, <1>10, <3>1
  <2> QED BY <2>1, <2>2
<1> QED BY <1>1, <1>2, <1>4, <1>6, <1>7, <1>8, <1>9, <1>10, <1>11

(* A list stays whole when plain messages or one exchange follow it.       *)
LEMMA WholeExtends ==
  ASSUME NEW ms \in Seq(Message), Whole(ms), NEW t \in Seq(Message), Len(ms) <= Len(t),
         \A i \in 1..Len(ms) : Agree(t[i], ms[i]),
         \/ \A i \in (Len(ms) + 1)..Len(t) : Plain(t[i])
         \/ /\ Len(ms) < Len(t) /\ Complete(t, Len(ms) + 1)
            /\ Len(t) = Len(ms) + 1 + Cardinality(t[Len(ms) + 1].calls)
  PROVE  Whole(t)
<1>1. Len(ms) \in Nat /\ DOMAIN ms = 1..Len(ms) /\ \A i \in 1..Len(ms) : ms[i] \in Message
  BY LenProperties, ElementOfSeq
<1>2. Len(t) \in Nat /\ DOMAIN t = 1..Len(t) /\ \A i \in 1..Len(t) : t[i] \in Message
  BY LenProperties, ElementOfSeq
<1>3. \A i \in 1..Len(ms) :
         i \in 1..Len(t) /\ t[i].role = ms[i].role /\ t[i].calls = ms[i].calls /\ t[i].for = ms[i].for
  BY <1>1, <1>2 DEF Agree
<1>4. ASSUME NEW k \in Exchanges(ms)
      PROVE  k \in Exchanges(t) /\ ExchangeOf(t, k) = ExchangeOf(ms, k)
  <2>1. /\ k \in 1..Len(ms) /\ ms[k].calls # {} /\ Cardinality(ms[k].calls) \in Nat
        /\ k + Cardinality(ms[k].calls) <= Len(ms)
        /\ \A j \in (k + 1)..(k + Cardinality(ms[k].calls)) :
             ms[j].role = "tool" /\ ms[j].for \in ms[k].calls
    BY ExchangeIs
  <2>2. PICK c \in Nat : c = Cardinality(ms[k].calls)
    BY <2>1
  <2>3. t[k].calls = ms[k].calls /\ k \in 1..Len(t)
    BY <1>3, <2>1
  <2>4. \A j \in (k + 1)..(k + c) : t[j].role = "tool" /\ t[j].for \in t[k].calls
    <3> SUFFICES ASSUME NEW j \in (k + 1)..(k + c)
                 PROVE  t[j].role = "tool" /\ t[j].for \in t[k].calls
      OBVIOUS
    <3>1. j \in 1..Len(ms)
      BY <1>1, <2>1, <2>2
    <3> QED BY <1>3, <2>1, <2>2, <2>3, <3>1
  <2>5. k + c <= Len(t)
    BY <1>1, <1>2, <2>1, <2>2
  <2>6. Complete(t, k)
    BY <2>1, <2>2, <2>3, <2>4, <2>5 DEF Complete
  <2> QED BY <1>2, <2>3, <2>6 DEF Exchanges, ExchangeOf
<1>5. ASSUME NEW i \in 1..Len(ms)
      PROVE  /\ t[i].calls # {} => Complete(t, i)
             /\ t[i].role = "tool" => \E k \in Exchanges(t) : i \in ExchangeOf(t, k)
  <2>1. /\ ms[i].calls # {} => i \in Exchanges(ms)
        /\ ms[i].role = "tool" => \E k \in Exchanges(ms) : i \in ExchangeOf(ms, k)
    BY <1>1 DEF Whole, Exchanges
  <2>2. ASSUME ms[i].calls # {} PROVE Complete(t, i)
    BY <1>4, <2>1, <2>2 DEF Exchanges
  <2>3. ASSUME ms[i].role = "tool" PROVE \E k \in Exchanges(t) : i \in ExchangeOf(t, k)
    <3>1. PICK k \in Exchanges(ms) : i \in ExchangeOf(ms, k)
      BY <2>1, <2>3
    <3> QED BY <1>4, <3>1
  <2> QED BY <1>3, <2>2, <2>3
<1>6. ASSUME NEW i \in (Len(ms) + 1)..Len(t)
      PROVE  /\ t[i].calls # {} => Complete(t, i)
             /\ t[i].role = "tool" => \E k \in Exchanges(t) : i \in ExchangeOf(t, k)
  <2>1. CASE \A j \in (Len(ms) + 1)..Len(t) : Plain(t[j])
    BY <2>1 DEF Plain
  <2>2. CASE /\ Len(ms) < Len(t) /\ Complete(t, Len(ms) + 1)
             /\ Len(t) = Len(ms) + 1 + Cardinality(t[Len(ms) + 1].calls)
    <3>1. PICK a \in 1..Len(t) : a = Len(ms) + 1
      BY <1>1, <1>2, <2>2
    <3>2. a \in Exchanges(t)
      BY <1>2, <2>2, <3>1 DEF Exchanges
    <3>3. i \in ExchangeOf(t, a)
      BY <1>1, <1>2, <2>2, <3>1 DEF ExchangeOf
    <3>4. ASSUME t[i].calls # {} PROVE i = a
      <4>1. t[i].role = "assistant"
        <5>1. t[i] \in Message
          BY <1>1, <1>2
        <5> QED BY <3>4, <5>1 DEF Message
      <4>2. /\ ExchangeOf(t, a) = a..(a + Cardinality(t[a].calls))
            /\ \A j \in (a + 1)..(a + Cardinality(t[a].calls)) : t[j].role = "tool"
            /\ Cardinality(t[a].calls) \in Nat
        BY <3>2, ExchangeIs
      <4>3. i \in a..(a + Cardinality(t[a].calls))
        BY <3>3, <4>2
      <4>4. i \notin (a + 1)..(a + Cardinality(t[a].calls))
        BY <4>1, <4>2
      <4> QED BY <4>2, <4>3, <4>4
    <3> QED BY <2>2, <3>1, <3>2, <3>3, <3>4
  <2> QED BY <2>1, <2>2
<1>7. \A i \in 1..Len(t) : i \in 1..Len(ms) \/ i \in (Len(ms) + 1)..Len(t)
  BY <1>1, <1>2
<1> QED BY <1>2, <1>5, <1>6, <1>7 DEF Whole

(***************************************************************************)
(* The inductive invariant.                                                *)
(***************************************************************************)

(***************************************************************************)
(* The invariant.  Outside of an unfinished exchange the transcript is     *)
(* whole; within one it is whole but for its last message, whose calls the *)
(* tools execute; and while the model is asked, the request is the build   *)
(* of just what the run holds.                                             *)
(***************************************************************************)
AllSections == sections \o IF stage = "repair" THEN <<VerificationFailure>> ELSE <<>>

Settled ==
  /\ transcript \in Seq(Message) /\ Numbered(transcript)
  /\ sections \in Seq(Sections) /\ \A i \in 1..Len(sections) : sections[i].key = NoKey
  /\ at # "collecting" => \E i \in 1..Len(transcript) : transcript[i].role = "user"

Answered ==
  /\ at # "executing" => Whole(transcript)
  /\ at = "executing" =>
       /\ Len(transcript) > 0 /\ transcript[Len(transcript)].calls # {}
       /\ Whole(SubSeq(transcript, 1, Len(transcript) - 1))

Fresh ==
  at = "asking" =>
    \E sumShare \in Shares, share \in Shares :
      request = Build(limit, AllSections, transcript, sumShare, share)

BuildInv == TypeOK /\ Settled /\ Answered /\ Fresh /\ ExchangesStayWhole

(* A list of messages has messages at its places.                          *)
LEMMA Settles ==
  ASSUME NEW ms, ms \in Seq(Message)
  PROVE  /\ DOMAIN ms = 1..Len(ms) /\ Len(ms) \in Nat
         /\ \A i \in 1..Len(ms) : ms[i] \in Message /\ ms[i].tok \in Nat
<1>1. DOMAIN ms = 1..Len(ms) /\ Len(ms) \in Nat /\ \A i \in 1..Len(ms) : ms[i] \in Message
  BY LenProperties, ElementOfSeq
<1> QED BY <1>1 DEF Message

(* A transcript that is settled and numbered has its type.                 *)
Typed == \A i \in DOMAIN transcript : transcript[i].id = i /\ transcript[i].tok \in Nat

(* A transcript that is settled and numbered has its type.                 *)
LEMMA TypedIs ==
  ASSUME Settled
  PROVE  Typed
BY Settles DEF Settled, Numbered, Typed

(* A run begins with an empty transcript.                                  *)
LEMMA InitEstablishes == Init => BuildInv
<1> SUFFICES ASSUME Init PROVE BuildInv
  OBVIOUS
<1>1. \A S : <<>> \in Seq(S)
  BY EmptySeq
<1>2. <<>> \in Seq(Message) /\ <<>> \in Seq(Sections) /\ Len(<<>>) = 0
  BY EmptySeq
<1>3. DOMAIN <<>> = 1..0
  BY <1>2, LenProperties
<1>4. Whole(<<>>)
  BY <1>3 DEF Whole
<1>5. Settled
  BY <1>2 DEF Init, Settled, Numbered
<1>6. TypeOK
  <2>1. Typed
    BY <1>5, TypedIs
  <2>2. 0 \in 0..MaxTurns
    BY TurnsAssumption
  <2> QED BY <2>1, <2>2 DEF Init, TypeOK, Typed, NoRequest
<1>7. Answered /\ Fresh /\ ExchangesStayWhole
  BY <1>4 DEF Init, Answered, Fresh, ExchangesStayWhole, NoRequest
<1> QED BY <1>5, <1>6, <1>7 DEF BuildInv

(* A race that ends changes nothing else.                                  *)
LEMMA ProviderSettlesKeeps ==
  ASSUME BuildInv, NEW i \in Indexes, ProviderSettles(i) \/ ProviderTimesOut(i)
  PROVE  BuildInv'
<1>1. UNCHANGED <<limit, sections, transcript, at, stage, turn, request>>
  BY DEF ProviderSettles, ProviderTimesOut
<1>2. race' \in [Indexes -> {"running", "value", "undefined", "error", "timeout", "collected"}]
  BY DEF ProviderSettles, ProviderTimesOut, BuildInv, TypeOK
<1>3. TypeOK'
  BY <1>1, <1>2 DEF BuildInv, TypeOK
<1>4. Settled' /\ Answered' /\ ExchangesStayWhole'
  BY <1>1 DEF BuildInv, Settled, Answered, ExchangesStayWhole
<1>5. Fresh'
  BY <1>1 DEF BuildInv, Fresh, AllSections
<1> QED BY <1>3, <1>4, <1>5 DEF BuildInv

(* What the collector makes is sections without a key, whatever the        *)
(* priorities given.                                                       *)
LEMMA CollectedIs ==
  ASSUME NEW user \in Priorities \cup {80}, NEW n \in Nat,
         NEW provided \in [1..n -> Priorities \cup {50}]
  PROVE  /\ Collected(user, provided) \in Seq(Sections)
         /\ \A i \in 1..Len(Collected(user, provided)) : Collected(user, provided)[i].key = NoKey
<1> DEFINE S == {s \in Sections : s.key = NoKey}
           first == Section("user", user, NoKey, UserTok)
           second == Section("workspace", 100, NoKey, WorkspaceTok)
           others == [k \in 1..n |-> Section("provider", provided[k], NoKey, ProvidedTok)]
<1>1. Priorities \subseteq Int /\ {WorkspaceTok, UserTok, ProvidedTok} \subseteq Nat
  BY PrioritiesAssumption, TextsAssumption
<1>2. first \in S /\ second \in S
  BY <1>1 DEF Section, Sections
<1>3. ASSUME NEW k \in 1..n PROVE others[k] \in S
  <2>1. provided[k] \in Priorities \cup {50}
    OBVIOUS
  <2>2. provided[k] \in Int
    <3>1. PICK p : p = provided[k]
      OBVIOUS
    <3>2. p \in Priorities \/ p = 50
      BY <2>1, <3>1
    <3>3. p \in Priorities => p \in Int
      BY <1>1, Zenon
    <3>4. p = 50 => p \in Int
      OBVIOUS
    <3> QED BY <3>1, <3>2, <3>3, <3>4, Zenon
  <2>3. others[k] = Section("provider", provided[k], NoKey, ProvidedTok)
    OBVIOUS
  <2> HIDE DEF others
  <2> QED BY <1>1, <2>2, <2>3 DEF Section, Sections
<1>4. others \in Seq(S)
  <2>1. others \in [1..n -> S]
    BY <1>3
  <2> HIDE DEF others, S
  <2> QED BY <2>1, SequenceOf
<1>5. <<first, second>> \in Seq(S)
  <2> HIDE DEF first, second, S
  <2>1. PICK two : two = [i \in 1..2 |-> IF i = 1 THEN first ELSE second]
    OBVIOUS
  <2>2. two \in [1..2 -> S] /\ 2 \in Nat
    BY <1>2, <2>1
  <2>3. two \in Seq(S)
    BY <2>2, SequenceOf
  <2>4. two = <<first, second>>
    BY <2>1
  <2> QED BY <2>3, <2>4
<1>6. PICK c : c = Collected(user, provided)
  OBVIOUS
<1>7. c = <<first, second>> \o others
  BY <1>6 DEF Collected
<1>8. c \in Seq(S)
  <2> HIDE DEF first, second, others, S
  <2> QED BY <1>4, <1>5, <1>7, ConcatProperties
<1>9. Len(c) \in Nat /\ c \in [1..Len(c) -> S] /\ \A i \in 1..Len(c) : c[i] \in S
  <2> HIDE DEF S
  <2> QED BY <1>8, LenProperties, ElementOfSeq
<1>10. c \in Seq(Sections)
  <2>1. c \in [1..Len(c) -> Sections]
    <3> HIDE DEF first, second, others
    <3> QED BY <1>9
  <2> QED BY <1>9, <2>1, SequenceOf
<1> QED BY <1>6, <1>9, <1>10

(* The transcript a run begins with is a whole history and its task.       *)
LEMMA PrepareKeeps ==
  ASSUME BuildInv, Prepare
  PROVE  BuildInv'
<1>1. PICK history \in Histories : transcript' = Pushed(Pushed(<<>>, history), <<User(PromptTok)>>)
  BY DEF Prepare
<1>2. history \in Seq(Message) /\ Whole(history)
  BY HistoriesAssumption
<1>3. PICK old : old = Pushed(<<>>, history)
  OBVIOUS
<1>4. <<>> \in Seq(Message) /\ Len(<<>>) = 0 /\ Numbered(<<>>)
  BY EmptySeq DEF Numbered
<1>5. /\ old \in Seq(Message) /\ Len(history) \in Nat /\ Len(old) = Len(history)
      /\ \A i \in 1..Len(history) : Agree(old[i], history[i])
      /\ Numbered(old)
  <2>1. /\ old \in Seq(Message)
        /\ Len(history) \in Nat /\ Len(old) = Len(<<>>) + Len(history)
        /\ \A i \in 1..Len(history) : Agree(old[Len(<<>>) + i], history[i])
        /\ Numbered(<<>>) => Numbered(old)
    BY <1>2, <1>3, <1>4, PushedIs
  <2>2. \A i \in 1..Len(history) : Len(<<>>) + i = i
    BY <1>4
  <2> QED BY <1>4, <2>1, <2>2
<1>6. Whole(old)
  <2>1. \A i \in (Len(history) + 1)..Len(old) : Plain(old[i])
    BY <1>5
  <2>2. Len(history) <= Len(old)
    BY <1>5
  <2> QED BY <1>2, <1>5, <2>1, <2>2, WholeExtends
<1>7. PICK one : one = <<User(PromptTok)>>
  OBVIOUS
<1>8. one \in Seq(Message) /\ Len(one) = 1 /\ one[1] = User(PromptTok)
  BY <1>7, MessagesAre, OneIs
<1>9. PICK n \in Nat : n = Len(old)
  BY <1>5
<1>10. /\ transcript' \in Seq(Message) /\ Len(transcript') = n + 1
       /\ \A i \in 1..n : transcript'[i] = old[i]
       /\ Agree(transcript'[n + 1], User(PromptTok))
       /\ Numbered(transcript')
  <2>1. transcript' = Pushed(old, one)
    BY <1>1, <1>3, <1>7
  <2>2. /\ Pushed(old, one) \in Seq(Message) /\ Len(Pushed(old, one)) = n + 1
        /\ \A i \in 1..n : Pushed(old, one)[i] = old[i]
        /\ \A i \in 1..1 : Agree(Pushed(old, one)[n + i], one[i])
        /\ Numbered(old) => Numbered(Pushed(old, one))
    BY <1>5, <1>8, <1>9, PushedIs
  <2> QED BY <1>5, <1>8, <2>1, <2>2
<1>11. transcript'[n + 1].role = "user" /\ Plain(transcript'[n + 1])
  BY <1>10, MessagesAre DEF Agree, Plain
<1>12. Whole(transcript')
  <2>1. \A i \in 1..Len(old) : Agree(transcript'[i], old[i])
    BY <1>9, <1>10 DEF Agree
  <2>2. \A i \in (Len(old) + 1)..Len(transcript') : Plain(transcript'[i])
    BY <1>9, <1>10, <1>11
  <2>3. Len(old) <= Len(transcript')
    BY <1>9, <1>10
  <2> QED BY <1>5, <1>6, <1>10, <2>1, <2>2, <2>3, WholeExtends
<1>13. n + 1 \in 1..Len(transcript')
  BY <1>10
<1>14. sections' \in Seq(Sections) /\ \A i \in 1..Len(sections') : sections'[i].key = NoKey
  <2>1. PICK user \in Priorities \cup {80},
             provided \in [1..Cardinality(Given) -> Priorities \cup {50}] :
           sections' = Collected(user, provided)
    BY DEF Prepare
  <2>2. Cardinality(Given) \in Nat
    <3>1. Len(Providers) \in Nat /\ Indexes = 1..Len(Providers)
      BY ProvidersAssumption, LenProperties DEF Indexes
    <3>2. 1 \in Int /\ Len(Providers) \in Int
      BY <3>1
    <3>3. IsFiniteSet(Indexes)
      BY <3>1, <3>2, FS_Interval
    <3>4. Given \subseteq Indexes
      BY DEF Given
    <3> QED BY <3>3, <3>4, FS_Subset, FS_CardinalityType
  <2> QED BY <2>1, <2>2, CollectedIs
<1>15. /\ at' = "looping" /\ UNCHANGED <<limit, stage, turn, request>>
       /\ race' \in [Indexes -> {"collected"}]
  BY DEF Prepare
<1>16. Settled'
  BY <1>10, <1>11, <1>13, <1>14 DEF Settled
<1>17. TypeOK'
  <2>1. Typed'
    <3>1. /\ DOMAIN transcript' = 1..Len(transcript')
          /\ \A i \in 1..Len(transcript') : transcript'[i].tok \in Nat
      BY <1>10, Settles
    <3> QED BY <1>10, <3>1 DEF Typed, Numbered
  <2> QED BY <1>15, <2>1 DEF BuildInv, TypeOK, Typed
<1>18. Answered' /\ Fresh' /\ ExchangesStayWhole'
  BY <1>12, <1>15 DEF BuildInv, Answered, Fresh, ExchangesStayWhole
<1> QED BY <1>16, <1>17, <1>18 DEF BuildInv

(***************************************************************************)
(* The steps of the loop.                                                  *)
(***************************************************************************)

(* The sections of a build are sections, of which a call has none, and the *)
(* failure the one key there is.                                           *)
LEMMA AllSectionsAre ==
  ASSUME BuildInv
  PROVE  /\ limit \in Nat /\ AllSections \in Seq(Sections)
         /\ VerificationFailure \in Sections /\ VerificationFailure.tok > 0
         /\ VerificationFailure.key = "failure" /\ VerificationFailure.kind = "verification"
         /\ \A i \in 1..Len(AllSections) : AllSections[i].key \notin CallIds
<1>1. limit \in Nat
  BY TurnsAssumption DEF BuildInv, TypeOK
<1>2. /\ VerificationFailure \in Sections /\ VerificationFailure.tok > 0
      /\ VerificationFailure.key = "failure" /\ VerificationFailure.kind = "verification"
  BY TextsAssumption DEF VerificationFailure, Section, Sections
<1>3. /\ <<VerificationFailure>> \in Seq(Sections) /\ Len(<<VerificationFailure>>) = 1
      /\ <<VerificationFailure>>[1] = VerificationFailure
  BY <1>2, OneIs
<1>4. <<>> \in Seq(Sections) /\ Len(<<>>) = 0
  BY EmptySeq
<1>5. PICK more : more = IF stage = "repair" THEN <<VerificationFailure>> ELSE <<>>
  OBVIOUS
<1>6. AllSections = sections \o more
  BY <1>5 DEF AllSections
<1>7. more \in Seq(Sections) /\ \A i \in 1..Len(more) : more[i] = VerificationFailure
  <2> HIDE DEF Sections, VerificationFailure
  <2>1. CASE stage = "repair"
    <3>1. more = <<VerificationFailure>>
      BY <1>5, <2>1
    <3>2. \A i \in 1..Len(more) : i = 1
      BY <1>3, <3>1
    <3> QED BY <1>3, <3>1, <3>2
  <2>2. CASE stage # "repair"
    BY <1>4, <1>5, <2>2
  <2> QED BY <2>1, <2>2
<1>8. sections \in Seq(Sections) /\ \A i \in 1..Len(sections) : sections[i].key = NoKey
  BY DEF BuildInv, Settled
<1>9. PICK all : all = AllSections
  OBVIOUS
<1>10. Len(sections) \in Nat /\ Len(more) \in Nat
  BY <1>7, <1>8, LenProperties
<1>11. /\ all \in Seq(Sections) /\ Len(all) = Len(sections) + Len(more)
      /\ \A i \in 1..(Len(sections) + Len(more)) :
           all[i] = IF i <= Len(sections) THEN sections[i] ELSE more[i - Len(sections)]
  BY <1>6, <1>7, <1>8, <1>9, ConcatProperties
<1>12. ASSUME NEW i \in 1..Len(all) PROVE all[i].key \notin CallIds
  <2>1. CASE i <= Len(sections)
    BY <1>8, <1>10, <1>11, <2>1, CallsAssumption
  <2>2. CASE ~(i <= Len(sections))
    <3>1. i - Len(sections) \in 1..Len(more) /\ all[i] = more[i - Len(sections)]
      BY <1>10, <1>11, <2>2
    <3> QED BY <1>2, <1>7, <3>1, CallsAssumption
  <2> QED BY <2>1, <2>2
<1> QED BY <1>1, <1>2, <1>9, <1>11, <1>12

(* A request is built from a transcript that is whole.                     *)
LEMMA BuildModelRequestKeeps ==
  ASSUME BuildInv, BuildModelRequest
  PROVE  BuildInv'
<1>1. /\ at = "looping" /\ turn < MaxTurns /\ turn' = turn + 1
      /\ at' = IF request'.status = "refused" THEN "failed" ELSE "asking"
      /\ UNCHANGED <<limit, race, sections, transcript, stage>>
  BY DEF BuildModelRequest
<1>2. PICK sumShare \in Shares, share \in Shares :
         request' = Build(limit, AllSections, transcript, sumShare, share)
  BY DEF BuildModelRequest, AllSections
<1>3. transcript \in Seq(Message) /\ Numbered(transcript) /\ Whole(transcript)
  BY <1>1 DEF BuildInv, Settled, Answered
<1>4. limit \in Nat /\ AllSections \in Seq(Sections)
  BY AllSectionsAre
<1>5. PICK b : b = request'
  OBVIOUS
<1>6. b.status \in {"built", "refused"}
  BY <1>2, <1>3, <1>4, <1>5, BuildIs
<1>7. Whole(b.messages)
  BY <1>2, <1>3, <1>4, <1>5, BuildKeeps
<1>8. TypeOK'
  <2>1. turn' \in 0..MaxTurns
    BY <1>1, TurnsAssumption DEF BuildInv, TypeOK
  <2> QED BY <1>1, <1>5, <1>6, <2>1 DEF BuildInv, TypeOK
<1>9. Settled' /\ Answered'
  BY <1>1, <1>3 DEF BuildInv, Settled, Answered
<1>10. Fresh'
  <2>1. AllSections' = AllSections
    BY <1>1 DEF AllSections
  <2> QED BY <1>1, <1>2, <2>1 DEF Fresh
<1>11. ExchangesStayWhole'
  BY <1>5, <1>7 DEF ExchangesStayWhole
<1> QED BY <1>8, <1>9, <1>10, <1>11 DEF BuildInv

(* A plain answer leaves the transcript whole; one with calls leaves them  *)
(* for the tools to answer.                                                *)
LEMMA AppendAssistantResponseKeeps ==
  ASSUME BuildInv, AppendAssistantResponse
  PROVE  BuildInv'
<1>1. /\ at = "asking"
      /\ UNCHANGED <<limit, race, sections, stage, turn, request>>
  BY DEF AppendAssistantResponse
<1>2. PICK calls \in SUBSET CallIds, tok \in AnswerToks :
         /\ transcript' = Pushed(transcript, <<Assistant(calls, tok)>>)
         /\ at' = IF calls = {} THEN "verifying" ELSE "executing"
  BY DEF AppendAssistantResponse
<1>3. transcript \in Seq(Message) /\ Numbered(transcript) /\ Whole(transcript)
  BY <1>1 DEF BuildInv, Settled, Answered
<1>4. PICK one : one = <<Assistant(calls, tok)>>
  OBVIOUS
<1>5. /\ one \in Seq(Message) /\ Len(one) = 1
      /\ one[1].role = "assistant" /\ one[1].calls = calls
  BY <1>4, MessagesAre, OneIs
<1>6. PICK n \in Nat : n = Len(transcript)
  BY <1>3, LenProperties
<1>7. PICK t : t = transcript'
  OBVIOUS
<1>8. /\ t \in Seq(Message) /\ Len(t) = n + 1 /\ Numbered(t)
      /\ \A i \in 1..n : t[i] = transcript[i]
      /\ Agree(t[n + 1], one[1])
  <2>1. t = Pushed(transcript, one)
    BY <1>2, <1>4, <1>7
  <2>2. /\ Pushed(transcript, one) \in Seq(Message) /\ Len(Pushed(transcript, one)) = n + 1
        /\ \A i \in 1..n : Pushed(transcript, one)[i] = transcript[i]
        /\ \A i \in 1..1 : Agree(Pushed(transcript, one)[n + i], one[i])
        /\ Numbered(transcript) => Numbered(Pushed(transcript, one))
    BY <1>3, <1>5, <1>6, PushedIs
  <2> QED BY <1>3, <2>1, <2>2
<1>9. t[n + 1].role = "assistant" /\ t[n + 1].calls = calls
  BY <1>5, <1>8 DEF Agree
<1>10. Settled'
  <2>1. PICK i \in 1..n : transcript[i].role = "user"
    BY <1>1, <1>6 DEF BuildInv, Settled
  <2>2. i \in 1..Len(t) /\ t[i].role = "user"
    BY <1>8, <2>1
  <2> QED BY <1>1, <1>7, <1>8, <2>2 DEF BuildInv, Settled
<1>11. TypeOK'
  <2>1. Typed'
    <3>1. DOMAIN t = 1..Len(t) /\ \A i \in 1..Len(t) : t[i].tok \in Nat
      BY <1>8, Settles
    <3> QED BY <1>7, <1>8, <3>1 DEF Typed, Numbered
  <2> QED BY <1>1, <1>2, <2>1 DEF BuildInv, TypeOK, Typed
<1>12. Answered'
  <2>1. CASE calls = {}
    <3>1. \A i \in (Len(transcript) + 1)..Len(t) : Plain(t[i])
      BY <1>6, <1>8, <1>9, <2>1 DEF Plain
    <3>2. Len(transcript) <= Len(t) /\ \A i \in 1..Len(transcript) : Agree(t[i], transcript[i])
      BY <1>6, <1>8 DEF Agree
    <3>3. Whole(t)
      BY <1>3, <1>8, <3>1, <3>2, WholeExtends
    <3> QED BY <1>2, <1>7, <2>1, <3>3 DEF Answered
  <2>2. CASE calls # {}
    <3>1. PICK front : front = SubSeq(t, 1, n)
      OBVIOUS
    <3>2. 1 \in Int /\ n \in Int /\ \A i \in 1..n : t[i] \in Message
      BY <1>8, ElementOfSeq
    <3>3. front \in Seq(Message) /\ Len(front) = n /\ \A i \in 1..n : front[i] = t[i]
      <4>1. /\ front \in Seq(Message) /\ Len(front) = IF 1 <= n THEN n - 1 + 1 ELSE 0
            /\ \A i \in 1..(n - 1 + 1) : front[i] = t[1 + i - 1]
        BY <3>1, <3>2, SubSeqProperties
      <4>2. Len(front) = n
        BY <4>1
      <4>3. \A i \in 1..n : i \in 1..(n - 1 + 1) /\ 1 + i - 1 = i
        OBVIOUS
      <4> QED BY <4>1, <4>2, <4>3
    <3>4. /\ Len(transcript) <= Len(front) /\ \A i \in 1..Len(transcript) : Agree(front[i], transcript[i])
          /\ \A i \in (Len(transcript) + 1)..Len(front) : Plain(front[i])
      BY <1>6, <1>8, <3>3 DEF Agree
    <3>5. Whole(front)
      BY <1>3, <3>3, <3>4, WholeExtends
    <3>6. Len(t) > 0 /\ t[Len(t)].calls # {} /\ Len(t) - 1 = n
      BY <1>8, <1>9, <2>2
    <3> QED BY <1>2, <1>7, <2>2, <3>1, <3>5, <3>6 DEF Answered
  <2> QED BY <2>1, <2>2
<1>13. Fresh' /\ ExchangesStayWhole'
  BY <1>1, <1>2 DEF BuildInv, Fresh, ExchangesStayWhole
<1> QED BY <1>10, <1>11, <1>12, <1>13 DEF BuildInv

(* The results of all its calls make the last message an exchange.         *)
LEMMA AppendToolResultsKeeps ==
  ASSUME BuildInv, AppendToolResults
  PROVE  BuildInv'
<1>1. /\ at = "executing"
      /\ at' = IF stage = "repair" \/ turn = MaxTurns THEN "verifying" ELSE "looping"
      /\ UNCHANGED <<limit, race, sections, stage, turn, request>>
  BY DEF AppendToolResults
<1>2. /\ transcript \in Seq(Message) /\ Numbered(transcript)
      /\ Len(transcript) > 0 /\ transcript[Len(transcript)].calls # {}
      /\ Whole(SubSeq(transcript, 1, Len(transcript) - 1))
  BY <1>1 DEF BuildInv, Settled, Answered
<1>3. PICK n \in Nat \ {0} : n = Len(transcript)
  BY <1>2, LenProperties
<1>4. PICK calls : calls = transcript[n].calls
  OBVIOUS
<1>5. transcript[n] \in Message /\ calls \in SUBSET CallIds /\ calls # {}
  <2>1. transcript[n] \in Message
    BY <1>2, <1>3, ElementOfSeq
  <2> QED BY <1>2, <1>3, <1>4, <2>1 DEF Message
<1>6. Cardinality(calls) \in Nat
  BY <1>5, CallsAssumption, FS_Subset, FS_CardinalityType
<1>7. PICK c \in Nat : c = Cardinality(calls)
  BY <1>6
<1>8. PICK order \in [1..c -> calls], tok \in ResultToks :
         transcript' = Pushed(transcript, [i \in DOMAIN order |-> ToolResult(order[i], tok)])
  BY <1>3, <1>4, <1>7 DEF AppendToolResults
<1>9. PICK results : results = [i \in 1..c |-> ToolResult(order[i], tok)]
  OBVIOUS
<1>10. \A i \in 1..c : /\ results[i] \in Message /\ results[i].role = "tool"
                       /\ results[i].for \in calls /\ results[i].calls = {}
  <2> SUFFICES ASSUME NEW i \in 1..c
               PROVE  /\ results[i] \in Message /\ results[i].role = "tool"
                      /\ results[i].for \in calls /\ results[i].calls = {}
    OBVIOUS
  <2>1. order[i] \in calls /\ order[i] \in CallIds /\ results[i] = ToolResult(order[i], tok)
    BY <1>5, <1>8, <1>9
  <2> QED BY <2>1, MessagesAre
<1>11. results \in Seq(Message) /\ Len(results) = c
  <2>1. results \in [1..c -> Message]
    BY <1>9, <1>10
  <2> QED BY <2>1, SequenceOf
<1>12. PICK t : t = transcript'
  OBVIOUS
<1>13. /\ t \in Seq(Message) /\ Len(t) = n + c /\ Numbered(t)
       /\ \A i \in 1..n : t[i] = transcript[i]
       /\ \A i \in 1..c : Agree(t[n + i], results[i])
  <2>1. t = Pushed(transcript, results)
    BY <1>8, <1>9, <1>12
  <2>2. /\ Pushed(transcript, results) \in Seq(Message) /\ Len(Pushed(transcript, results)) = n + c
        /\ \A i \in 1..n : Pushed(transcript, results)[i] = transcript[i]
        /\ \A i \in 1..c : Agree(Pushed(transcript, results)[n + i], results[i])
        /\ Numbered(transcript) => Numbered(Pushed(transcript, results))
    BY <1>2, <1>3, <1>11, PushedIs
  <2> QED BY <1>2, <2>1, <2>2
<1>14. PICK front : front = SubSeq(transcript, 1, n - 1)
  OBVIOUS
<1>15. front \in Seq(Message) /\ Len(front) = n - 1 /\ \A i \in 1..(n - 1) : front[i] = transcript[i]
  <2>1. 1 \in Int /\ n - 1 \in Int /\ \A i \in 1..(n - 1) : transcript[i] \in Message
    <3>1. \A i \in 1..(n - 1) : i \in 1..Len(transcript)
      BY <1>3
    <3> QED BY <1>2, <3>1, ElementOfSeq
  <2>2. /\ front \in Seq(Message) /\ Len(front) = IF 1 <= n - 1 THEN n - 1 - 1 + 1 ELSE 0
        /\ \A i \in 1..(n - 1 - 1 + 1) : front[i] = transcript[1 + i - 1]
    BY <1>14, <2>1, SubSeqProperties
  <2>3. Len(front) = n - 1
    BY <2>2
  <2>4. \A i \in 1..(n - 1) : i \in 1..(n - 1 - 1 + 1) /\ 1 + i - 1 = i
    OBVIOUS
  <2> QED BY <2>2, <2>3, <2>4
<1>16. Whole(t)
  <2>1. t[n].calls = calls
    BY <1>4, <1>13
  <2>2. \A j \in (n + 1)..(n + c) : t[j].role = "tool" /\ t[j].for \in t[n].calls
    <3> SUFFICES ASSUME NEW j \in (n + 1)..(n + c)
                 PROVE  t[j].role = "tool" /\ t[j].for \in t[n].calls
      OBVIOUS
    <3>1. PICK i \in 1..c : j = n + i
      <4>1. j - n \in 1..c /\ j = n + (j - n)
        OBVIOUS
      <4> QED BY <4>1
    <3> QED BY <1>10, <1>13, <2>1, <3>1 DEF Agree
  <2>3. Complete(t, n)
    BY <1>5, <1>7, <1>13, <2>1, <2>2 DEF Complete
  <2>4. /\ Len(front) < Len(t) /\ Len(front) + 1 = n
        /\ Len(t) = Len(front) + 1 + Cardinality(t[n].calls)
        /\ \A i \in 1..Len(front) : Agree(t[i], front[i])
    BY <1>7, <1>13, <1>15, <2>1 DEF Agree
  <2>5. Whole(front) /\ Len(front) <= Len(t)
    BY <1>2, <1>3, <1>13, <1>14, <1>15
  <2>6. Complete(t, Len(front) + 1) /\ Len(t) = Len(front) + 1 + Cardinality(t[Len(front) + 1].calls)
    BY <2>3, <2>4
  <2> QED BY <1>13, <1>15, <2>4, <2>5, <2>6, WholeExtends
<1>17. Settled'
  <2>1. PICK i \in 1..n : transcript[i].role = "user"
    BY <1>1, <1>3 DEF BuildInv, Settled
  <2>2. i \in 1..Len(t) /\ t[i].role = "user"
    BY <1>13, <2>1
  <2> QED BY <1>1, <1>12, <1>13, <2>2 DEF BuildInv, Settled
<1>18. TypeOK'
  <2>1. Typed'
    <3>1. DOMAIN t = 1..Len(t) /\ \A i \in 1..Len(t) : t[i].tok \in Nat
      BY <1>13, Settles
    <3> QED BY <1>12, <1>13, <3>1 DEF Typed, Numbered
  <2> QED BY <1>1, <2>1 DEF BuildInv, TypeOK, Typed
<1>19. Answered' /\ Fresh' /\ ExchangesStayWhole'
  BY <1>1, <1>12, <1>16 DEF BuildInv, Answered, Fresh, ExchangesStayWhole
<1> QED BY <1>17, <1>18, <1>19 DEF BuildInv

(* A verification moves the run only.                                      *)
LEMMA VerificationKeeps ==
  ASSUME BuildInv, VerificationFails \/ VerificationPasses
  PROVE  BuildInv'
<1>1. /\ at = "verifying" /\ at' \in {"looping", "done"} /\ stage' \in {stage, "repair"}
      /\ UNCHANGED <<limit, race, sections, transcript, turn, request>>
  BY DEF VerificationFails, VerificationPasses
<1>2. TypeOK'
  BY <1>1 DEF BuildInv, TypeOK
<1>3. Settled' /\ Answered' /\ Fresh' /\ ExchangesStayWhole'
  BY <1>1 DEF BuildInv, Settled, Answered, Fresh, ExchangesStayWhole
<1> QED BY <1>2, <1>3 DEF BuildInv

(* Nor does a step that changes nothing break the invariant.               *)
LEMMA StutterKeeps ==
  ASSUME BuildInv, UNCHANGED vars
  PROVE  BuildInv'
<1>1. UNCHANGED <<limit, race, sections, transcript, at, stage, turn, request>>
  BY DEF vars
<1>2. TypeOK'
  BY <1>1 DEF BuildInv, TypeOK
<1>3. Settled' /\ Answered' /\ ExchangesStayWhole'
  BY <1>1 DEF BuildInv, Settled, Answered, ExchangesStayWhole
<1>4. Fresh'
  BY <1>1 DEF BuildInv, Fresh, AllSections
<1> QED BY <1>2, <1>3, <1>4 DEF BuildInv

(* Every action keeps the invariant.                                       *)
LEMMA NextKeeps == BuildInv /\ [Next]_vars => BuildInv'
<1> SUFFICES ASSUME BuildInv, [Next]_vars PROVE BuildInv'
  OBVIOUS
<1>1. CASE \E i \in Indexes : ProviderSettles(i) \/ ProviderTimesOut(i)
  BY <1>1, ProviderSettlesKeeps
<1>2. CASE Prepare
  BY <1>2, PrepareKeeps
<1>3. CASE BuildModelRequest
  BY <1>3, BuildModelRequestKeeps
<1>4. CASE AppendAssistantResponse
  BY <1>4, AppendAssistantResponseKeeps
<1>5. CASE AppendToolResults
  BY <1>5, AppendToolResultsKeeps
<1>6. CASE VerificationFails \/ VerificationPasses
  BY <1>6, VerificationKeeps
<1>7. CASE UNCHANGED vars
  BY <1>7, StutterKeeps
<1> QED BY <1>1, <1>2, <1>3, <1>4, <1>5, <1>6, <1>7 DEF Next

(***************************************************************************)
(* What a request holds, in every state.                                   *)
(***************************************************************************)

(* While the model is asked, the request is built from a whole transcript. *)
LEMMA Asked ==
  ASSUME BuildInv, at = "asking"
  PROVE  /\ Seen = transcript /\ transcript \in Seq(Message) /\ Len(transcript) \in Nat
         /\ DOMAIN transcript = 1..Len(transcript)
         /\ \A i \in 1..Len(transcript) : transcript[i] \in Message
         /\ Numbered(transcript) /\ Whole(transcript)
         /\ \E sumShare \in Shares, share \in Shares :
              request = Build(limit, AllSections, transcript, sumShare, share)
<1>1. transcript \in Seq(Message)
  BY DEF BuildInv, Settled
<1>2. /\ Len(transcript) \in Nat /\ DOMAIN transcript = 1..Len(transcript)
      /\ \A i \in 1..Len(transcript) : transcript[i] \in Message
  BY <1>1, Settles
<1> QED BY <1>1, <1>2 DEF BuildInv, Settled, Answered, Fresh, Seen

(* Unless the model is asked, nothing is seen.                             *)
LEMMA NothingSeen ==
  ASSUME at # "asking"
  PROVE  DOMAIN Seen = {}
<1>1. Seen = <<>>
  BY DEF Seen
<1>2. <<>> \in Seq(Nat) /\ Len(<<>>) = 0
  BY EmptySeq
<1>3. DOMAIN <<>> = 1..0
  BY <1>2, LenProperties
<1> QED BY <1>1, <1>3

(* The task is the last message of the user.                               *)
LEMMA TaskIs ==
  ASSUME BuildInv, at = "asking"
  PROVE  \E u \in 1..Len(transcript) :
           /\ Task.id = u /\ transcript[u].role = "user"
           /\ \A v \in 1..Len(transcript) : transcript[v].role = "user" => v <= u
<1> DEFINE users == {i \in 1..Len(transcript) : transcript[i].role = "user"}
           Newest(m) == /\ m.role = "user"
                        /\ \A n \in Range(transcript) : n.role = "user" => n.id <= m.id
<1>1. Len(transcript) \in Nat /\ DOMAIN transcript = 1..Len(transcript) /\ Numbered(transcript)
  BY Asked
<1>2. users \in SUBSET (0..Len(transcript)) /\ users # {}
  BY <1>1 DEF BuildInv, Settled
<1>3. PICK u : u = Max(users)
  OBVIOUS
<1>4. u \in users /\ \A v \in users : v <= u
  <2> HIDE DEF users
  <2> QED BY <1>1, <1>2, <1>3, HasGreatest
<1>5. \A m \in Range(transcript) : \E i \in 1..Len(transcript) : m = transcript[i] /\ m.id = i
  BY <1>1 DEF Range, Numbered
<1>6. transcript[u] \in Range(transcript) /\ transcript[u].id = u
  BY <1>1, <1>4 DEF Range, Numbered
<1>7. Newest(transcript[u])
  <2> SUFFICES ASSUME NEW n \in Range(transcript), n.role = "user" PROVE n.id <= transcript[u].id
    BY <1>4
  <2>1. PICK i \in 1..Len(transcript) : n = transcript[i] /\ n.id = i
    BY <1>5
  <2> QED BY <1>4, <1>6, <2>1
<1> HIDE DEF Newest
<1>8. Task = CHOOSE m \in Range(transcript) : Newest(m)
  BY DEF Task, Newest
<1>9. Task \in Range(transcript) /\ Newest(Task)
  BY <1>6, <1>7, <1>8
<1>10. PICK t : t = Task
  OBVIOUS
<1>11. PICK i \in 1..Len(transcript) : t = transcript[i] /\ t.id = i
  BY <1>5, <1>9, <1>10
<1>12. i \in users /\ u <= i
  <2>1. t.role = "user" /\ \A n \in Range(transcript) : n.role = "user" => n.id <= t.id
    BY <1>9, <1>10 DEF Newest
  <2> QED BY <1>4, <1>6, <1>11, <2>1
<1>13. i = u
  BY <1>1, <1>4, <1>12
<1>14. \A v \in 1..Len(transcript) : transcript[v].role = "user" => v <= u
  BY <1>4
<1> QED BY <1>4, <1>10, <1>11, <1>13, <1>14

(* What the invariant and the algorithms of the window say of the task.    *)
LEMMA TaskKept ==
  ASSUME BuildInv
  PROVE  TaskSurvives
<1>1. CASE at # "asking"
  BY <1>1, NothingSeen DEF TaskSurvives
<1>2. CASE at = "asking"
  <2>1. /\ Seen = transcript /\ transcript \in Seq(Message) /\ Len(transcript) \in Nat
        /\ DOMAIN transcript = 1..Len(transcript) /\ Numbered(transcript) /\ Whole(transcript)
    BY <1>2, Asked
  <2>2. PICK sumShare \in Shares, share \in Shares :
           request = Build(limit, AllSections, transcript, sumShare, share)
    BY <1>2, Asked
  <2>3. limit \in Nat /\ AllSections \in Seq(Sections)
    BY AllSectionsAre
  <2>4. PICK b : b = request
    OBVIOUS
  <2>5. /\ \A u \in 1..Len(transcript) :
              transcript[u].role = "user"
              /\ (\A v \in 1..Len(transcript) : transcript[v].role = "user" => v <= u) =>
                \A i \in u..Len(transcript) : Plain(transcript[i]) => transcript[i] \in Range(b.messages)
        /\ \A k \in Latest(transcript) : \A i \in ExchangeOf(transcript, k) :
              transcript[i] \in Range(b.messages)
    BY <2>1, <2>2, <2>3, <2>4, BuildKeeps
  <2>6. PICK u \in 1..Len(transcript) :
           /\ Task.id = u /\ transcript[u].role = "user"
           /\ \A v \in 1..Len(transcript) : transcript[v].role = "user" => v <= u
    BY <1>2, TaskIs
  <2>7. ASSUME NEW i \in 1..Len(transcript), i >= u, Plain(transcript[i])
        PROVE  transcript[i] \in Range(b.messages)
    <3>1. i \in u..Len(transcript)
      BY <2>1, <2>7
    <3> QED BY <2>5, <2>6, <2>7, <3>1
  <2> QED BY <2>1, <2>4, <2>5, <2>6, <2>7 DEF TaskSurvives
<1> QED BY <1>1, <1>2

(* What they say of a request that is not reported as compacted.           *)
LEMMA LosslessKept ==
  ASSUME BuildInv
  PROVE  UnreportedLossless
<1>1. CASE at # "asking"
  BY <1>1, NothingSeen DEF UnreportedLossless
<1>2. CASE at = "asking"
  <2>1. /\ Seen = transcript /\ transcript \in Seq(Message) /\ Len(transcript) \in Nat
        /\ DOMAIN transcript = 1..Len(transcript) /\ Numbered(transcript) /\ Whole(transcript)
    BY <1>2, Asked
  <2>2. PICK sumShare \in Shares, share \in Shares :
           request = Build(limit, AllSections, transcript, sumShare, share)
    BY <1>2, Asked
  <2>3. /\ limit \in Nat /\ AllSections \in Seq(Sections)
        /\ \A i \in 1..Len(AllSections) : AllSections[i].key \notin CallIds
    BY AllSectionsAre
  <2>4. PICK b : b = request
    OBVIOUS
  <2>5. PICK longest : longest = SectionLimit(Available(limit, b.messages))
    OBVIOUS
  <2>6. ~b.compacted => NothingLost(b, transcript, longest)
    BY <2>1, <2>2, <2>3, <2>4, <2>5, BuildKeeps
  <2>7. ASSUME ~b.compacted, NEW i \in 1..Len(transcript)
        PROVE  /\ Plain(transcript[i]) => transcript[i] \in Range(b.messages)
               /\ transcript[i].role = "tool" =>
                    \E j \in i..Len(transcript) :
                      /\ transcript[j].for = transcript[i].for
                      /\ \/ transcript[j] \in Range(b.messages)
                         \/ \E s \in Range(b.included) :
                              Says(s, SectionOf(transcript, transcript[j]), longest)
    <3>1. Plain(transcript[i]) => i \in Projection(transcript)
      BY DEF Projection
    <3>2. i \in i..Len(transcript)
      BY <2>1
    <3> QED BY <2>6, <2>7, <3>1, <3>2 DEF NothingLost
  <2> QED BY <2>1, <2>4, <2>5, <2>7 DEF UnreportedLossless
<1> QED BY <1>1, <1>2

(* What they say of a repair.                                              *)
LEMMA FailureShown ==
  ASSUME BuildInv
  PROVE  RepairSeesFailure
<1> SUFFICES ASSUME stage = "repair", at = "asking", NEW k \in DOMAIN Shown(request),
                    Shown(request)[k].pri < VerificationFailure.pri
             PROVE  \E j \in 1..k - 1 : Shown(request)[j] = VerificationFailure
  BY DEF RepairSeesFailure, Shown
<1>1. transcript \in Seq(Message) /\ Numbered(transcript) /\ Whole(transcript)
  BY Asked
<1>2. PICK sumShare \in Shares, share \in Shares :
         request = Build(limit, AllSections, transcript, sumShare, share)
  BY Asked
<1>3. PICK failure : failure = VerificationFailure
  OBVIOUS
<1>4. /\ limit \in Nat /\ failure \in Sections /\ failure.tok > 0
      /\ failure.key = "failure" /\ failure.kind = "verification"
  BY <1>3, AllSectionsAre
<1>5. sections \in Seq(Sections)
  BY DEF BuildInv, Settled
<1>6. PICK b : b = request
  OBVIOUS
<1>7. b = Build(limit, sections \o <<failure>>, transcript, sumShare, share)
  BY <1>2, <1>3, <1>6 DEF AllSections
<1>8. k \in DOMAIN Shown(b) /\ Shown(b)[k].pri < failure.pri
  BY <1>3, <1>6
<1>9. \E j \in 1..k - 1 : Shown(b)[j] = failure
  BY <1>1, <1>4, <1>5, <1>7, <1>8, FailureFirst
<1> QED BY <1>3, <1>6, <1>9

(***************************************************************************)
(* The invariant holds throughout, and with it the types.                  *)
(***************************************************************************)
THEOREM BuildInvariant == Spec => []BuildInv
<1>1. Init => BuildInv
  BY InitEstablishes
<1>2. BuildInv /\ [Next]_vars => BuildInv'
  BY NextKeeps
<1> QED BY <1>1, <1>2, PTL DEF Spec

(* The variables of the run's context keep their types.                    *)
THEOREM BuildTypeCorrect == Spec => []TypeOK
<1>1. BuildInv => TypeOK
  BY DEF BuildInv
<1> QED BY <1>1, BuildInvariant, PTL

(***************************************************************************)
(* No projection and no compaction of any transcript cuts an exchange.     *)
(***************************************************************************)
THEOREM ExchangesAlwaysWhole == Spec => []ExchangesStayWhole
<1>1. BuildInv => ExchangesStayWhole
  BY DEF BuildInv
<1> QED BY <1>1, BuildInvariant, PTL

(***************************************************************************)
(* Whatever the limit, a request has the task of the run, what was plainly *)
(* answered since, and the newest exchange.                                *)
(***************************************************************************)
THEOREM TaskAlwaysSurvives == Spec => []TaskSurvives
<1>1. BuildInv => TaskSurvives
  BY TaskKept
<1> QED BY <1>1, BuildInvariant, PTL

(***************************************************************************)
(* A build that does not say it is compacted left out no message of the    *)
(* user, no plain answer, and of no call the newest result, but for what   *)
(* the compressor cuts of results that are too long for a section.         *)
(***************************************************************************)
THEOREM UnreportedAlwaysLossless == Spec => []UnreportedLossless
<1>1. BuildInv => UnreportedLossless
  BY LosslessKept
<1> QED BY <1>1, BuildInvariant, PTL

(***************************************************************************)
(* Whatever a repair request shows that is less urgent than the failure    *)
(* comes after all of it, whatever priorities callers and providers chose. *)
(***************************************************************************)
THEOREM RepairAlwaysSeesFailure == Spec => []RepairSeesFailure
<1>1. BuildInv => RepairSeesFailure
  BY FailureShown
<1> QED BY <1>1, BuildInvariant, PTL
===============================================================================
