----------------------------- MODULE ListLemmas -----------------------------
(***************************************************************************)
(* Lemmas about numbers and about lists without repetition, used by the    *)
(* proofs of the two memory pools.                                         *)
(***************************************************************************)
EXTENDS Integers, Sequences, FiniteSets, Functions, WellFoundedInduction, TLAPS

\* A set of numbers has a least one, which is what induction on numbers comes from.
LEMMA Least ==
  ASSUME NEW T \in SUBSET Nat, T # {}
  PROVE  \E x \in T : \A y \in T : x <= y
<1> DEFINE R == OpToRel(<, Nat)
<1>1. IsWellFoundedOn(R, Nat)
  BY NatLessThanWellFounded
<1>2. \A x, y \in Nat : <<x, y>> \in R <=> x < y
  BY DEF OpToRel
<1> HIDE DEF R
<1>3. PICK x \in T : \A y \in T : ~(<<y, x>> \in R)
  BY <1>1, WFMin
<1>4. QED
  <2>1. x \in Nat /\ \A y \in T : ~(y < x)
    BY <1>2, <1>3, Zenon
  <2>2. \A y \in T : y \in Nat
    OBVIOUS
  <2>3. QED
    BY <2>1, <2>2

\* Induction, on a set instead of a formula.
LEMMA SetInduction ==
  ASSUME NEW S, 0 \in S, \A n \in Nat : n \in S => n + 1 \in S
  PROVE  Nat \subseteq S
<1> SUFFICES ASSUME Nat \ S # {} PROVE FALSE
  OBVIOUS
<1>1. PICK n \in Nat \ S : \A m \in Nat \ S : n <= m
  BY Least
<1>2. n # 0 /\ n - 1 \in Nat /\ n - 1 < n /\ (n - 1) + 1 = n
  BY <1>1
<1>3. n - 1 \in S
  BY <1>1, <1>2
<1>4. QED
  BY <1>1, <1>2, <1>3

-----------------------------------------------------------------------------
\* Lists in which nothing occurs twice.
Entries(list) == {list[i] : i \in DOMAIN list}

LEMMA PopLemma ==
  ASSUME NEW S, NEW list \in Seq(S), list # << >>, IsInjective(list)
  PROVE  /\ Tail(list) \in Seq(S) /\ IsInjective(Tail(list))
         /\ Head(list) \in Entries(list) /\ Head(list) \in S
         /\ Entries(Tail(list)) = Entries(list) \ {Head(list)}
<1>1. /\ Len(list) \in Nat \ {0} /\ Tail(list) \in Seq(S)
      /\ Len(Tail(list)) = Len(list) - 1 /\ Head(list) = list[1] /\ DOMAIN list = 1..Len(list)
      /\ DOMAIN Tail(list) = 1..(Len(list) - 1)
      /\ \A i \in 1..(Len(list) - 1) : Tail(list)[i] = list[i + 1]
  OBVIOUS
<1>2. IsInjective(Tail(list))
  BY <1>1 DEF IsInjective
<1>3. Entries(Tail(list)) \subseteq Entries(list) \ {Head(list)}
  BY <1>1 DEF Entries, IsInjective
<1>4. ASSUME NEW b \in Entries(list), b # Head(list) PROVE b \in Entries(Tail(list))
  <2>1. PICK i \in 1..Len(list) : b = list[i]
    BY <1>1 DEF Entries
  <2>2. i # 1
    BY <2>1, <1>1, <1>4
  <2>3. i - 1 \in 1..(Len(list) - 1) /\ Tail(list)[i - 1] = list[i]
    BY <2>2, <1>1
  <2>4. QED
    BY <2>1, <2>3, <1>1 DEF Entries
<1>5. Head(list) \in Entries(list) /\ Head(list) \in S
  BY <1>1 DEF Entries
<1>6. QED
  BY <1>1, <1>2, <1>3, <1>4, <1>5

LEMMA PushLemma ==
  ASSUME NEW S, NEW list \in Seq(S), IsInjective(list), NEW b \in S, b \notin Entries(list)
  PROVE  /\ <<b>> \o list \in Seq(S) /\ IsInjective(<<b>> \o list)
         /\ Entries(<<b>> \o list) = Entries(list) \cup {b}
<1> DEFINE more == <<b>> \o list
<1>1. /\ more \in Seq(S) /\ Len(list) \in Nat
      /\ DOMAIN list = 1..Len(list) /\ DOMAIN more = 1..(Len(list) + 1)
      /\ more[1] = b /\ \A i \in 1..Len(list) : more[i + 1] = list[i]
  OBVIOUS
<1> HIDE DEF more
<1>2. \A i \in 2..(Len(list) + 1) : i - 1 \in 1..Len(list) /\ more[i] = list[i - 1]
  <2> SUFFICES ASSUME NEW i \in 2..(Len(list) + 1)
               PROVE  i - 1 \in 1..Len(list) /\ more[i] = list[i - 1]
    OBVIOUS
  <2>1. i - 1 \in 1..Len(list) /\ (i - 1) + 1 = i
    BY <1>1
  <2>2. QED
    BY <2>1, <1>1
<1>3. \A i \in 1..(Len(list) + 1) : i = 1 \/ i \in 2..(Len(list) + 1)
  BY <1>1
<1> DEFINE n == Len(list)
<1>8. \A i \in 2..(n + 1) : more[i] \in Entries(list) /\ more[i] # b
  BY <1>1, <1>2 DEF Entries
<1>4. IsInjective(more)
  <2> SUFFICES ASSUME NEW i \in 1..(Len(list) + 1), NEW j \in 1..(Len(list) + 1), more[i] = more[j]
               PROVE  i = j
    BY <1>1 DEF IsInjective
  <2>1. CASE i = 1 \/ j = 1
    BY <2>1, <1>1, <1>3, <1>8
  <2>2. CASE i # 1 /\ j # 1
    <3>1. i - 1 \in DOMAIN list /\ j - 1 \in DOMAIN list /\ list[i - 1] = list[j - 1]
      BY <2>2, <1>1, <1>2, <1>3
    <3>2. i - 1 = j - 1
      BY <3>1 DEF IsInjective
    <3>3. QED
      BY <3>2, <1>1
  <2>3. QED
    BY <2>1, <2>2
<1>5. Entries(more) \subseteq Entries(list) \cup {b}
  BY <1>1, <1>2, <1>3 DEF Entries
<1>6. Entries(list) \subseteq Entries(more) /\ b \in Entries(more)
  <2>1. \A i \in 1..Len(list) : i + 1 \in 1..(Len(list) + 1)
    BY <1>1
  <2>2. 1 \in 1..(Len(list) + 1)
    BY <1>1
  <2>3. QED
    BY <2>1, <2>2, <1>1 DEF Entries
<1>7. QED
  BY <1>1, <1>4, <1>5, <1>6 DEF more

LEMMA EmptyLists == Entries(<< >>) = {} /\ IsInjective(<< >>)
BY DEF Entries, IsInjective
=============================================================================
