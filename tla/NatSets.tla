-------------------------------- MODULE NatSets --------------------------------
(***************************************************************************)
(* Induction over the natural numbers for a set, from the library's fact   *)
(* that they are well founded.  (Its induction theorems are stated for an  *)
(* operator, and the provers cannot instantiate those.)                    *)
(***************************************************************************)
EXTENDS Integers, WellFoundedInduction, TLAPS

\* The order as a relation.
Less == OpToRel(<, Nat)

\* There is no infinite descent.
LEMMA LessWellFounded == IsWellFoundedOn(Less, Nat)
BY NatLessThanWellFounded, Zenon DEF Less

\* The relation is the order.
LEMMA LessMeaning == \A i, j \in Nat : << i, j >> \in Less <=> i < j
BY DEF Less, OpToRel

\* A set that has 0 and with each number the next one has them all.
LEMMA SetInduction ==
    ASSUME NEW S, 0 \in S, \A n \in Nat : n \in S => n + 1 \in S
    PROVE  \A n \in Nat : n \in S
<1> DEFINE T == {n \in Nat : n \notin S}
<1> SUFFICES ASSUME T # {} PROVE FALSE
  OBVIOUS
<1>1. PICK x \in T : \A y \in T : << y, x >> \notin Less
  <2>1. T \subseteq Nat
    OBVIOUS
  <2> HIDE DEF T
  <2> QED BY <2>1, LessWellFounded, WFMin
<1>2. x \in Nat /\ x - 1 \in Nat
  OBVIOUS
<1>3. x - 1 \notin T
  <2>1. << x - 1, x >> \in Less
    BY <1>2, LessMeaning
  <2> HIDE DEF T
  <2> QED BY <1>1, <2>1
<1> QED BY <1>2, <1>3
=============================================================================
