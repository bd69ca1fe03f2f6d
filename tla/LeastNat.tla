------------------------------ MODULE LeastNat ------------------------------
(* First-fit searches are modelled by a least number with a property; here *)
(* is that there is one.                                                   *)
EXTENDS Naturals, WellFoundedInduction, NaturalsInduction, TLAPS

(* Every non-empty set of naturals has a least element.                    *)
LEMMA LeastNatural ==
  ASSUME NEW S \in SUBSET Nat, S # {}
  PROVE  \E k \in S : \A j \in S : k <= j
<1>1. \E k \in S : \A j \in S : ~(<<j, k>> \in OpToRel(<, Nat))
  BY NatLessThanWellFounded, WFMin
<1>2. \A j, k \in S : ~(<<j, k>> \in OpToRel(<, Nat)) => k <= j
  BY DEF OpToRel
<1> QED BY <1>1, <1>2
=============================================================================
