---------------------------- MODULE SnapshotLemmas ----------------------------
(***************************************************************************)
(* Facts about naturals that the proofs of the snapshot modules share.     *)
(***************************************************************************)
EXTENDS Naturals, WellFoundedInduction, TLAPS

(* Every non-empty set of naturals has a least element.                   *)
LEMMA LeastElement ==
    ASSUME NEW T \in SUBSET Nat, T # {}
    PROVE  \E x \in T : \A y \in T : x <= y
<1>1. \E x \in T : \A y \in T : ~(<<y, x>> \in OpToRel(<, Nat))
    BY NatLessThanWellFounded, WFMin
<1>2. ASSUME NEW x \in T, NEW y \in T, ~(<<y, x>> \in OpToRel(<, Nat))
      PROVE  x <= y
    <2>1. ~(y < x)
        BY <1>2 DEF OpToRel
    <2>2. QED
        BY <2>1, SMT
<1>3. QED
    BY <1>1, <1>2

(* Every n has a longest prefix 1..k of 1..n free of a set Bad: some     *)
(* k \in 0..n with no member of Bad in 1..k and, when k < n, k + 1 in Bad. *)
LEMMA LongestPrefix ==
    ASSUME NEW n \in Nat, NEW Bad
    PROVE  \E k \in 0 .. n : /\ \A i \in 1 .. k : i \notin Bad
                             /\ k < n => k + 1 \in Bad
<1>1. CASE \A i \in 1 .. n : i \notin Bad
    BY <1>1
<1>2. CASE \E i \in 1 .. n : i \in Bad
    <2>. DEFINE T == {i \in 1 .. n : i \in Bad}
    <2>1. T \in SUBSET Nat /\ T # {}
        BY <1>2
    <2>2. PICK m \in T : \A y \in T : m <= y
        BY <2>1, LeastElement
    <2>3. m - 1 \in 0 .. n /\ \A i \in 1 .. m - 1 : i \notin Bad
        BY <2>2
    <2>4. m - 1 < n => m - 1 + 1 \in Bad
        BY <2>2
    <2>5. QED
        BY <2>3, <2>4
<1>3. QED
    BY <1>1, <1>2
=============================================================================
