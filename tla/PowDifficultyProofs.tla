------------------------- MODULE PowDifficultyProofs -------------------------
(***************************************************************************)
(* Proofs about PowDifficulty for every integer width and powLimit: the    *)
(* derivation in GetBlockProof's comment, and the bounds of one retarget   *)
(* step of CalculateNextWorkRequired.                                      *)
(***************************************************************************)
EXTENDS PowDifficulty, TLAPS

USE PowAssumption

(* For 0 < t + 1 <= M: (M - 1 - t) \div (t + 1) + 1 = M \div (t + 1), the *)
(* step from 2^256 / (target + 1) to ~target / (target + 1) + 1.          *)
LEMMA ShiftedQuotient ==
    ASSUME NEW M \in Nat, NEW t \in Nat, t + 1 <= M
    PROVE  ((M - 1 - t) \div (t + 1)) + 1 = M \div (t + 1)
<1>1. M - 1 - t \in Nat /\ t + 1 \in Nat \ {0}
    OBVIOUS
<1>2. ((M - 1 - t) + (t + 1)) \div (t + 1) = ((M - 1 - t) \div (t + 1)) + 1
    BY <1>1, SMT
<1>3. QED
    BY <1>2

(* GetBlockProof's comment: for every nBits that CheckProofOfWork's range *)
(* check accepts, ~target / (target + 1) + 1 is 2^256 / (target + 1), for *)
(* every range of arith_uint256 above powLimit (the target decoded by     *)
(* SetCompact is an arith_uint256, a natural number).                     *)
THEOREM BlockProofExact ==
    ASSUME NEW c, BitsInRange(c), Target(c) \in Nat
    PROVE  GetBlockProof(c) = Modulus \div (Target(c) + 1)
<1>. DEFINE t == SetCompact(c)
<1>1. t.value \in Nat /\ t.value + 1 <= Modulus
    BY DEF BitsInRange, Target
<1>2. ~(t.negative \/ t.overflow \/ t.value = 0)
    BY DEF BitsInRange
<1>3. GetBlockProof(c) = ((Modulus - 1 - t.value) \div (t.value + 1)) + 1
    BY <1>2 DEF GetBlockProof
<1>. HIDE DEF t
<1>4. QED
    BY <1>1, <1>3, ShiftedQuotient DEF Target, t

-----------------------------------------------------------------------------
(* The bounds of the actual timespan: MinActualTimespan is at most        *)
(* MaxActualTimespan, both non-negative.                                  *)
LEMMA TimespanBounds ==
    /\ AveragingWindowTimespan \in Nat \ {0}
    /\ MinActualTimespan \in Nat /\ MaxActualTimespan \in Nat
    /\ MinActualTimespan <= MaxActualTimespan
BY DEF AveragingWindowTimespan, MinActualTimespan, MaxActualTimespan

(* Multiplying both sides by a natural keeps an inequality.             *)
LEMMA MulMono ==
    ASSUME NEW a \in Int, NEW b \in Int, NEW k \in Nat, a <= b
    PROVE  a * k <= b * k
BY SMT

(* "Limit adjustment step": for every average target and every pair of    *)
(* median times, CalculateNextWorkRequired encodes a target new between  *)
(* 0 and powLimit with new / avg at most MaxActualTimespan /             *)
(* AveragingWindowTimespan, and at least the lower bound                 *)
(* (avg / AveragingWindowTimespan) * MinActualTimespan capped at          *)
(* powLimit, whatever the dampening and the truncations give.             *)
THEOREM RetargetLimited ==
    ASSUME NEW avg \in Nat, NEW lastTime \in Int, NEW firstTime \in Int
    PROVE  \E new \in 0 .. PowLimit :
              LET low == (avg \div AveragingWindowTimespan) * MinActualTimespan
              IN  /\ CalculateNextWorkRequired(avg, lastTime, firstTime) = GetCompact(new)
                  /\ new * AveragingWindowTimespan <= avg * MaxActualTimespan
                  /\ new >= IF low > PowLimit THEN PowLimit ELSE low
<1>. DEFINE W == AveragingWindowTimespan
            q == avg \div W
            damped == W + CDiv(lastTime - firstTime - W, 4)
            lower == IF damped < MinActualTimespan THEN MinActualTimespan ELSE damped
            actual == IF lower > MaxActualTimespan THEN MaxActualTimespan ELSE lower
            raw == q * actual
            new == IF raw > PowLimit THEN PowLimit ELSE raw
            low == q * MinActualTimespan
<1>1. CalculateNextWorkRequired(avg, lastTime, firstTime) = GetCompact(new)
    BY DEF CalculateNextWorkRequired
<1>2. /\ W \in Nat \ {0} /\ MinActualTimespan \in Nat /\ MaxActualTimespan \in Nat
      /\ MinActualTimespan <= MaxActualTimespan
    BY TimespanBounds
<1>3. damped \in Int
    BY <1>2 DEF CDiv
<1>4. actual \in MinActualTimespan .. MaxActualTimespan
    BY <1>2, <1>3
<1>5. q \in Nat /\ q * W <= avg
    BY <1>2
<1>6. raw \in Nat /\ low \in Nat /\ low <= raw /\ raw <= q * MaxActualTimespan
    BY <1>2, <1>4, <1>5
<1>. HIDE DEF raw, q, low
<1>7. new \in 0 .. PowLimit /\ new <= q * MaxActualTimespan
    BY <1>2, <1>5, <1>6
<1>8. new * W <= avg * MaxActualTimespan
    <2>1. new * W <= (q * MaxActualTimespan) * W
        <3>. HIDE DEF new
        <3>1. QED
            BY <1>2, <1>5, <1>7, MulMono
    <2>2. (q * MaxActualTimespan) * W = (q * W) * MaxActualTimespan
        BY <1>2, <1>5
    <2>3. (q * W) * MaxActualTimespan <= avg * MaxActualTimespan
        BY <1>2, <1>5, MulMono
    <2>4. QED
        BY <2>1, <2>2, <2>3, <1>2, <1>5, <1>7
<1>9. new >= IF low > PowLimit THEN PowLimit ELSE low
    BY <1>2, <1>5, <1>6
<1>. HIDE DEF new, W
<1>10. QED
    BY <1>1, <1>7, <1>8, <1>9 DEF low, q, W

=============================================================================
