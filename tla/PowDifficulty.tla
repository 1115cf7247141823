---------------------------- MODULE PowDifficulty ----------------------------
(***************************************************************************)
(* The difficulty retarget of pow.cpp: GetNextWorkRequired with its        *)
(* upgrade-fork and minimum-difficulty rules, CalculateNextWorkRequired    *)
(* (averaging window, dampening, bounds), IncreaseDifficultyBy,             *)
(* CheckProofOfWork's range check and GetBlockProof.  A chain grows by one *)
(* block at a time whose nBits is what GetNextWorkRequired returns for the *)
(* miner's timestamp.  Targets are naturals (arith_uint256 never overflows *)
(* here: a window's sum is at most nPowAveragingWindow * powLimit); nBits  *)
(* is the compact format, modelled by what SetCompact and GetCompact do.   *)
(***************************************************************************)
EXTENDS Integers, Sequences, FiniteSets

CONSTANTS
    PowLimit,         \* UintToArith256(params.powLimit)
    Modulus,          \* 2^256, the range of arith_uint256, for GetBlockProof
    Window,           \* params.nPowAveragingWindow
    Spacing,          \* params.PoWTargetSpacing(height), in seconds
    MaxAdjustUp,      \* params.nPowMaxAdjustUp, percent
    MaxAdjustDown,    \* params.nPowMaxAdjustDown, percent
    MedianSpan,       \* CBlockIndex::nMedianTimeSpan (11)
    ScaleAtFork,      \* params.scaleDifficultyAtUpgradeFork
    DiffAdjHeight,    \* activation height of UPGRADE_DIFFADJ
    ButtercupHeight,  \* activation height of UPGRADE_BUTTERCUP
    MinDiffAfter,     \* params.nPowAllowMinDifficultyBlocksAfterHeight
    NoHeight,         \* boost::none for MinDiffAfter
    GenesisTime,      \* the genesis block's timestamp
    Deltas            \* offsets from the previous block's time a miner may use

ASSUME PowAssumption ==
    /\ PowLimit \in Nat \ {0} /\ Modulus \in Nat /\ PowLimit < Modulus
    /\ Window \in Nat \ {0} /\ Spacing \in Nat \ {0}
    /\ MaxAdjustUp \in 0 .. 100 /\ MaxAdjustDown \in Nat
    /\ MedianSpan \in Nat \ {0} /\ ScaleAtFork \in BOOLEAN
    /\ DiffAdjHeight \in Nat /\ ButtercupHeight \in Nat
    /\ NoHeight \notin Nat /\ MinDiffAfter \in Nat \cup {NoHeight}
    /\ GenesisTime \in Int /\ Deltas \subseteq Int

VARIABLE chain   \* the active chain, chain[k] being the block at height k - 1

-----------------------------------------------------------------------------
(* Consensus::Params: the window's target timespan and its bounds.        *)
AveragingWindowTimespan == Window * Spacing
MinActualTimespan == (AveragingWindowTimespan * (100 - MaxAdjustUp)) \div 100
MaxActualTimespan == (AveragingWindowTimespan * (100 + MaxAdjustDown)) \div 100

(* C++ division of int64_t truncates toward zero.                         *)
CDiv(a, b) == IF a >= 0 THEN a \div b ELSE -((-a) \div b)

(* The number of bytes of n (arith_uint256::bits() rounded up to bytes).  *)
ByteSize(n) ==
    CHOOSE s \in 0 .. 34 : \/ s = 0 /\ n = 0
                           \/ s > 0 /\ n \div 256^(s - 1) \in 1 .. 255

(* Mutant: a mantissa with its top bit set is kept as it is.            *)
GetCompactNoSignShift(n) ==
    LET size0 == ByteSize(n)
        m0 == IF size0 <= 3 THEN n * 256^(3 - size0) ELSE n \div 256^(size0 - 3)
    IN  size0 * 2^24 + m0

(* GetCompact of a non-negative target: a size byte and a three-byte      *)
(* mantissa, truncated; a mantissa whose top bit is set would read as     *)
(* negative, so it is shifted one byte right and the size incremented.    *)
GetCompact(n) ==
    LET size0 == ByteSize(n)
        m0 == IF size0 <= 3 THEN n * 256^(3 - size0) ELSE n \div 256^(size0 - 3)
        big == m0 >= 2^23
        m == IF big THEN m0 \div 256 ELSE m0
        size == IF big THEN size0 + 1 ELSE size0
    IN  size * 2^24 + m

(* SetCompact: the target, the sign flag and the overflow flag of nBits.  *)
SetCompact(c) ==
    LET size == c \div 2^24
        word == c % 2^23
    IN  [value |-> IF size <= 3 THEN word \div 256^(3 - size)
                   ELSE word * 256^(size - 3),
         negative |-> word # 0 /\ (c \div 2^23) % 2 = 1,
         overflow |-> word # 0 /\ \/ size > 34
                                  \/ word > 255 /\ size > 33
                                  \/ word > 65535 /\ size > 32]

Target(c) == SetCompact(c).value

LimitBits == GetCompact(PowLimit)

(* CheckProofOfWork's range check on nBits (the hash comparison after it  *)
(* is not modelled).                                                      *)
BitsInRange(c) ==
    LET t == SetCompact(c)
    IN  ~t.negative /\ t.value # 0 /\ ~t.overflow /\ t.value <= PowLimit

(* IncreaseDifficultyBy: the target of nBits divided by a multiplier,     *)
(* capped at powLimit.                                                    *)
IncreaseDifficultyBy(bits, multiplier) ==
    LET t == Target(bits) \div multiplier
    IN  GetCompact(IF t > PowLimit THEN PowLimit ELSE t)

(* Mutant: the upper bound on the actual timespan is not applied.         *)
CalculateNoMaxBound(avg, lastTime, firstTime) ==
    LET damped == AveragingWindowTimespan
                  + CDiv(lastTime - firstTime - AveragingWindowTimespan, 4)
        actual == IF damped < MinActualTimespan THEN MinActualTimespan ELSE damped
        new == (avg \div AveragingWindowTimespan) * actual
    IN  GetCompact(IF new > PowLimit THEN PowLimit ELSE new)

(* CalculateNextWorkRequired: the median-time span of the window, damped  *)
(* by a quarter toward the target timespan and bounded; the average       *)
(* target is divided by the target timespan before it is multiplied by    *)
(* the actual one, and capped at powLimit.                                *)
CalculateNextWorkRequired(avg, lastTime, firstTime) ==
    LET damped == AveragingWindowTimespan
                  + CDiv(lastTime - firstTime - AveragingWindowTimespan, 4)
        lower == IF damped < MinActualTimespan THEN MinActualTimespan ELSE damped
        actual == IF lower > MaxActualTimespan THEN MaxActualTimespan ELSE lower
        new == (avg \div AveragingWindowTimespan) * actual
    IN  GetCompact(IF new > PowLimit THEN PowLimit ELSE new)

(* CBlockIndex::GetMedianTimePast of chain[k]: the (count / 2)-th         *)
(* smallest of the times of the last MedianSpan blocks up to it.          *)
MedianTimePast(c, k) ==
    LET S == {i \in 1 .. k : i > k - MedianSpan}
        j == Cardinality(S) \div 2
    IN  CHOOSE v \in {c[i].time : i \in S} :
            /\ Cardinality({i \in S : c[i].time < v}) <= j
            /\ Cardinality({i \in S : c[i].time <= v}) > j

(* The sum of the targets of chain[lo..hi], as the loop accumulates bnTot. *)
SumTargets(c, lo, hi) ==
    LET f[k \in lo - 1 .. hi] ==
            IF k < lo THEN 0 ELSE f[k - 1] + Target(c[k].bits)
    IN  f[hi]

(* The heights in the first nPowAveragingWindow blocks of an upgrade.      *)
InForkWindow(height, activation) ==
    height >= activation /\ height < activation + Window

(* The condition of the upgrade-fork rule, with the code's precedence:    *)
(* && binds tighter than ||.                                               *)
ForkRule(height) ==
    \/ ScaleAtFork /\ InForkWindow(height, DiffAdjHeight)
    \/ InForkWindow(height, ButtercupHeight)

(* The averaging rule of GetNextWorkRequired on a non-empty chain c: the  *)
(* loop walks Window blocks back from the tip; with no block before them  *)
(* it returns powLimit.                                                   *)
AveragedBits(c) ==
    LET n == Len(c)
    IN  IF n <= Window THEN LimitBits
        ELSE CalculateNextWorkRequired(SumTargets(c, n - Window + 1, n) \div Window,
                                       MedianTimePast(c, n),
                                       MedianTimePast(c, n - Window))

(* GetNextWorkRequired for a block with time t on top of chain c.          *)
GetNextWorkRequired(c, t) ==
    IF c = <<>> THEN LimitBits
    ELSE LET height == Len(c)
             gap == t - c[Len(c)].time
         IN  IF ForkRule(height) /\ gap > Spacing * 12 THEN LimitBits
             ELSE IF ForkRule(height) /\ gap > Spacing * 6
                  THEN IncreaseDifficultyBy(LimitBits, 128)
             ELSE IF ForkRule(height) /\ gap > Spacing * 2
                  THEN IncreaseDifficultyBy(LimitBits, 256)
             ELSE IF /\ MinDiffAfter # NoHeight
                     /\ height - 1 >= MinDiffAfter
                     /\ gap > Spacing * 6
                  THEN LimitBits
             ELSE AveragedBits(c)

(* Mutant: the final + 1 of the derivation is left out.                  *)
GetBlockProofNoIncrement(c) ==
    LET t == SetCompact(c)
    IN  IF t.negative \/ t.overflow \/ t.value = 0 THEN 0
        ELSE (Modulus - 1 - t.value) \div (t.value + 1)

(* GetBlockProof: the work of a block, 2^256 / (target + 1), computed as  *)
(* ~target / (target + 1) + 1 because 2^256 does not fit.                 *)
GetBlockProof(c) ==
    LET t == SetCompact(c)
    IN  IF t.negative \/ t.overflow \/ t.value = 0 THEN 0
        ELSE ((Modulus - 1 - t.value) \div (t.value + 1)) + 1

-----------------------------------------------------------------------------
Init == chain = <<>>

(* A block is mined and connected: its time is later than the median time *)
(* past of its parent, and its nBits is the required work.                 *)
MineBlock ==
    \E d \in Deltas :
        LET t == IF chain = <<>> THEN GenesisTime ELSE chain[Len(chain)].time + d
        IN  /\ chain # <<>> => t > MedianTimePast(chain, Len(chain))
            /\ chain' = Append(chain, [time |-> t, bits |-> GetNextWorkRequired(chain, t)])

Next == MineBlock

Spec == Init /\ [][Next]_chain

-----------------------------------------------------------------------------
(* The special rules of GetNextWorkRequired: a long gap in an upgrade's   *)
(* first window, or the testnet minimum-difficulty rule.                  *)
SpecialRule(c, t) ==
    LET height == Len(c)
        gap == t - c[Len(c)].time
    IN  \/ ForkRule(height) /\ gap > Spacing * 2
        \/ MinDiffAfter # NoHeight /\ height - 1 >= MinDiffAfter /\ gap > Spacing * 6

(* Every nBits the retarget gives a block passes CheckProofOfWork's range *)
(* check: the compact encoding of every computed target is non-negative,  *)
(* does not overflow, is not zero and is at most powLimit, so the chain   *)
(* never requires work its own validation rejects.                        *)
BitsAccepted == \A k \in 1 .. Len(chain) : BitsInRange(chain[k].bits)

(* "Limit adjustment step": a block retargeted by the averaging rule has a *)
(* target between MinActualTimespan / AveragingWindowTimespan and         *)
(* MaxActualTimespan / AveragingWindowTimespan times the average target   *)
(* of its window, up to the rounding of the division and of the compact   *)
(* encoding (less than one part in 2^15).                                  *)
AdjustmentLimited ==
    \A k \in Window + 2 .. Len(chain) :
        LET c == SubSeq(chain, 1, k - 1)
            avg == SumTargets(c, k - Window, k - 1) \div Window
            low == (avg \div AveragingWindowTimespan) * MinActualTimespan
            x == IF low > PowLimit THEN PowLimit ELSE low
            new == Target(chain[k].bits)
        IN  ~SpecialRule(c, chain[k].time) =>
                /\ new * AveragingWindowTimespan <= avg * MaxActualTimespan
                /\ new >= x - x \div 2^15

(* GetBlockProof's comment: ~target / (target + 1) + 1 equals             *)
(* 2^256 / (target + 1) for every target of the chain.                     *)
ChainWorkExact ==
    \A k \in 1 .. Len(chain) :
        GetBlockProof(chain[k].bits) = Modulus \div (Target(chain[k].bits) + 1)

(* The required work on a network without scaleDifficultyAtUpgradeFork:  *)
(* the minimum-difficulty and averaging rules only.                        *)
UnscaledBits(c, t) ==
    IF c = <<>> THEN LimitBits
    ELSE IF /\ MinDiffAfter # NoHeight
            /\ Len(c) - 1 >= MinDiffAfter
            /\ t - c[Len(c)].time > Spacing * 6
         THEN LimitBits
    ELSE AveragedBits(c)

(* scaleDifficultyAtUpgradeFork gates the upgrade-fork rule: on a network *)
(* without it every block's nBits is what the other rules give.           *)
ForkRuleNeedsScale ==
    ~ScaleAtFork =>
        \A k \in 1 .. Len(chain) :
            chain[k].bits = UnscaledBits(SubSeq(chain, 1, k - 1), chain[k].time)

=============================================================================
