\* Retarget over nine blocks: an upgrade window at heights 5-7 and the
\* minimum-difficulty rule from height 8.
CONSTANTS
    PowLimit <- MCPowLimit
    Modulus <- MCModulus
    Window = 3
    Spacing = 20
    MaxAdjustUp = 16
    MaxAdjustDown = 32
    MedianSpan = 3
    ScaleAtFork = TRUE
    DiffAdjHeight = 100
    ButtercupHeight = 5
    MinDiffAfter = 7
    NoHeight = NoHeight
    GenesisTime = 0
    Deltas <- MCDeltas
SPECIFICATION Spec
CONSTRAINT ChainBound
INVARIANT BitsAccepted
INVARIANT AdjustmentLimited
INVARIANT ChainWorkExact
