\* A network without scaleDifficultyAtUpgradeFork, with the Buttercup
\* window at heights 5-7.
CONSTANTS
    PowLimit <- MCPowLimit
    Modulus <- MCModulus
    Window = 3
    Spacing = 20
    MaxAdjustUp = 16
    MaxAdjustDown = 32
    MedianSpan = 3
    ScaleAtFork = FALSE
    DiffAdjHeight = 100
    ButtercupHeight = 5
    MinDiffAfter = 7
    NoHeight = NoHeight
    GenesisTime = 0
    Deltas <- MCDeltas
SPECIFICATION Spec
CONSTRAINT ChainBound
INVARIANT ForkRuleNeedsScale
