\* The miner thread hashing while blocks are validated.
CONSTANTS
    KeyChange = 4
    SwitchKey = 1
    UIntRange = 65536
    RandomXHeight = 2
    Ahead = 1
    NoBlock = NoBlock
SPECIFICATION Spec
CONSTRAINT HeightBound
INVARIANT MinerNoUseAfterFree
