\* Validation of the next block or of any block below it, from height 2.
CONSTANTS
    KeyChange = 4
    SwitchKey = 1
    UIntRange = 65536
    RandomXHeight = 2
    Ahead = 1
    NoBlock = NoBlock
SPECIFICATION Spec
CONSTRAINT HeightBound
INVARIANT KeyCacheFresh
