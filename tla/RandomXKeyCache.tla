--------------------------- MODULE RandomXKeyCache ---------------------------
(***************************************************************************)
(* The RandomX light cache of pow.cpp: the file-static key_block, cache    *)
(* and the two VMs (mining, validating), InitRandomXLightCache,            *)
(* KeyBlockChanged, CheckIfKeyShouldChange, DeallocateRandomXLightCache,   *)
(* GetKeyBlock with its function-static current_key_block, and            *)
(* CheckRandomXProofOfWork.  A block is named by its height in the active  *)
(* chain (no reorganisation).  Validation runs under cs_main, one call at  *)
(* a time; the miner thread holds the pointer GetMyMachineMining returned  *)
(* while it hashes, and no lock covers these statics.                      *)
(***************************************************************************)
EXTENDS Integers

CONSTANTS
    KeyChange,     \* KEY_CHANGE (2048)
    SwitchKey,     \* SWITCH_KEY (64)
    UIntRange,     \* 2^32, the range of uint32_t
    RandomXHeight, \* the first height validated with RandomX
    Ahead,         \* how far past the tip a header may be validated
    NoBlock        \* uint256(): no key block

ASSUME KeyCacheAssumption ==
    /\ KeyChange \in Nat \ {0} /\ SwitchKey \in Nat /\ UIntRange \in Nat \ {0}
    /\ RandomXHeight \in Nat /\ Ahead \in Nat \ {0} /\ NoBlock \notin Nat

VARIABLES
    height,    \* chainActive.Height()
    rx,        \* the statics of pow.cpp and GetKeyBlock's current_key_block
    minerVM,   \* the VM generation the miner thread is hashing with, or -1
    checked,   \* history: the last validation, for the properties
    minerUsed  \* history: the generation of the VM of the miner's last hash

vars == <<height, rx, minerVM, checked, minerUsed>>

(* fLightCacheInited, key_block, the generation of the cache and VMs (each *)
(* allocation is a new one, each release frees it), the key they were     *)
(* initialised with, and current_key_block.                               *)
Uninited == [inited |-> FALSE, keyBlock |-> NoBlock, gen |-> 0,
             vmKey |-> NoBlock, static |-> NoBlock]

-----------------------------------------------------------------------------
(* The hash of chainActive[h].                                             *)
BlockHash(h) == h

(* uint32_t arithmetic wraps.                                              *)
U(n) == n % UIntRange

(* GetKeyBlock(nHeight): past SWITCH_KEY blocks into a KEY_CHANGE period   *)
(* the key is the period's first block, before that the previous period's *)
(* first block; when the active chain does not reach that block the       *)
(* static keeps the value of the previous call, and a zero key becomes    *)
(* the genesis block.  The result is s.static.                             *)
GetKeyBlock(s, h) ==
    LET r == h % KeyChange
        first == U(h - r)
        second == U(h - KeyChange - r)
        found == IF h > U(h - r + SwitchKey)
                 THEN IF U(height) > first THEN BlockHash(first) ELSE s.static
                 ELSE IF U(height) > second THEN BlockHash(second) ELSE s.static
        key == IF found = NoBlock THEN BlockHash(0) ELSE found
    IN  [s EXCEPT !.static = key]

(* Allocate the cache and both VMs for key_block.                          *)
Allocate(s) ==
    [s EXCEPT !.gen = s.gen + 1, !.vmKey = s.keyBlock, !.inited = TRUE]

(* DeallocateRandomXLightCache: destroys both VMs and releases the cache   *)
(* if they were initialised.                                               *)
Deallocate(s) == [s EXCEPT !.inited = FALSE]

(* InitRandomXLightCache(height): nothing when initialised; otherwise the  *)
(* key block of the height and a fresh cache and VMs.                      *)
InitRandomXLightCache(s, h) ==
    IF s.inited THEN s
    ELSE LET s1 == GetKeyBlock(s, h)
         IN  Allocate([s1 EXCEPT !.keyBlock = s1.static])

(* Mutant: a new key block is recorded but the VMs are not re-created.     *)
KeyBlockChangedNoRealloc(s, k) == [s EXCEPT !.keyBlock = k]

(* KeyBlockChanged(new_block): records the key, tears down and re-creates  *)
(* the cache and both VMs.                                                 *)
KeyBlockChanged(s, k) == Allocate(Deallocate([s EXCEPT !.keyBlock = k]))

(* CheckIfKeyShouldChange(GetKeyBlock(h)).                                 *)
CheckIfKeyShouldChange(s, h) ==
    LET s1 == GetKeyBlock(s, h)
    IN  IF s1.static # s1.keyBlock THEN KeyBlockChanged(s1, s1.static) ELSE s1

-----------------------------------------------------------------------------
Init ==
    /\ height = 0
    /\ rx = Uninited
    /\ minerVM = -1
    /\ checked = [h |-> -1, key |-> NoBlock, vmKey |-> NoBlock, live |-> TRUE]
    /\ minerUsed = [gen |-> -1, live |-> TRUE]

(* A block is connected to the active chain.                               *)
ConnectBlock ==
    /\ height' = height + 1
    /\ UNCHANGED <<rx, minerVM, checked, minerUsed>>

(* CheckRandomXProofOfWork for a block at height h, at most Ahead past    *)
(* the tip: initialise if needed, switch the key if needed, then hash with   *)
(* the validating VM.                                                      *)
CheckRandomXProofOfWork(h) ==
    LET s1 == InitRandomXLightCache(rx, h)
        s2 == CheckIfKeyShouldChange(s1, h)
    IN  /\ rx' = s2
        /\ checked' = [h |-> h, key |-> s2.static, vmKey |-> s2.vmKey,
                       live |-> s2.inited]
        /\ UNCHANGED <<height, minerVM, minerUsed>>

(* The miner thread takes GetMyMachineMining() to hash a round of nonces.  *)
MinerTakeVM ==
    /\ rx.inited /\ minerVM = -1
    /\ minerVM' = rx.gen
    /\ UNCHANGED <<height, rx, checked, minerUsed>>

(* The miner hashes with the pointer it holds.                             *)
MinerHash ==
    /\ minerVM # -1
    /\ minerUsed' = [gen |-> minerVM, live |-> rx.inited /\ minerVM = rx.gen]
    /\ minerVM' = -1
    /\ UNCHANGED <<height, rx, checked>>

Next ==
    \/ ConnectBlock
    \/ \E h \in RandomXHeight .. height + Ahead : CheckRandomXProofOfWork(h)
    \/ MinerTakeVM
    \/ MinerHash

Spec == Init /\ [][Next]_vars


-----------------------------------------------------------------------------
(* A validation hashes with a live validating VM initialised with the key *)
(* GetKeyBlock gave for the block: InitRandomXLightCache and              *)
(* KeyBlockChanged keep key_block and the VMs in step.                    *)
KeyCacheFresh ==
    checked.h >= 0 => checked.live /\ checked.vmKey = checked.key

(* The miner never hashes with a VM that KeyBlockChanged has destroyed.    *)
MinerNoUseAfterFree == minerUsed.live

=============================================================================
