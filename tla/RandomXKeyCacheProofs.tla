------------------------ MODULE RandomXKeyCacheProofs ------------------------
(***************************************************************************)
(* Proofs about RandomXKeyCache for every key period, switch offset and    *)
(* integer width: the validating VM always matches key_block, so every     *)
(* validation hashes with a live VM built from the key it was given.       *)
(***************************************************************************)
EXTENDS RandomXKeyCache, TLAPS

(* While the cache is initialised, the VMs were built from key_block;     *)
(* InitRandomXLightCache and KeyBlockChanged set both together.          *)
CacheInv ==
    /\ rx.inited => rx.vmKey = rx.keyBlock
    /\ KeyCacheFresh

(* After InitRandomXLightCache the cache is initialised and in step.     *)
LEMMA InitCacheInStep ==
    ASSUME NEW s, NEW h, s.inited => s.vmKey = s.keyBlock
    PROVE  LET s1 == InitRandomXLightCache(s, h)
           IN  s1.inited /\ s1.vmKey = s1.keyBlock
BY DEF InitRandomXLightCache, Allocate, GetKeyBlock

(* After CheckIfKeyShouldChange on an initialised cache in step, the      *)
(* cache is initialised, in step, and its key is the one GetKeyBlock      *)
(* returned.                                                             *)
LEMMA KeyChangeInStep ==
    ASSUME NEW s, NEW h, s.inited, s.vmKey = s.keyBlock
    PROVE  LET s2 == CheckIfKeyShouldChange(s, h)
           IN  /\ s2.inited /\ s2.vmKey = s2.keyBlock
               /\ s2.static = s2.keyBlock
BY DEF CheckIfKeyShouldChange, KeyBlockChanged, Allocate, Deallocate, GetKeyBlock

LEMMA InitCacheInv == Init => CacheInv
BY DEF Init, CacheInv, KeyCacheFresh, Uninited

LEMMA NextCacheInv == CacheInv /\ [Next]_vars => CacheInv'
<1>. SUFFICES ASSUME CacheInv, [Next]_vars PROVE CacheInv'
    OBVIOUS
<1>1. CASE ConnectBlock
    BY <1>1 DEF ConnectBlock, CacheInv, KeyCacheFresh
<1>2. ASSUME NEW h \in RandomXHeight .. height + Ahead,
             CheckRandomXProofOfWork(h)
      PROVE  CacheInv'
    <2>. DEFINE s1 == InitRandomXLightCache(rx, h)
                s2 == CheckIfKeyShouldChange(s1, h)
    <2>1. s1.inited /\ s1.vmKey = s1.keyBlock
        BY InitCacheInStep DEF CacheInv
    <2>2. s2.inited /\ s2.vmKey = s2.keyBlock /\ s2.static = s2.keyBlock
        BY <2>1, KeyChangeInStep
    <2>3. rx' = s2 /\ checked' = [h |-> h, key |-> s2.static,
                                  vmKey |-> s2.vmKey, live |-> s2.inited]
        BY <1>2 DEF CheckRandomXProofOfWork
    <2>4. QED
        BY <2>2, <2>3 DEF CacheInv, KeyCacheFresh
<1>3. CASE MinerTakeVM
    BY <1>3 DEF MinerTakeVM, CacheInv, KeyCacheFresh
<1>4. CASE MinerHash
    BY <1>4 DEF MinerHash, CacheInv, KeyCacheFresh
<1>5. CASE UNCHANGED vars
    BY <1>5 DEF vars, CacheInv, KeyCacheFresh
<1>6. QED
    BY <1>1, <1>2, <1>3, <1>4, <1>5 DEF Next

(* CheckRandomXProofOfWork always hashes with a live validating VM whose  *)
(* key is the key block GetKeyBlock returned for the block.              *)
THEOREM KeyCacheFreshHolds == Spec => []KeyCacheFresh
<1>1. CacheInv => KeyCacheFresh
    BY DEF CacheInv
<1>2. QED
    BY <1>1, InitCacheInv, NextCacheInv, PTL DEF Spec

=============================================================================
