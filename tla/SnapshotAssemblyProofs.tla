----------------------- MODULE SnapshotAssemblyProofs ------------------------
(***************************************************************************)
(* Proofs about SnapshotAssembly for every number of chunks: the type      *)
(* invariant, and that a node whose crashes all fall while the live       *)
(* chainstate is empty only loads a verified snapshot, whatever the disk  *)
(* does.                                                                  *)
(***************************************************************************)
EXTENDS SnapshotAssembly, TLAPS

USE AssemblyAssumption

(* Every outcome of ExtractSnapshot is typed.                             *)
LEMMA ExtractOutcomesType ==
    ASSUME temp \in TempState, live \in LiveState
    PROVE  ExtractOutcomes \subseteq
               [temp : TempState, live : LiveState, ret : {"true", "false", "crash"}]
<1>1. Concatenated \subseteq TempState
    BY DEF Concatenated, TempState
<1>2. QED
    BY <1>1 DEF ExtractOutcomes, TempState, LiveState

LEMMA InitTypeOK == Init => TypeOK
BY DEF Init, TypeOK, FileState, TempState, LiveState, Modes, StoreStates

LEMMA NextTypeOK == TypeOK /\ [Next]_vars => TypeOK'
<1>. SUFFICES ASSUME TypeOK, [Next]_vars PROVE TypeOK'
    OBVIOUS
<1>1. ASSUME NEW c \in Chunks, FetchChunk(c) PROVE TypeOK'
    BY <1>1 DEF FetchChunk, SaveResults, TypeOK, FileState
<1>2. CASE Assemble
    <2>1. PICK o \in ExtractOutcomes :
             CASE o.ret = "true" ->
                    /\ temp' = o.temp /\ live' = o.live /\ mode' = "verify"
                    /\ UNCHANGED <<files, running>>
               [] o.ret = "false" ->
                    /\ temp' = o.temp /\ live' = o.live /\ mode' = "failed"
                    /\ UNCHANGED <<files, running>>
               [] o.ret = "crash" ->
                    /\ temp' = o.temp /\ live' = o.live /\ running' = FALSE
                    /\ UNCHANGED <<files, mode>>
        BY <1>2 DEF Assemble
    <2>2. o \in [temp : TempState, live : LiveState, ret : {"true", "false", "crash"}]
        BY <2>1, ExtractOutcomesType DEF TypeOK
    <2>3. QED
        BY <1>2, <2>1, <2>2 DEF Assemble, TypeOK, Modes, StoreStates
<1>3. CASE Fallback
    BY <1>3 DEF Fallback, CleanupChunks, TypeOK, FileState, TempState,
                LiveState, Modes
<1>4. CASE Verify
    BY <1>4 DEF Verify, CleanupChunks, TypeOK, FileState, TempState,
                LiveState, Modes, StoreStates
<1>5. CASE Crash
    BY <1>5 DEF Crash, TypeOK, StoreStates
<1>6. CASE Restart
    BY <1>6 DEF Restart, TypeOK, Modes
<1>7. CASE UNCHANGED vars
    BY <1>7 DEF vars, TypeOK
<1>8. CASE InitSnapshotStore
    BY <1>8 DEF InitSnapshotStore, InitializeOutcomes, TypeOK, StoreStates
<1>9. QED
    BY <1>1, <1>2, <1>3, <1>4, <1>5, <1>6, <1>7, <1>8 DEF Next

(* The type invariant holds in every reachable state.                     *)
THEOREM AssemblyTypeCorrect == Spec => []TypeOK
BY InitTypeOK, NextTypeOK, PTL DEF Spec

-----------------------------------------------------------------------------
(* LoadedOnlyVerified with what keeps it when the node only crashes with *)
(* an empty live chainstate: the data directory is empty until            *)
(* ExtractSnapshot succeeds, holds the snapshot while it is verified, and *)
(* a stopped node either exited after verification passed or left the    *)
(* data directory empty, so that its restart downloads again.             *)
VerifiedInv ==
    /\ mode \in {"download", "fullsync"} => live = "empty"
    /\ mode = "verify" => live = "snapshot"
    /\ mode \in {"exited", "loaded"} =>
          live = "snapshot" /\ blockOK /\ utxo # "mismatch"
    /\ ~running => mode = "exited" \/ live = "empty"

(* ExtractSnapshot returns true only with the snapshot in place, and      *)
(* without crashes after the chainstate is touched, a crash inside it     *)
(* leaves the chainstate empty.                                           *)
LEMMA ExtractOutcome ==
    ASSUME ~CrashAfterTouch, live = "empty", NEW o \in ExtractOutcomes
    PROVE  /\ o.ret \in {"true", "false", "crash"}
           /\ o.ret = "true" => o.live = "snapshot"
           /\ o.ret = "crash" => o.live = "empty"
BY DEF ExtractOutcomes, CrashesWith

(* VerifySnapshotUTXOHash passes only when no checkpoint contradicts.     *)
LEMMA VerifyPasses ==
    ASSUME NEW calcOK, VerifySnapshotUTXOHash(calcOK)
    PROVE  utxo # "mismatch"
BY DEF VerifySnapshotUTXOHash

LEMMA NextVerified ==
    ASSUME ~CrashAfterTouch
    PROVE  TypeOK /\ VerifiedInv /\ [Next]_vars => VerifiedInv'
<1>. SUFFICES ASSUME TypeOK, VerifiedInv, [Next]_vars PROVE VerifiedInv'
    OBVIOUS
<1>. USE DEF VerifiedInv
<1>1. ASSUME NEW c \in Chunks, FetchChunk(c) PROVE VerifiedInv'
    BY <1>1 DEF FetchChunk
<1>2. CASE Assemble
    <2>1. PICK o \in ExtractOutcomes :
             CASE o.ret = "true" ->
                    /\ temp' = o.temp /\ live' = o.live /\ mode' = "verify"
                    /\ UNCHANGED <<files, running>>
               [] o.ret = "false" ->
                    /\ temp' = o.temp /\ live' = o.live /\ mode' = "failed"
                    /\ UNCHANGED <<files, running>>
               [] o.ret = "crash" ->
                    /\ temp' = o.temp /\ live' = o.live /\ running' = FALSE
                    /\ UNCHANGED <<files, mode>>
        BY <1>2 DEF Assemble
    <2>2. /\ o.ret \in {"true", "false", "crash"}
          /\ o.ret = "true" => o.live = "snapshot"
          /\ o.ret = "crash" => o.live = "empty"
        BY <1>2, ExtractOutcome DEF Assemble
    <2>3. CASE o.ret = "true"
        BY <1>2, <2>1, <2>2, <2>3 DEF Assemble
    <2>4. CASE o.ret = "false"
        BY <1>2, <2>1, <2>4 DEF Assemble
    <2>5. CASE o.ret = "crash"
        BY <1>2, <2>1, <2>2, <2>5 DEF Assemble
    <2>6. QED
        BY <2>2, <2>3, <2>4, <2>5
<1>3. CASE Fallback
    BY <1>3 DEF Fallback
<1>4. CASE Verify
    <2>1. PICK calcOK \in BOOLEAN :
             IF blockOK /\ VerifySnapshotUTXOHash(calcOK)
             THEN /\ CleanupChunks /\ mode' = "exited" /\ running' = FALSE
                  /\ UNCHANGED live
             ELSE /\ CleanupChunks /\ live' = "empty" /\ mode' = "fullsync"
                  /\ UNCHANGED running
        BY <1>4 DEF Verify
    <2>2. CASE blockOK /\ VerifySnapshotUTXOHash(calcOK)
        <3>1. utxo # "mismatch"
            BY <2>2, VerifyPasses
        <3>2. QED
            BY <1>4, <2>1, <2>2, <3>1 DEF Verify
    <2>3. CASE ~(blockOK /\ VerifySnapshotUTXOHash(calcOK))
        BY <1>4, <2>1, <2>3 DEF Verify
    <2>4. QED
        BY <2>2, <2>3
<1>5. CASE Crash
    BY <1>5 DEF Crash, CrashesWith
<1>6. CASE Restart
    BY <1>6 DEF Restart
<1>7. CASE UNCHANGED vars
    BY <1>7 DEF vars
<1>8. CASE InitSnapshotStore
    BY <1>8 DEF InitSnapshotStore
<1>9. QED
    BY <1>1, <1>2, <1>3, <1>4, <1>5, <1>6, <1>7, <1>8 DEF Next

(* A node that crashes only while its live chainstate is empty, on any    *)
(* disk, only loads a complete snapshot whose block hash matched and      *)
(* whose UTXO hash no checkpoint contradicts: verification and cleanup    *)
(* run before the restart that loads it, and a restart over an empty     *)
(* directory downloads again.                                             *)
THEOREM LoadedOnlyVerifiedEarlyCrash ==
    ~CrashAfterTouch => (Spec => []LoadedOnlyVerified)
<1>. SUFFICES ASSUME ~CrashAfterTouch PROVE Spec => []LoadedOnlyVerified
    OBVIOUS
<1>1. Init => VerifiedInv
    BY DEF Init, VerifiedInv
<1>2. VerifiedInv => LoadedOnlyVerified
    BY DEF VerifiedInv, LoadedOnlyVerified
<1>3. TypeOK /\ VerifiedInv /\ [Next]_vars => VerifiedInv'
    BY NextVerified
<1>4. QED
    BY <1>1, <1>2, <1>3, AssemblyTypeCorrect, PTL DEF Spec

=============================================================================
