--------------------------- MODULE SnapshotAssembly --------------------------
(***************************************************************************)
(* The node's snapshot path across restarts: chunk files written by        *)
(* SaveChunk, CSnapshotStore::ExtractSnapshot into the data directory,     *)
(* VerifySnapshotUTXOHash and CleanupChunks (pow.cpp).                      *)
(* The caller that triggers extraction and verification and falls back to *)
(* full sync is not in src/ and is modelled from spec.md 4.6 and 6.  The   *)
(* download itself (SnapshotFetch) is abstracted to one save per chunk.    *)
(* The disk may fail writes and removals; the node may crash and be       *)
(* restarted.                                                              *)
(* InitSnapshotStore and CanServeSnapshots, the service gate, decide      *)
(* whether the node advertises NODE_SNAPSHOT.                              *)
(***************************************************************************)
EXTENDS Integers

CONSTANTS
    N,            \* chunks in the hard-coded manifest
    DiskCanFail,  \* writes and reads of the file system may fail
    CanCrash,     \* the node process may die while the live chainstate is empty
    CrashAfterTouch, \* ... and also once it holds data
    Listen        \* GetBoolArg("-listen", true)

ASSUME AssemblyAssumption ==
    /\ N \in Nat \ {0} /\ DiskCanFail \in BOOLEAN /\ CanCrash \in BOOLEAN
    /\ CrashAfterTouch \in BOOLEAN
    /\ Listen \in BOOLEAN

VARIABLES
    files,     \* snapshots/<height>/chunk-NNN.dat
    temp,      \* snapshots/<height>/snapshot-combined.tar.gz
    live,      \* the chainstate and blocks subtrees of the data directory
    mode,      \* where the node is on the snapshot path
    running,   \* whether the node process is up
    blockOK,   \* the archive's block at the checkpoint height has its hash
    utxo,      \* what the checkpoint says of the archive's UTXO set hash
    store      \* psnapshotstore: NULL, or a store and its manifest's size

vars == <<files, temp, live, mode, running, blockOK, utxo, store>>

Chunks == 0 .. N - 1
FileState == {"none", "good", "trunc"}
TempState == {"none", "partial", "full", "corrupt"}
LiveState == {"empty", "partial", "snapshot"}
Modes == {"download", "verify", "failed", "exited", "loaded", "fullsync"}

(* The checkpoint cases of VerifySnapshotUTXOHash: no checkpoint for the  *)
(* snapshot's height and block, a zero placeholder, or a hash that the    *)
(* archive's UTXO set matches or not.                                     *)
UTXOCases == {"none", "placeholder", "match", "mismatch"}

(* psnapshotstore is NULL, or points to a store whose manifest is the     *)
(* hard-coded one of N chunks, or is still the empty default manifest     *)
(* because Initialize returned before it loaded one.                      *)
NoStore == -1
StoreStates == {NoStore, 0, N}

-----------------------------------------------------------------------------
(* HasChunk: the file exists.                                             *)
HasChunk(c) == files[c] # "none"

(* The outcomes of SaveChunk for verified bytes: written, open failure,   *)
(* or a failed write it does not check.                                   *)
SaveResults == IF DiskCanFail THEN {"good", "none", "trunc"} ELSE {"good"}

(* The archive that concatenating the chunk files gives: ofstream::write  *)
(* is not checked, so a failed write corrupts it silently.                *)
Concatenated ==
    IF \A c \in Chunks : files[c] = "good" THEN
        IF DiskCanFail THEN {"full", "corrupt"} ELSE {"full"}
    ELSE {"corrupt"}

(* The node process may die in a state whose live chainstate is l.       *)
CrashesWith(l) == CanCrash /\ (l = "empty" \/ CrashAfterTouch)

(* ExtractSnapshot(dataDir): its results as [temp, live, ret], ret being  *)
(* its return value or "crash" when the process dies inside it.  Only the *)
(* existence of every chunk is checked; the combined archive is written,  *)
(* then "tar -xzf" runs with -C dataDir, which writes into the live       *)
(* subtrees as it goes and fails on a corrupt archive or a full disk,     *)
(* possibly before it wrote anything; the archive is removed only on      *)
(* success, and a remove that throws makes the call return false with the *)
(* snapshot already in place.                                             *)
ExtractOutcomes ==
    IF \E c \in Chunks : ~HasChunk(c)
    THEN {[temp |-> temp, live |-> live, ret |-> "false"]}
    ELSE LET
      written == IF DiskCanFail THEN {temp, "partial"} ELSE {}
      tarFails == {a \in Concatenated : a = "corrupt" \/ DiskCanFail}
      extracted == IF "full" \in Concatenated THEN {"snapshot"} ELSE {}
      returns ==
           {[temp |-> a, live |-> live, ret |-> "false"] : a \in written}
      \cup {[temp |-> a, live |-> l, ret |-> "false"] :
              a \in tarFails, l \in {live, "partial"}}
      \cup {[temp |-> "none", live |-> l, ret |-> "true"] : l \in extracted}
      \cup (IF DiskCanFail
            THEN {[temp |-> "full", live |-> l, ret |-> "false"] : l \in extracted}
            ELSE {})
      dies ==
           {[temp |-> "partial", live |-> live, ret |-> "crash"]}
      \cup {[temp |-> a, live |-> l, ret |-> "crash"] :
              a \in Concatenated, l \in {live, "partial"}}
      \cup {[temp |-> "full", live |-> l, ret |-> "crash"] : l \in extracted}
    IN returns \cup {o \in dies : CrashesWith(o.live)}

(* Mutant: a failed CalculateUTXOSetHash is not told apart from a        *)
(* passing comparison.                                                    *)
VerifyUTXOZeroSkips(calcOK) ==
    \/ utxo \in {"none", "placeholder"}
    \/ ~calcOK
    \/ utxo = "match"

(* VerifySnapshotUTXOHash: true when no checkpoint matches or the         *)
(* checkpoint holds the zero placeholder; otherwise CalculateUTXOSetHash  *)
(* (which returns the zero hash when pcoinsTip is NULL or GetStats fails) *)
(* must equal the checkpoint's hash.                                      *)
VerifySnapshotUTXOHash(calcOK) ==
    \/ utxo \in {"none", "placeholder"}
    \/ calcOK /\ utxo = "match"

(* CSnapshotStore::Initialize: create_directories may throw, and then it   *)
(* returns false with the default manifest; otherwise LoadManifest reads  *)
(* manifest.dat or the hard-coded manifest is used (and saved), either    *)
(* way the manifest of N chunks.  The sizes the store may end up with.    *)
InitializeOutcomes == IF DiskCanFail THEN {0, N} ELSE {N}

(* CanServeSnapshots: a store exists, HasChunk holds for every chunk of   *)
(* its manifest, and the node listens.                                     *)
CanServeSnapshots ==
    /\ store # NoStore
    /\ \A i \in 0 .. store - 1 : HasChunk(i)
    /\ Listen

(* CleanupChunks: remove_all of the snapshot directory.  When it throws   *)
(* part way (the catch returns false) any of the files may be left.      *)
CleanupChunks ==
    \/ /\ files' = [c \in Chunks |-> "none"]
       /\ temp' = "none"
    \/ /\ DiskCanFail
       /\ files' \in {f \in [Chunks -> FileState] :
                        \A c \in Chunks : f[c] \in {files[c], "none"}}
       /\ temp' \in {temp, "none"}

-----------------------------------------------------------------------------
Init ==
    /\ files = [c \in Chunks |-> "none"]
    /\ temp = "none"
    /\ live = "empty"
    /\ mode = "download"
    /\ running = TRUE
    /\ blockOK \in BOOLEAN
    /\ utxo \in UTXOCases
    /\ store = NoStore

(* InitSnapshotStore(nHeight): delete the old store, make a new one and   *)
(* Initialize it; the store is kept whatever Initialize returns.          *)
InitSnapshotStore ==
    /\ running
    /\ \E k \in InitializeOutcomes : store' = k
    /\ UNCHANGED <<files, temp, live, mode, running, blockOK, utxo>>

(* A chunk arrives from a peer and SaveChunk stores it.                   *)
FetchChunk(c) ==
    /\ running /\ mode = "download"
    /\ ~HasChunk(c)
    /\ \E f \in SaveResults : files' = [files EXCEPT ![c] = f]
    /\ UNCHANGED <<temp, live, mode, running, blockOK, utxo, store>>

(* All chunks present on a fresh data directory: ExtractSnapshot.         *)
Assemble ==
    /\ running /\ mode = "download"
    /\ \A c \in Chunks : HasChunk(c)
    /\ live = "empty"
    /\ \E o \in ExtractOutcomes :
         CASE o.ret = "true" ->
                /\ temp' = o.temp /\ live' = o.live /\ mode' = "verify"
                /\ UNCHANGED <<files, running>>
           [] o.ret = "false" ->
                /\ temp' = o.temp /\ live' = o.live /\ mode' = "failed"
                /\ UNCHANGED <<files, running>>
           [] o.ret = "crash" ->
                /\ temp' = o.temp /\ live' = o.live /\ running' = FALSE
                /\ UNCHANGED <<files, mode>>
    /\ store' = IF running' THEN store ELSE NoStore
    /\ UNCHANGED <<blockOK, utxo>>

(* ExtractSnapshot failed (StorageFatal): the extracted data and the      *)
(* chunks are deleted and the node falls back to full sync.               *)
Fallback ==
    /\ running /\ mode = "failed"
    /\ CleanupChunks /\ live' = "empty" /\ mode' = "fullsync"
    /\ UNCHANGED <<running, blockOK, utxo, store>>

(* Layer 2 (block hash) then layer 3 (VerifySnapshotUTXOHash).  Success:  *)
(* CleanupChunks and a clean exit for the restart; failure                *)
(* (VerificationFatal): chainstate and blocks removed, CleanupChunks,     *)
(* full sync.                                                             *)
Verify ==
    /\ running /\ mode = "verify"
    /\ \E calcOK \in BOOLEAN :
         IF blockOK /\ VerifySnapshotUTXOHash(calcOK)
         THEN /\ CleanupChunks /\ mode' = "exited" /\ running' = FALSE
              /\ UNCHANGED live
         ELSE /\ CleanupChunks /\ live' = "empty" /\ mode' = "fullsync"
              /\ UNCHANGED running
    /\ store' = IF running' THEN store ELSE NoStore
    /\ UNCHANGED <<blockOK, utxo>>

(* The process dies while downloading, verifying or before the fallback   *)
(* (a crash inside ExtractSnapshot is one of its outcomes).               *)
Crash ==
    /\ CrashesWith(live) /\ running
    /\ mode \in {"download", "verify", "failed"}
    /\ running' = FALSE
    /\ store' = NoStore
    /\ UNCHANGED <<files, temp, live, mode, blockOK, utxo>>

(* Start-up: an empty data directory starts the snapshot download again   *)
(* (the chunk files are kept); otherwise the chainstate on disk is loaded *)
(* normally.                                                              *)
Restart ==
    /\ ~running
    /\ running' = TRUE
    /\ mode' = IF live = "empty" THEN "download" ELSE "loaded"
    /\ UNCHANGED <<files, temp, live, blockOK, utxo, store>>

Next ==
    \/ \E c \in Chunks : FetchChunk(c)
    \/ Assemble
    \/ Fallback
    \/ Verify
    \/ Crash
    \/ Restart
    \/ InitSnapshotStore

Spec == Init /\ [][Next]_vars

-----------------------------------------------------------------------------
TypeOK ==
    /\ files \in [Chunks -> FileState]
    /\ temp \in TempState
    /\ live \in LiveState
    /\ mode \in Modes
    /\ running \in BOOLEAN
    /\ blockOK \in BOOLEAN
    /\ utxo \in UTXOCases
    /\ store \in StoreStates

(* The node only ever runs on a chainstate that is the complete snapshot, *)
(* whose block hash matched and whose UTXO hash no checkpoint             *)
(* contradicts: verification happens before the restart that loads it.   *)
LoadedOnlyVerified ==
    mode = "loaded" => live = "snapshot" /\ blockOK /\ utxo # "mismatch"

(* spec.md 8 invariant 6: ExtractSnapshot touches the live chainstate     *)
(* only when every chunk is present with verified bytes.                  *)
VerifiedBeforeTouch ==
    [][live = "empty" /\ live' # "empty" =>
         \A c \in Chunks : files[c] = "good"]_vars

(* spec.md 4.7: the node advertises NODE_SNAPSHOT only when every chunk   *)
(* of the compile-time manifest exists in its store; CanServeSnapshots    *)
(* checks the chunks of the store's manifest instead.                     *)
AdvertisesOnlyComplete ==
    CanServeSnapshots => \A c \in Chunks : HasChunk(c)

=============================================================================
