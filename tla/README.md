# TLA+ models of the Zclassic snapshot bootstrap

This directory holds TLA+ models of the chunked-snapshot bootstrap subsystem of
zclassic: `src/src/pow.cpp` (lines 380-2580) and its header
`src/unnamed/part_004`. They come with TLC configurations for small instances
and TLAPS proofs for every instance. Two further modules cover the
proof-of-work code at the top of `pow.cpp` (lines 22-351): the difficulty
retarget and the RandomX key cache.

## The system

A node can fetch a snapshot of the chain state from peers instead of doing a
full sync. The snapshot is a tarball split into numbered chunks. Each chunk has
a size and a SHA-256 digest, and the chunk list is compiled into the binary.
The subsystem has these parts:

| Part | Code | State | Operations |
|---|---|---|---|
| Manifest | `CSnapshotManifest` | constant chunk list | `IsValid` (pure) |
| DownloadState | `CSnapshotDownloadState` | `mapChunksReceived`, `mapChunkRequests` | `MarkChunkReceived`, `RecordChunkRequest`, `GetNextChunkToRequest`, `IsComplete` |
| DownloadCoordinator | `CSnapshotDownloadCoordinator` | `mapPeerStates` (last request, consecutive failures, backoff), `mapChunkToNode` | `SelectPeerForNextChunk`, `RecordRequest`, `RecordSuccess`, `RecordFailure`, `GetTimedOutRequests`, `RemovePeer` |
| ChunkStore | `CSnapshotStore` | `chunk-NNN.dat` files, the manifest | `Initialize`, `SaveChunk` and `VerifyChunk`, `LoadChunk`, `ExtractSnapshot`, `CleanupChunks` |
| RateLimiter | `CSnapshotRateLimiter` | `mapPeerRequests` (request window, served stamps, ban), `nActiveTransfers` | `AllowRequest`, `RecordServed`, `CompleteTransfer`, `Cleanup`, `IsBanned` |
| Verifier | `VerifySnapshotUTXOHash`, `CalculateUTXOSetHash` | none | pure check after extraction |
| Service gate | `InitSnapshotStore`, `CanServeSnapshots` | `psnapshotstore` | decides whether the node advertises `NODE_SNAPSHOT` |

The parts interact as follows:
- The fetching node's loop asks the coordinator for a peer, records the request
  and sends a GetChunk.
- The serving node's handler asks its rate limiter to admit the request, loads
  the chunk, replies, then calls `RecordServed` and `CompleteTransfer`.
- The fetching node's reply handler checks that the reply matches a request in
  flight. It then saves the chunk, which verifies the digest, marks it received
  and reports success or failure to the coordinator.
- The fetch loop periodically reaps requests that have timed out.
- A disconnect calls `RemovePeer`.
- None of the handlers or the loop are under `src/`. They are modelled from
  spec.md 4.5 and marked `spec_modelled` in `PROJECT.json`.

The behaviours that are hard to test are these:
- replies, timeouts and disconnects that interleave;
- late replies to chunks that were already reaped;
- disk writes that fail;
- a second request for a chunk that arrives while the first transfer of it is
  still running;
- the counters and windows at their limits.

## Modules

### `SnapshotFetch`: the fetching side

This module models DownloadState, DownloadCoordinator and `SaveChunk`.

State:

| Variable | Models |
|---|---|
| `received` | `mapChunksReceived` |
| `reqAt` | `mapChunkRequests` |
| `stored` | the chunk files |
| `peerState` | `mapPeerStates`, as a total function whose default record stands for an absent entry |
| `chunkToNode` | `mapChunkToNode` |
| `connected` | the peers still connected |
| `requests`, `replies` | the messages in transit, as sets, so they can be delayed and reordered |

Actions:
- **RequestChunk** is `SelectPeerForNextChunk` with all its early returns, then
  `RecordRequest` and `RecordChunkRequest`. The tie-break keeps any peer of
  least `nLastRequestTime`, because the vector's order is the connection order.
- **Serve** and **Ignore**: the peer answers or the message is lost. A faulty
  peer may send corrupt bytes.
- **ReceiveChunk** is the snapchunk handler. `SaveChunk` is modelled by its
  possible outcomes:
  - verification rejects bad bytes, and nothing is written;
  - the file fails to open;
  - the write fails silently, leaving a short file and returning true.
  After saving, the handler calls `MarkChunkReceived` and `RecordSuccess`, or
  `RecordFailure`.
- **GetTimedOutRequests** reaps the expired requests, then applies
  `RecordFailure` to each one. Like the code, it skips a chunk whose peer has
  no `mapPeerStates` entry; since `RemovePeer` erases the entry, those are the
  chunks of peers no longer connected.
- **RemovePeer** handles a disconnect.
- **Tick** advances the clock.

`Fairness` makes the node's own steps weakly fair: `Tick`, the request step
of the fetch loop, the reply handler and the reaper. The fetch loop runs again
and again and the handler processes every message, so a step that stays
possible is eventually taken; the clock always advances. Peers get no
fairness: they may stay silent, answer wrongly or disconnect. `FairSpec` is
`Spec /\ Fairness`.

`Order == INSTANCE DownloadOrder WITH have <- received` is the refinement
mapping to the abstract download of `DownloadOrder`. That module has one
variable, the set of accepted chunks, and one action, which adds the
smallest chunk not yet accepted. `AcceptsInOrder` is its `Spec`, checked as a
property of `FairSpec` and proved for every instance.

Two simplifications:
- The consecutive-failure count is capped at 4. The backoff is the same for
  every count of at least 4.
- Statistics and logging are left out.

### `SnapshotRateLimiter`: the serving side

This module models `CSnapshotRateLimiter` and the handler that calls it.

State:

| Variable | Models |
|---|---|
| `info` | `mapPeerRequests`, with the default record for an absent entry (every method treats the two alike) |
| `active` | `nActiveTransfers` |
| `serving` | the transfers that were admitted and are not yet completed |
| `admitted` | a history of every admission, kept for the properties |

Actions:
- **AllowRequest** follows the function's checks in the code's order:
  1. the ban, and lifting an expired ban, which clears the window;
  2. the capacity check;
  3. the "too fast" check;
  4. the duplicate check;
  5. the pruning loop (`PruneOld` removes the longest prefix of entries older
     than the window, as the `pop_front` loop does);
  6. the rate check and the ban;
  7. admission.

  Each early return keeps what the steps before it wrote.
- **FinishTransfer** ends a transfer. `RecordServed` stamps the chunk only if
  it was sent. `CompleteTransfer` releases the slot and never goes below zero.
- **Cleanup** removes peers that have been idle.
- **Tick** advances the clock.

The limits are constants, because `SetLimits` is never called. The hourly byte
counter is left out.

`SnapshotRateLimiterAbuse` adds a history of every request, rejected ones
included, and keeps it only for the window. It exists to state spec.md's S3.

### `SnapshotAssembly`: extraction, verification and restarts

This module models the node's path from chunk files to a loaded chainstate,
across crashes. `CSnapshotStore::ExtractSnapshot`, `CleanupChunks`,
`VerifySnapshotUTXOHash` and `CalculateUTXOSetHash` are in `pow.cpp`. Their
caller, which verifies, cleans up and falls back to full sync, is not in
`src/`; it is modelled from spec.md 4.6 and marked `spec_modelled`.

State:

| Variable | Models |
|---|---|
| `files` | each `chunk-NNN.dat`: absent, verified bytes, or truncated by a failed write |
| `temp` | `snapshot-combined.tar.gz` |
| `live` | the `chainstate` and `blocks` subtrees of the data directory |
| `mode`, `running` | where the node is on the snapshot path, and whether the process is up |
| `blockOK`, `utxo` | what the checkpoint says of this archive, chosen in Init |
| `store` | `psnapshotstore`: NULL (`NoStore`), or the size of its manifest (N, or 0 for the default manifest) |

Actions:
- **FetchChunk** is one `SaveChunk` per chunk (the download itself is
  `SnapshotFetch`).
- **Assemble** is `ExtractSnapshot` on a fresh data directory.
  `ExtractOutcomes` lists what it can leave behind:
  - a missing chunk: false, nothing touched;
  - the archive not created or a chunk not loaded: false;
  - tar failing on a corrupt archive or a full disk: false, with the live
    subtrees half written or not yet touched, and the archive left;
  - success: the archive removed;
  - success of tar, then `remove(tempFile)` throwing: false, with the whole
    snapshot in the live directory and the archive left;
  - a crash while concatenating, inside tar, or after it. `CrashesWith`
    says where the process may die: `CanCrash` allows crashes while the live
    chainstate is empty, and `CrashAfterTouch` also allows them once it holds
    data.

  Only `HasChunk` is checked, and `LoadChunk` does not verify, so a truncated
  chunk gives a corrupt archive.
- **Verify** is the block-hash check, then `VerifySnapshotUTXOHash`. A
  placeholder or a missing checkpoint passes. A failed hash calculation
  returns zero and fails the comparison. On success the chunks are removed and
  the node exits for a restart. On failure the live data and chunks are
  removed and the node falls back to full sync.
- **Fallback** handles an extraction failure: the live data is removed,
  `CleanupChunks` runs and the node goes to full sync.
- `CleanupChunks` is `remove_all` of the snapshot directory. When the disk
  can fail, it may throw part way (the catch returns false). It then leaves
  any part of the chunk files and the archive behind.
- **Crash** and **Restart**. A restart on an empty data directory resumes the
  download, keeping the chunk files; otherwise it loads what is on disk. The
  store lives in the process's memory: every crash or exit sets it to NULL.
- **InitSnapshotStore** replaces the store by a new one and runs
  `Initialize`. If `create_directories` throws, `Initialize` returns false
  before a manifest is loaded, and the store keeps the empty default
  manifest. Otherwise `LoadManifest` or the hard-coded manifest gives N
  chunks. `InitSnapshotStore` keeps the store whatever `Initialize` returns.

`CanServeSnapshots` is an operator: a store exists, `HasChunk` holds for every
chunk of the store's manifest, and the node listens (the constant `Listen`).

### `PowDifficulty`: the difficulty retarget

This module models `GetNextWorkRequired` (pow.cpp 103-170),
`CalculateNextWorkRequired` (231-270), `IncreaseDifficultyBy` (92-101),
the range check of `CheckProofOfWork` (317-327) and `GetBlockProof`
(336-349). The only variable is `chain`, a sequence of blocks with a time and
an nBits. The single action **MineBlock** appends a block:
- its time is the parent's time plus an offset from `Deltas`, and must be
  later than the parent's median time past;
- its nBits is whatever `GetNextWorkRequired` returns for that time.

Within `GetNextWorkRequired`, each rule is one operator:
- the upgrade-fork levels, with the code's operator precedence (`ForkRule`);
- the minimum-difficulty rule;
- the averaging window (`AveragedBits` and `SumTargets`, which accumulate
  bnTot as the loop does);
- `CalculateNextWorkRequired`'s damping with C++ truncating division, its
  two clamps, the divide-then-multiply, and the cap at powLimit.

Targets are naturals. No arith_uint256 overflow happens, because a window's
sum is at most `Window * powLimit`. nBits is the compact format: `SetCompact`
and `GetCompact` are modelled by what they do, including the sign flag, the
overflow flag and the shift of a mantissa whose top bit is set.
`GetMedianTimePast` (in chain.h) is modelled as the middle element of the
last `MedianSpan` times.

### `RandomXKeyCache`: the RandomX light cache

This module models the file statics of pow.cpp 22-86 and `GetKeyBlock`
(175-196) with its function-static `current_key_block`. It also models
`CheckRandomXProofOfWork` (198-230).

State:

| Variable | Models |
|---|---|
| `rx` | the cache record |
| `height` | `chainActive.Height()` |
| `minerVM` | the VM generation the miner thread holds, taken through `GetMyMachineMining` |
| `checked`, `minerUsed` | the last validation and the miner's last hash (history only) |

The `rx` record has these fields:
- `inited`: `fLightCacheInited`;
- `keyBlock`: `key_block`;
- `gen`: a generation number for the cache and VMs, which each allocation
  increments;
- `vmKey`: the key the VMs were built with;
- `static`: `current_key_block`.

A block is named by its height, so `BlockHash(h) == h`. The uint32_t
arithmetic of `GetKeyBlock` wraps (`U`).

Actions:
- **ConnectBlock** grows the active chain.
- **CheckRandomXProofOfWork(h)** validates a block at any height from
  `RandomXHeight` to `Ahead` past the tip. In order it runs:
  1. `InitRandomXLightCache` if the cache is not initialised;
  2. `CheckIfKeyShouldChange(GetKeyBlock(h))`, whose `KeyBlockChanged`
     tears down and rebuilds the cache and both VMs;
  3. a hash with the validating VM.

  Validation runs under cs_main, one call at a time.
- **MinerTakeVM** and **MinerHash**: the miner thread (not in `src/`) takes
  the mining VM's pointer and later hashes with it. No lock covers the
  statics.

## Runs

| Run | Checks | Result |
|---|---|---|
| fetch_safety | SequentialDownload, ReceivedAreStored, TimeoutFromOwnRequest, InFlightReleased, AcceptsInOrder, under `FairSpec` | pass, 390k states |
| limiter_safety | SlotAccounting, PerPeerRate, with bans reachable | pass, 395k states |
| limiter_duplicate | NoDuplicateServe | violation |
| limiter_abuse | AbuseIsBanned (S3) | violation |
| assembly_safety | LoadedOnlyVerified, with disk failures and crashes while the live chainstate is empty | pass, 2.0k states |
| assembly_crash | LoadedOnlyVerified with crashes anywhere | violation |
| assembly_disk | VerifiedBeforeTouch with disk failures | violation |
| gate_advertise | AdvertisesOnlyComplete with disk failures | violation |
| pow_retarget | BitsAccepted, AdjustmentLimited, ChainWorkExact | pass, 209k states |
| pow_unscaled | ForkRuleNeedsScale, without scaleDifficultyAtUpgradeFork | violation |
| randomx_cache | KeyCacheFresh | pass, 5.7k states |
| randomx_miner | MinerNoUseAfterFree | violation |

What the properties say:
- **SequentialDownload**: the only chunk ever in flight is the smallest missing
  one. `SelectPeerForNextChunk` gives up when `GetNextChunkToRequest`'s chunk
  is already in flight, so the 12-way concurrency in the header never happens.
  This is recorded as a finding.
- **ReceivedAreStored** (spec invariant 1): every chunk counted received is on
  disk with verified bytes. It holds while the disk does not fail, which is
  how fetch_safety runs. When writes can fail, the unchecked
  `ofstream::write` breaks it: a truncated file is counted received. The run
  assembly_disk follows such a file into extraction.
- **TimeoutFromOwnRequest**: the reaper measures a chunk's age from the owning
  peer's `nLastRequestTime`. This property states that this time is the
  chunk's own request time. It holds only because downloads are sequential.
- **InFlightReleased** (liveness): every chunk in flight eventually leaves
  `mapChunkToNode`. A chunk that stayed would block the download for good,
  because `SelectPeerForNextChunk` returns -1 while the next chunk is in
  flight. It relies on the clock and the reaper being fair, and on the
  reaper finding the peer's state: a `RemovePeer` that erased the state but
  left the chunk would violate it (its mutant).
- **AcceptsInOrder** (refinement): `mapChunksReceived` grows one chunk at a
  time, always by the smallest missing chunk, though replies arrive in any
  order and from any peer.
- **SlotAccounting** (spec invariant 2): `nActiveTransfers` equals the number
  of transfers in progress and stays at or below the capacity.
- **PerPeerRate** (spec invariant 3): for every past second `t`, a peer has at
  most the per-minute limit of admissions in `[t - window, t]`. This must hold
  across pruning, the ban lift and Cleanup.
- **NoDuplicateServe** (spec 5): it is violated, because `servedChunks` is only
  stamped after the transfer.
- **AbuseIsBanned** (S3): it is violated, because the request window cannot
  grow past the per-minute limit (30), so it never reaches the ban threshold
  (100).
- **LoadedOnlyVerified**: the node loads only a complete snapshot whose block
  hash matched and whose UTXO hash no checkpoint contradicts. assembly_safety
  checks it with every disk failure: chunk writes, tar, `remove(tempFile)` and
  `remove_all`. It also lets the process die wherever the live chainstate is
  still empty (during the download, while concatenating, and in a tar that
  wrote nothing), and the restart then downloads again over the kept chunk
  files. Under those conditions it holds, and `LoadedOnlyVerifiedEarlyCrash`
  proves it for every chunk count. Its mutant treats a failed
  `CalculateUTXOSetHash` as a passing comparison. With crashes after tar has
  written (assembly_crash) it is violated: tar writes into the live directory,
  so a crash before verification leaves a tree that the next start loads.
  spec.md 8 invariant 7 (no files left after a VerificationFatal outcome) is
  not checked. `remove_all` can throw part way, and what the caller does with
  the false return is not in `src/`; this is listed as a hazard
  (pow.cpp:814).
- **VerifiedBeforeTouch** (spec invariant 6, an action property): the live
  directory changes from empty only when every chunk file holds verified
  bytes. It is violated when the disk can fail, because extraction checks only
  that the files exist.
- **AdvertisesOnlyComplete** (spec 4.7): the node advertises `NODE_SNAPSHOT`
  only when every chunk of the compile-time manifest exists. It is violated:
  when the snapshot directory cannot be created, `InitSnapshotStore` keeps a
  store with an empty manifest, and `CanServeSnapshots`' loop over zero
  chunks returns true.
- **BitsAccepted**: every nBits the retarget gives passes `CheckProofOfWork`'s
  range check. Otherwise the chain would require work that its own
  validation rejects. The sign shift of `GetCompact` is what makes it hold
  on the run's chains. It does not hold on every chain. `bnNew /=
  averagingWindowTimespan` truncates to zero once the window's average
  target is below the timespan in seconds. `GetCompact(0)` is 0, which the
  range check rejects, and the code has no guard against it. A long enough
  run of fast blocks reaches this, because each retarget may cut the target
  by 16%. With powLimit `2^16 - 1`, a single 1 s miner offset and 80 blocks,
  TLC finds BitsAccepted violated at block 70. With the deployed powLimit,
  the target must first fall by a factor of about 2^200. This is listed as a
  hazard (pow.cpp:256). ChainWorkExact fails on the same block, because
  `GetBlockProof` returns 0 for a zero target.
- **AdjustmentLimited**: a block retargeted by the averaging rule has a target
  between the min and max timespan ratios of its window's average target.
  The bounds allow for the rounding of the division and of the compact
  encoding.
- **ChainWorkExact**: `GetBlockProof`'s `~target / (target + 1) + 1` equals
  `2^256 / (target + 1)`, the claim of its comment.
- **ForkRuleNeedsScale**: without `scaleDifficultyAtUpgradeFork` every nBits
  comes from the other rules. It is violated, because the condition reads
  `flag && (DiffAdj window) || (Buttercup window)` and `&&` binds tighter.
  The Buttercup window therefore applies the fork levels whatever the flag
  says.
- **KeyCacheFresh**: every validation hashes with a live validating VM built
  from the key that `GetKeyBlock` returned.
- Which key a height should get is stated nowhere in `src/` except in
  `GetKeyBlock` itself, so no property checks it. For a header more than one
  block past the tip, `GetKeyBlock` cannot reach the key block, and
  `current_key_block` keeps what an earlier call left. Whether headers are
  validated that far ahead is decided by callers outside `src/`. Both this
  and the `second_check` wrap are listed as hazards without a property.
- **MinerNoUseAfterFree**: the miner never hashes with a destroyed VM. It is
  violated: a validation that switches the key runs `KeyBlockChanged`, which
  destroys `myMachineMining` while the miner still holds its pointer.

Bounds and why they are enough:
- The fetch run uses 2 chunks and 2 peers (one of them faulty), a 2 s
  timeout, a 1 s spacing between requests, a capacity of 2 and backoffs of
  1, 2, 2 and 3 s. These reach a complete download, stale replies after a
  reap or a disconnect, growing backoffs, and a second request to the same
  peer. The clock is not bounded. The view `FetchView` of `MC_SnapshotFetch`
  keeps of each time only what a guard or a property reads: its age capped
  just above the timeout, the backoff still to run, whether it is 0, and the
  order of the peers' last request times. States with equal views have the
  same steps to states with equal views, so the finite quotient is exact for
  the invariants and for liveness. With 3 chunks the quotient is too large
  for liveness checking in minutes; the proofs cover every chunk count.
- The limiter runs use 2 peers, 2 chunks, a per-minute limit of 2, a window of
  2 s, a duplicate window of 3 s, an idle expiry of 3 s and time up to 5. Every
  rejection branch, the pruning of old entries and Cleanup all happen. The
  ban threshold is set to the per-minute limit (2), so that bans and their
  lift happen. In the code the threshold exceeds the limit, and the ban is
  unreachable (limiter_abuse). The other ratios are kept: the ban lasts at
  least one window, and the idle expiry exceeds the window.
- The assembly runs use 2 chunks, which is enough for one good and one
  truncated chunk. Every checkpoint case is an initial state.
  assembly_safety lets the disk fail and the process die while the live
  chainstate is empty. assembly_crash adds crashes after tar has written,
  on a disk that does not fail. assembly_disk and gate_advertise have a
  failing disk and no crashes.
- Symmetry is used over peers and chunks in the limiter runs, where they are
  only compared for equality.
- The pow runs scale the 256-bit targets to TLC's integers:
  - powLimit is `2^24 - 1`, whose top byte has its high bit set, so
    `GetCompact`'s sign shift is taken, as it is for the real powLimit;
  - the arith_uint256 range is `2^30`, large enough that `GetBlockProof`'s
    rounding is visible;
  - the window is 3 blocks of 20 s, with the code's adjustment percentages
    (16 up, 32 down) and a median span of 3;
  - Buttercup activates at height 5 and the min-difficulty rule after
    height 7;
  - miners use offsets -5, 1, 41, 121 and 241 s, which cross every gap
    threshold (2, 6 and 12 spacings) and the lower clamp, and one is behind
    its parent;
  - chains have up to 9 blocks.
- The RandomX runs use:
  - a key period of 4 blocks that switches after 1 block, and a uint32_t
    narrowed to 16 bits (`UIntRange = 65536`), so that `second_check` wraps
    in the first period;
  - heights up to 11, which is three periods;
  - at most 5 allocations of the cache.

  Validation starts at height 2 (> SWITCH_KEY) and reaches 1 past the tip.

Every property of a passing run has a mutant in `PROJECT.json`: a plausible bug
in a mapped definition that TLC catches under that run's configuration.
The type invariants (`TypeOK`) of the snapshot modules are not properties
of the runs. They are proved for every instance (`TypeCorrect`,
`LimiterTypeCorrect`, `AssemblyTypeCorrect`) and used as lemmas.

Fairness is assumed only in fetch_safety (see `SnapshotFetch`), and only of
the node's own steps and the clock. The other runs check safety only; their
MC modules bound the clock with a state constraint, which would make
liveness vacuous, so none is checked there.

## Proofs

`SnapshotFetchProofs` proves, for every number of chunks, set of peers and
limit allowed by the module's ASSUMEs:
- **TypeCorrect**: `Spec => []TypeOK`. It has one step per action. It rests on
  these lemmas:
  - `NextNeededMissing`: the next chunk is a missing one. It is proved through
    a least-element lemma taken from `WellFoundedInduction`'s `WFMin`.
  - The finiteness of chunk sets.
  - The types of `FailedState` and of `SaveChunk`'s outcomes.
- **SequentialDownloadHolds**: `Spec => []SequentialDownload`. Given TypeOK,
  the invariant is inductive:
  - a request only goes out for `NextNeeded`, and only when it is not in
    flight;
  - receiving, reaping and disconnecting only remove chunks from flight;
  - receiving a chunk can change `NextNeeded` only by receiving the single
    chunk in flight, and that clears the whole in-flight set.
- **TimeoutFromOwnRequestHolds**: `Spec => []TimeoutFromOwnRequest`. Given
  TypeOK and SequentialDownload it is inductive: a request goes out only when
  nothing is in flight, so the peer's new `nLastRequestTime` is the request
  time of the one chunk in flight; `RecordSuccess` and `RecordFailure` leave
  it alone; `RemovePeer` resets it only with the peer's chunks erased.
- **ReceivedAreStoredNoDiskFailure**:
  `~DiskCanFail => (Spec => []ReceivedAreStored)`. Given TypeOK and
  SequentialDownload the invariant is inductive: a chunk is marked received
  only with its file just written good, and a received chunk is never in
  flight again (`InFlightMissing`), so no later save touches its file. The
  hypothesis is needed, because `SaveChunk` does not check its write.
- **AcceptsInOrderHolds**: `Spec => AcceptsInOrder`, the refinement of
  `DownloadOrder`. The initial state maps to the abstract initial state.
  Only a successful reply changes `received`, and only for the chunk in
  flight to the replying peer. By SequentialDownload that chunk is
  `NextNeeded`, which is missing and least (`NextNeededLeast`), so the step
  is the abstract `Accept`.

`SnapshotRateLimiterProofs` proves, for all limits allowed by
`LimiterAssumption`:
- **LimiterTypeCorrect**: `Spec => []TypeOK`. Its lemmas:
  - `PruneOld` returns a window of times. The pop loop's cut point exists by
    `LongestPrefix` (in `SnapshotLemmas`).
  - The entries written by the ban lift, a rate rejection, an admission and
    `RecordServed` are typed and keep or set the last request time as the
    code does.
- **SlotAccountingHolds**: `Spec => []SlotAccounting`. The invariant is not
  inductive: an admission adds `<<a, c, now>>` to `serving` and one to the
  counter, and these balance only if the tuple is new. The strengthening
  `SlotInv` adds the following:
  - every transfer in progress started no later than `now`;
  - one that started at `now` set its peer's last request time to `now`.

  The "too fast" check then rejects that peer within the second. This needs
  `GetTime() > 0` and `nMinSecondsBetweenRequests >= 1`, both assumed.
  `Cleanup` resets only peers idle for longer than the expiry, which cannot
  have started a transfer at `now`.
- **PerPeerRateHolds**: `BanOutlastsWindow => (Spec => []PerPeerRate)`, where
  `BanOutlastsWindow` says the ban (300 s in the code) and the idle expiry
  (600 s) are at least the 60 s window. PerPeerRate counts admissions, which
  the limiter forgets: `PruneOld` pops old request times, the ban lift and
  `Cleanup` drop the whole window. The strengthening `RateInv` ties the two
  together. For every peer:
  - its last request time is at most `now`;
  - every admission of the last window is at most its last request time and
    is recorded in its request times (`WindowHolds`);
  - while it is banned, every admission it ever had is more than the ban
    duration before the ban ends.

  Admissions of one peer have distinct times (the "too fast" check), so by
  the lemma `WindowBound` (an injection into the positions of the request
  times) the recent admissions are at most as many as the recorded times,
  which the rate check keeps below the limit. The ban lift and `Cleanup`
  then only drop a window whose admissions are all older than 60 s. The
  hypothesis is needed: with `BanDuration = 0` TLC finds PerPeerRate
  violated, because the ban lift forgets a window that is still recent.

`SnapshotAssemblyProofs` proves, for every chunk count and all values of
`DiskCanFail`, `CanCrash`, `CrashAfterTouch` and `Listen`:
- **AssemblyTypeCorrect**: `Spec => []TypeOK`.
- **LoadedOnlyVerifiedEarlyCrash**:
  `~CrashAfterTouch => (Spec => []LoadedOnlyVerified)`, on any disk. It goes
  through `VerifiedInv`, which says what the data directory holds in each
  mode:
  - empty while downloading or in full sync;
  - the snapshot while verifying;
  - a verified snapshot once exited or loaded;
  - a stopped process either exited after verification or left the data
    directory empty, so that its restart downloads again.

  The lemma `ExtractOutcome` gives the two facts about `ExtractSnapshot` it
  needs. A true return has the snapshot in place, and a crash inside the
  call, under the hypothesis, leaves the live chainstate empty. Every false
  return ends in the fallback, which empties the directory, whatever
  `remove_all` leaves. The hypothesis is needed: the run `assembly_crash` is
  the counterexample without it.

`RandomXKeyCacheProofs` proves, for every key period, switch offset, integer
range and validation range:
- **KeyCacheFreshHolds**: `Spec => []KeyCacheFresh`. It goes through
  `CacheInv`, which adds that an initialised cache has VMs built from
  `key_block`. After `InitRandomXLightCache` the cache is initialised and in
  step. `CheckIfKeyShouldChange` either keeps a cache whose key already
  equals `GetKeyBlock`'s result, or rebuilds it with that key.

`PowDifficultyProofs` proves **BlockProofExact**: for every nBits that the
range check accepts and that decodes to a natural, and every arith_uint256
range above powLimit,
`GetBlockProof` is `2^256 / (target + 1)`. It rests on the lemma
`ShiftedQuotient`, `(M - 1 - t) \div (t + 1) + 1 = M \div (t + 1)` for
`t + 1 <= M`. The run pow_retarget checks the same identity on every block
of its chains (ChainWorkExact).

It also proves **RetargetLimited**, the "Limit adjustment step" of
`CalculateNextWorkRequired` for every average target and pair of median
times. The target it encodes, `new`, satisfies:
- `new` is in `0 .. powLimit`;
- `new * AveragingWindowTimespan <= avg * MaxActualTimespan`;
- `new >= (avg / AveragingWindowTimespan) * MinActualTimespan`, capped at
  powLimit.

The proof follows the code:
1. the truncating quarter-dampening gives an integer;
2. the two clamps put the timespan between the bounds, because
   `MinActualTimespan <= MaxActualTimespan` (lemma `TimespanBounds`);
3. dividing before multiplying only loses from `avg` (lemma `MulMono` for
   the products).

This is AdjustmentLimited before the compact encoding.

Model-checked only, left to TLC:
- the difficulty invariants. BitsAccepted and ChainWorkExact are not true
  for every chain (the zero target above), so they hold only on the run's
  bounded chains. AdjustmentLimited needs two things the provers lack:
  - the round trip of the compact encoding, which is a search over byte
    sizes with powers of 256 and a variable exponent;
  - that the window's sum `SumTargets` is a natural. That is induction over
    a recursive function, and its library theorem (`FiniteNatInductiveDef`)
    takes an operator parameter the installed provers cannot instantiate.
- the properties that the code violates (NoDuplicateServe, AbuseIsBanned,
  MinerNoUseAfterFree, ForkRuleNeedsScale and the crash and disk runs); their
  runs give the counterexamples;
- the remaining invariants;
- InFlightReleased, and any liveness or use of ENABLED, which is outside the
  provers' reach;
- what recursive definitions compute for every input, because induction over
  data cannot be instantiated by the installed provers.

## Not modelled (yet)

- **Manifest file contents.** `LoadManifest` and `SaveManifest` read and
  write `manifest.dat`; the model keeps only the size of the manifest the
  store ends up with, because the file is always saved from the hard-coded
  manifest.
- **Download completion.** That the download eventually completes is not
  claimed: an honest peer whose replies always arrive after the timeout
  never delivers a chunk (the late reply is dropped and the peer backed off),
  and the code bounds nothing about reply latency. InFlightReleased shows
  each attempt ends.
- **Equihash and the hash comparisons.** `CheckEquihashSolution`, the
  comparison of a hash with its target, and `GetBlockProofEquivalentTime` are
  pure functions of hash values with no state; the RandomX hash itself is
  opaque.
- **Other files.** The RPC file, the block-index database header, the unit
  test, the depends makefile and the documents hold no state machine of this
  subsystem.
