----------------------- MODULE MC_SnapshotRateLimiter -----------------------
(* A limiter serving two peers and two chunks, with the time constants    *)
(* scaled down so that each of AllowRequest's rejections, the request     *)
(* window's pruning, the ban and Cleanup's expiry happen within MaxTime.  *)
EXTENDS SnapshotRateLimiter, TLC

CONSTANTS a1, a2, c1, c2

MCAddrs == {a1, a2}
MCChunks == {c1, c2}

\* peers and chunks are only compared for equality
MCSymmetry == Permutations(MCAddrs) \cup Permutations(MCChunks)

\* the last second explored
MaxTime == 5
TimeBound == now <= MaxTime

=============================================================================
