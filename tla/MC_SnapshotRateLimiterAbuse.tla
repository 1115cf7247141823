-------------------- MODULE MC_SnapshotRateLimiterAbuse ---------------------
(* One flooding peer against the limiter with its default ratio of ban    *)
(* threshold to per-minute limit (100 > 30), scaled down.                 *)
EXTENDS SnapshotRateLimiterAbuse, TLC

CONSTANTS a1, c1, c2

MCAddrs == {a1}
MCChunks == {c1, c2}

\* the last second explored
MaxTime == 5
TimeBound == now <= MaxTime

\* requests counted per peer: enough to reach the ban threshold
AttemptBound == \A a \in Addrs : Len(attempts[a]) <= BanThreshold
=============================================================================
