--------------------------- MODULE MC_SnapshotFetch ---------------------------
(* Small instance of SnapshotFetch for TLC: two chunks, an honest and a   *)
(* faulty peer, seconds scaled down so that the backoffs (1, 2, 2 and 3   *)
(* ticks) and the timeout (2 ticks) expire within a few ticks.            *)
EXTENDS SnapshotFetch, TLC

CONSTANTS p1, p2, NoNode

MCPeers == {p1, p2}
MCFaulty == {p2}
MCBackoff == <<1, 2, 2, 3>>

(* The clock is unbounded; states are told apart only by what the guards  *)
(* of the model can read of the clock.  Every guard compares the age      *)
(* now - nLastRequestTime with MinBetween or Timeout, nBackoffUntil with  *)
(* now, or one peer's nLastRequestTime with another's; TimeoutFromOwnRe-  *)
(* quest compares a request time with its peer's.  Two states with equal  *)
(* views enable the same steps to states with equal views, so the view    *)
(* is a bisimulation and the quotient is finite.                          *)
Age(t) == IF now - t > Timeout THEN Timeout + 1 ELSE now - t
Remaining(t) == IF t > now THEN t - now ELSE 0

FetchView ==
    <<received, stored, chunkToNode, connected, requests, replies,
      [p \in DOMAIN peerState |-> <<Age(peerState[p].last), peerState[p].fails,
                         Remaining(peerState[p].backoff),
                         peerState[p].last = 0>>],
      {pq \in (DOMAIN peerState) \X (DOMAIN peerState) :
          peerState[pq[1]].last <= peerState[pq[2]].last},
      [c \in InFlight |-> <<Age(reqAt[c]),
                            chunkToNode[c] \in DOMAIN peerState /\
                            reqAt[c] = peerState[chunkToNode[c]].last>>]>>

ASSUME ViewAssumption == MinBetween <= Timeout + 1
=============================================================================
