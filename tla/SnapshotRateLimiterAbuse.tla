--------------------- MODULE SnapshotRateLimiterAbuse ----------------------
(* SnapshotRateLimiter with a history of every request each peer sends,   *)
(* admitted or rejected, to state what spec.md 8 S3 says of a flooding    *)
(* peer.  The history is kept for RateWindow seconds and changes nothing  *)
(* else.                                                                  *)
EXTENDS SnapshotRateLimiter

VARIABLE attempts

abuseVars == <<vars, attempts>>

\* the requests of the last RateWindow seconds, and one more at now
Attempt(a) ==
    attempts' = [attempts EXCEPT ![a] =
                   Append(SelectSeq(@, LAMBDA t : now - t <= RateWindow), now)]

AbuseInit == Init /\ attempts = [a \in Addrs |-> <<>>]

(* Every call of AllowRequest is a request, the rejections that leave the *)
(* limiter unchanged included.                                            *)
AbuseNext ==
    \/ \E a \in Addrs, c \in ChunkIds : AllowRequest(a, c) /\ Attempt(a)
    \/ (Tick \/ Cleanup \/ \E tr \in serving, sent \in BOOLEAN : FinishTransfer(tr, sent))
       /\ UNCHANGED attempts

AbuseSpec == AbuseInit /\ [][AbuseNext]_abuseVars

(* spec.md 8 S3: a peer that has sent BanThreshold requests within        *)
(* RateWindow seconds is banned by AllowRequest.                          *)
AbuseIsBanned ==
    \A a \in Addrs :
        Len(attempts[a]) >= BanThreshold => info[a].banned
=============================================================================
