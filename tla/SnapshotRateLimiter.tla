------------------------- MODULE SnapshotRateLimiter -------------------------
(***************************************************************************)
(* The serving side: CSnapshotRateLimiter (pow.cpp) and the "getsnapshot-  *)
(* chunk" handler that calls it, which is not in src/ and is modelled from *)
(* spec.md 4.3 and 4.5: AllowRequest admits a request, the chunk is loaded *)
(* and sent (which takes time), then RecordServed and CompleteTransfer.    *)
(* Requesting peers are the environment and may send any request at any   *)
(* time.  All limiter state is under cs_rateLimiter, so each method is one *)
(* step.                                                                   *)
(***************************************************************************)
EXTENDS Integers, Sequences, FiniteSets

CONSTANTS
    Addrs,          \* CNetAddr of the requesting peers
    ChunkIds,       \* chunk numbers peers ask for
    MaxPerMinute,   \* nMaxChunksPerPeerPerMinute (30)
    MaxConcurrent,  \* nMaxConcurrentTransfers (25)
    MinBetween,     \* nMinSecondsBetweenRequests (2)
    DupWindow,      \* nDuplicateChunkWindowSec (300)
    BanThreshold,   \* nBanThreshold (100)
    BanDuration,    \* nBanDurationSec (300)
    RateWindow,     \* the 60 s kept in requestTimes
    IdleExpiry,     \* the 600 s after which Cleanup drops a peer
    StartTime       \* GetTime() when the limiter is constructed

(* GetTime() is Unix time, never 0, and nMinSecondsBetweenRequests is 2   *)
(* (SetLimits is never called): a peer is never admitted twice in one     *)
(* second.                                                                *)
ASSUME LimiterAssumption ==
    /\ MaxPerMinute \in Nat /\ MaxConcurrent \in Nat
    /\ MinBetween \in Nat \ {0} /\ DupWindow \in Nat
    /\ BanThreshold \in Nat /\ BanDuration \in Nat
    /\ RateWindow \in Nat /\ IdleExpiry \in Nat /\ StartTime \in Nat \ {0}

VARIABLES
    now,        \* GetTime()
    info,       \* mapPeerRequests
    active,     \* nActiveTransfers
    serving,    \* transfers admitted and not yet completed, <<addr, chunk, t>>
    admitted    \* history: every admitted request <<addr, chunk, t>>

vars == <<now, info, active, serving, admitted>>

NoTime == -1

(* PeerRequestInfo; nTotalRequests is a statistic nothing reads.  An      *)
(* absent map entry behaves as the default one in every method.           *)
PeerInfo == [times : Seq(Nat), served : [ChunkIds -> Nat \cup {NoTime}],
             last : Nat, banned : BOOLEAN, banUntil : Nat]
DefaultInfo == [times |-> <<>>, served |-> [c \in ChunkIds |-> NoTime],
                last |-> 0, banned |-> FALSE, banUntil |-> 0]

-----------------------------------------------------------------------------
(* Mutant: the loop also pops times exactly RateWindow seconds old.       *)
PruneOldAtLimit(ts) ==
    LET Old(i) == now - ts[i] >= RateWindow
        k == CHOOSE k \in 0 .. Len(ts) :
                /\ \A i \in 1 .. k : Old(i)
                /\ k < Len(ts) => ~Old(k + 1)
    IN  SubSeq(ts, k + 1, Len(ts))

(* The while loop that pops request times older than RateWindow from the  *)
(* front of the deque.                                                    *)
PruneOld(ts) ==
    LET Old(i) == now - ts[i] > RateWindow
        k == CHOOSE k \in 0 .. Len(ts) :
                /\ \A i \in 1 .. k : Old(i)
                /\ k < Len(ts) => ~Old(k + 1)
    IN  SubSeq(ts, k + 1, Len(ts))

(* The ban check at the top of AllowRequest, lifting an expired ban.      *)
Unbanned(i) ==
    IF i.banned /\ now >= i.banUntil
    THEN [times |-> <<>>, served |-> i.served, last |-> i.last,
          banned |-> FALSE, banUntil |-> 0]
    ELSE i

(* AllowRequest's checks in order; each early return keeps the effect of  *)
(* the ban lift above it.                                                 *)
StillBanned(i) == i.banned /\ now < i.banUntil
AtCapacity == active >= MaxConcurrent
TooFast(i) == i.last > 0 /\ now - i.last < MinBetween
Duplicate(i, c) == i.served[c] # NoTime /\ now - i.served[c] < DupWindow

(* The rejections between the ban check and the pruning of the window.    *)
Rejected(i, c) == AtCapacity \/ TooFast(i) \/ Duplicate(i, c)

(* Mutant: the ban ends when it is set (nBanDurationSec not added).      *)
BanEndNow == now

(* The end of a ban set now.                                              *)
BanEnd == now + BanDuration

(* The entry after a rejection for the per-minute rate: the pruned        *)
(* window, and a ban when the window is at the ban threshold.             *)
RateRejected(i, win) ==
    IF Len(win) >= BanThreshold
    THEN [times |-> win, served |-> i.served, last |-> i.last,
          banned |-> TRUE, banUntil |-> BanEnd]
    ELSE [times |-> win, served |-> i.served, last |-> i.last,
          banned |-> i.banned, banUntil |-> i.banUntil]

(* The entry after an admission: now appended to the pruned window and   *)
(* recorded as the last request.                                          *)
Admitted(i, win) ==
    [times |-> Append(win, now), served |-> i.served, last |-> now,
     banned |-> i.banned, banUntil |-> i.banUntil]

(* AllowRequest(addr, c): the getsnapshotchunk handler asks the limiter;  *)
(* on admission the transfer starts.  One disjunct per return.            *)
AllowRequest(a, c) ==
    LET i0 == info[a]
        i1 == Unbanned(i0)
        win == PruneOld(i1.times)
    IN
    /\ \/ /\ StillBanned(i0)
          /\ UNCHANGED <<info, active, serving, admitted>>
       \/ /\ ~StillBanned(i0) /\ Rejected(i1, c)
          /\ info' = [info EXCEPT ![a] = i1]
          /\ UNCHANGED <<active, serving, admitted>>
       \/ /\ ~StillBanned(i0) /\ ~Rejected(i1, c)
          /\ Len(win) >= MaxPerMinute
          /\ info' = [info EXCEPT ![a] = RateRejected(i1, win)]
          /\ UNCHANGED <<active, serving, admitted>>
       \/ /\ ~StillBanned(i0) /\ ~Rejected(i1, c)
          /\ Len(win) < MaxPerMinute
          /\ info' = [info EXCEPT ![a] = Admitted(i1, win)]
          /\ active' = active + 1
          /\ serving' = serving \cup {<<a, c, now>>}
          /\ admitted' = admitted \cup {<<a, c, now>>}
    /\ UNCHANGED now

(* CompleteTransfer: release the slot, never below zero.                  *)
Released(n) == IF n > 0 THEN n - 1 ELSE n

(* RecordServed: the chunk's served time is now.                          *)
Stamped(i, c) ==
    [times |-> i.times, served |-> [i.served EXCEPT ![c] = now],
     last |-> i.last, banned |-> i.banned, banUntil |-> i.banUntil]

(* Mutant: the slot is released only when the chunk was sent.            *)
FinishTransferSentOnly(tr, sent) ==
    /\ tr \in serving
    /\ info' = IF sent THEN [info EXCEPT ![tr[1]] = Stamped(@, tr[2])] ELSE info
    /\ active' = IF sent THEN Released(active) ELSE active
    /\ serving' = serving \ {tr}
    /\ UNCHANGED <<now, admitted>>

(* The transfer ends: when the chunk was sent, RecordServed stamps it;    *)
(* then CompleteTransfer.                                                 *)
FinishTransfer(tr, sent) ==
    LET a == tr[1]
        c == tr[2]
    IN
    /\ tr \in serving
    /\ info' = IF sent THEN [info EXCEPT ![a] = Stamped(@, c)] ELSE info
    /\ active' = Released(active)
    /\ serving' = serving \ {tr}
    /\ UNCHANGED <<now, admitted>>

(* Cleanup: drop peers idle for more than IdleExpiry and not banned.      *)
Cleanup ==
    /\ info' = [a \in Addrs |->
                  IF now - info[a].last > IdleExpiry /\ ~info[a].banned
                  THEN DefaultInfo ELSE info[a]]
    /\ info' # info
    /\ UNCHANGED <<now, active, serving, admitted>>

Tick ==
    /\ now' = now + 1
    /\ UNCHANGED <<info, active, serving, admitted>>

Init ==
    /\ now = StartTime
    /\ info = [a \in Addrs |-> DefaultInfo]
    /\ active = 0
    /\ serving = {}
    /\ admitted = {}

Next ==
    \/ Tick
    \/ \E a \in Addrs, c \in ChunkIds : AllowRequest(a, c)
    \/ \E tr \in serving, sent \in BOOLEAN : FinishTransfer(tr, sent)
    \/ Cleanup

Spec == Init /\ [][Next]_vars

-----------------------------------------------------------------------------
TypeOK ==
    /\ now \in Nat
    /\ info \in [Addrs -> PeerInfo]
    /\ active \in Nat
    /\ serving \subseteq Addrs \X ChunkIds \X Nat
    /\ admitted \subseteq Addrs \X ChunkIds \X Nat

(* The admitted requests of peer a at times in [t - RateWindow, t].       *)
AdmittedIn(a, t) ==
    {x \in admitted : x[1] = a /\ t - RateWindow <= x[3] /\ x[3] <= t}

(* spec.md 8 invariant 2 with the counter behind it: nActiveTransfers     *)
(* counts exactly the transfers in progress, and these never exceed       *)
(* nMaxConcurrentTransfers (AllowRequest's capacity check, balanced by    *)
(* CompleteTransfer at the end of every transfer, sent or not).           *)
SlotAccounting ==
    /\ active = Cardinality(serving)
    /\ Cardinality(serving) <= MaxConcurrent

(* spec.md 8 invariant 3: no peer is admitted more than                   *)
(* nMaxChunksPerPeerPerMinute requests in any window of RateWindow        *)
(* seconds, across the pruning of requestTimes, the ban lift that clears  *)
(* it, and Cleanup dropping idle peers.                                   *)
PerPeerRate ==
    \A a \in Addrs, t \in StartTime .. now :
        Cardinality(AdmittedIn(a, t)) <= MaxPerMinute

(* spec.md 5: two requests of one peer for one chunk are never both       *)
(* admitted within nDuplicateChunkWindowSec.                              *)
NoDuplicateServe ==
    \A x, y \in admitted :
        (x[1] = y[1] /\ x[2] = y[2] /\ x[3] < y[3]) => y[3] - x[3] >= DupWindow

=============================================================================
