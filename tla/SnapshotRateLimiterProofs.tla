-------------------- MODULE SnapshotRateLimiterProofs ------------------------
(***************************************************************************)
(* Proofs about SnapshotRateLimiter for every value of the limits: the     *)
(* type invariant, and that nActiveTransfers counts exactly the transfers  *)
(* in progress and never exceeds nMaxConcurrentTransfers.                  *)
(***************************************************************************)
EXTENDS SnapshotRateLimiter, SnapshotLemmas, SequenceTheorems,
        FiniteSetTheorems, TLAPS

USE LimiterAssumption

(* Pruning a window of times leaves a suffix of it, a window of times.   *)
LEMMA PruneOldType ==
    ASSUME NEW ts \in Seq(Nat), now \in Int
    PROVE  PruneOld(ts) \in Seq(Nat)
<1>. DEFINE Old(i) == now - ts[i] > RateWindow
            k == CHOOSE k \in 0 .. Len(ts) :
                    /\ \A i \in 1 .. k : Old(i)
                    /\ k < Len(ts) => ~Old(k + 1)
            Bad == {i \in 1 .. Len(ts) : ~Old(i)}
<1>0. Len(ts) \in Nat
    BY LenProperties
<1>1. \E j \in 0 .. Len(ts) : /\ \A i \in 1 .. j : i \notin Bad
                              /\ j < Len(ts) => j + 1 \in Bad
    <2>. HIDE DEF Bad
    <2>1. QED
        BY <1>0, LongestPrefix
<1>2. \E j \in 0 .. Len(ts) : /\ \A i \in 1 .. j : Old(i)
                              /\ j < Len(ts) => ~Old(j + 1)
    BY <1>1
<1>3. k \in 0 .. Len(ts)
    BY <1>2
<1>4. \A i \in k + 1 .. Len(ts) : ts[i] \in Nat
    BY <1>3
<1>5. SubSeq(ts, k + 1, Len(ts)) \in Seq(Nat)
    BY <1>3, <1>4, SubSeqProperties
<1>6. QED
    BY <1>5 DEF PruneOld

(* Lifting an expired ban keeps a peer's entry typed and its last request *)
(* time.                                                                  *)
LEMMA UnbannedType ==
    ASSUME NEW i \in PeerInfo
    PROVE  Unbanned(i) \in PeerInfo /\ Unbanned(i).last = i.last
BY DEF Unbanned, PeerInfo

(* The entry after a rate rejection is typed and keeps the last request.  *)
LEMMA RateRejectedType ==
    ASSUME NEW i \in PeerInfo, NEW win \in Seq(Nat), now \in Nat
    PROVE  RateRejected(i, win) \in PeerInfo /\ RateRejected(i, win).last = i.last
BY DEF RateRejected, PeerInfo, BanEnd

(* The entry after an admission is typed and records the request now.     *)
LEMMA AdmittedType ==
    ASSUME NEW i \in PeerInfo, NEW win \in Seq(Nat), now \in Nat
    PROVE  Admitted(i, win) \in PeerInfo /\ Admitted(i, win).last = now
<1>1. Append(win, now) \in Seq(Nat)
    BY AppendProperties
<1>2. QED
    BY <1>1 DEF Admitted, PeerInfo

(* RecordServed keeps an entry typed and its last request time.           *)
LEMMA StampedType ==
    ASSUME NEW i \in PeerInfo, NEW c \in ChunkIds, now \in Nat
    PROVE  Stamped(i, c) \in PeerInfo /\ Stamped(i, c).last = i.last
BY DEF Stamped, PeerInfo

-----------------------------------------------------------------------------
LEMMA InitTypeOK == Init => TypeOK
BY DEF Init, TypeOK, PeerInfo, DefaultInfo, NoTime

LEMMA AllowRequestTypeOK ==
    ASSUME TypeOK, NEW a \in Addrs, NEW c \in ChunkIds, AllowRequest(a, c)
    PROVE  TypeOK'
<1>. DEFINE i0 == info[a]
            i1 == Unbanned(i0)
            win == PruneOld(i1.times)
<1>1. i1 \in PeerInfo
    BY UnbannedType DEF TypeOK
<1>2. win \in Seq(Nat)
    BY <1>1, PruneOldType DEF PeerInfo, TypeOK
<1>3. RateRejected(i1, win) \in PeerInfo
    BY <1>1, <1>2, RateRejectedType DEF TypeOK
<1>4. Admitted(i1, win) \in PeerInfo
    BY <1>1, <1>2, AdmittedType DEF TypeOK
<1>5. QED
    BY <1>1, <1>3, <1>4 DEF AllowRequest, TypeOK

LEMMA NextTypeOK == TypeOK /\ [Next]_vars => TypeOK'
<1>. SUFFICES ASSUME TypeOK, [Next]_vars PROVE TypeOK'
    OBVIOUS
<1>1. CASE Tick
    BY <1>1 DEF Tick, TypeOK
<1>2. ASSUME NEW a \in Addrs, NEW c \in ChunkIds, AllowRequest(a, c)
      PROVE  TypeOK'
    BY <1>2, AllowRequestTypeOK
<1>3. ASSUME NEW tr \in serving, NEW sent \in BOOLEAN, FinishTransfer(tr, sent)
      PROVE  TypeOK'
    <2>1. tr[1] \in Addrs /\ tr[2] \in ChunkIds /\ now \in Nat
        BY DEF TypeOK
    <2>2. Stamped(info[tr[1]], tr[2]) \in PeerInfo
        BY <2>1, StampedType DEF TypeOK
    <2>3. info' \in [Addrs -> PeerInfo]
        BY <1>3, <2>1, <2>2 DEF FinishTransfer, TypeOK
    <2>4. QED
        BY <1>3, <2>3 DEF FinishTransfer, TypeOK, Released
<1>4. CASE Cleanup
    BY <1>4 DEF Cleanup, TypeOK, DefaultInfo, PeerInfo, NoTime
<1>5. CASE UNCHANGED vars
    BY <1>5 DEF vars, TypeOK
<1>6. QED
    BY <1>1, <1>2, <1>3, <1>4, <1>5 DEF Next

(* The type invariant holds in every reachable state.                     *)
THEOREM LimiterTypeCorrect == Spec => []TypeOK
BY InitTypeOK, NextTypeOK, PTL DEF Spec

-----------------------------------------------------------------------------
(* SlotAccounting is not inductive alone: an admission adds <<a, c, now>> *)
(* to serving and one to the counter, which balance only if that transfer *)
(* is new.  It is, because a transfer admitted this second set the peer's *)
(* last request to now, and the "too fast" check then rejects the peer    *)
(* (GetTime() > 0 and nMinSecondsBetweenRequests >= 1).                    *)
SlotInv ==
    /\ TypeOK
    /\ now >= StartTime
    /\ IsFiniteSet(serving)
    /\ SlotAccounting
    /\ \A x \in serving : x[3] <= now /\ (x[3] = now => info[x[1]].last = now)

LEMMA InitSlotInv == Init => SlotInv
BY InitTypeOK, FS_EmptySet DEF Init, SlotInv, SlotAccounting

(* An admitted transfer is not already in progress.                       *)
LEMMA AdmissionIsNew ==
    ASSUME SlotInv, NEW a \in Addrs, NEW c \in ChunkIds,
           ~TooFast(Unbanned(info[a]))
    PROVE  <<a, c, now>> \notin serving
<1>1. info[a] \in PeerInfo /\ Unbanned(info[a]).last = info[a].last
    BY UnbannedType DEF SlotInv, TypeOK
<1>2. SUFFICES ASSUME <<a, c, now>> \in serving PROVE FALSE
    OBVIOUS
<1>3. info[a].last = now
    BY <1>2 DEF SlotInv
<1>4. now \in Nat /\ now >= 1
    BY DEF SlotInv, TypeOK
<1>5. Unbanned(info[a]).last = now
    BY <1>1, <1>3
<1>6. QED
    BY <1>4, <1>5 DEF TooFast

LEMMA AllowRequestSlotInv ==
    ASSUME SlotInv, NEW a \in Addrs, NEW c \in ChunkIds, AllowRequest(a, c)
    PROVE  SlotInv'
<1>. DEFINE i0 == info[a]
            i1 == Unbanned(i0)
            win == PruneOld(i1.times)
<1>1. TypeOK'
    BY AllowRequestTypeOK DEF SlotInv
<1>2. i0 \in PeerInfo /\ i1 \in PeerInfo /\ i1.last = i0.last /\ win \in Seq(Nat)
    BY UnbannedType, PruneOldType DEF SlotInv, TypeOK, PeerInfo
<1>3. RateRejected(i1, win).last = i0.last /\ Admitted(i1, win).last = now
    BY <1>2, RateRejectedType, AdmittedType DEF SlotInv, TypeOK
<1>4. CASE UNCHANGED <<info, active, serving, admitted>>
    BY <1>1, <1>4 DEF AllowRequest, SlotInv, SlotAccounting
<1>5. CASE /\ info' = [info EXCEPT ![a] = i1] \/ info' = [info EXCEPT ![a] = RateRejected(i1, win)]
           /\ UNCHANGED <<active, serving, admitted>>
    <2>1. \A b \in Addrs : info'[b].last = info[b].last
        BY <1>2, <1>3, <1>5 DEF SlotInv, TypeOK
    <2>2. now' = now /\ SlotAccounting'
        BY <1>5 DEF AllowRequest, SlotInv, SlotAccounting
    <2>3. \A x \in serving' : x[3] <= now' /\ (x[3] = now' => info'[x[1]].last = now')
        BY <1>5, <2>1, <2>2 DEF SlotInv, TypeOK
    <2>4. QED
        BY <1>1, <1>5, <2>2, <2>3 DEF SlotInv
<1>6. CASE /\ ~StillBanned(i0) /\ ~Rejected(i1, c)
           /\ info' = [info EXCEPT ![a] = Admitted(i1, win)]
           /\ active' = active + 1
           /\ serving' = serving \cup {<<a, c, now>>}
    <2>1. <<a, c, now>> \notin serving
        BY <1>6, AdmissionIsNew DEF Rejected
    <2>2. IsFiniteSet(serving') /\ Cardinality(serving') = Cardinality(serving) + 1
        BY <1>6, <2>1, FS_AddElement DEF SlotInv
    <2>3. active < MaxConcurrent
        BY <1>6 DEF Rejected, AtCapacity, SlotInv, TypeOK
    <2>4. SlotAccounting'
        BY <1>6, <2>2, <2>3, FS_CardinalityType DEF SlotInv, SlotAccounting
    <2>5. info'[a].last = now /\ \A b \in Addrs \ {a} : info'[b] = info[b]
        BY <1>3, <1>6 DEF SlotInv, TypeOK
    <2>6. \A x \in serving' : x[3] <= now' /\ (x[3] = now' => info'[x[1]].last = now')
        BY <1>6, <2>5 DEF AllowRequest, SlotInv, TypeOK
    <2>7. QED
        BY <1>1, <1>6, <2>2, <2>4, <2>6 DEF AllowRequest, SlotInv
<1>7. QED
    BY <1>4, <1>5, <1>6 DEF AllowRequest

LEMMA NextSlotInv == SlotInv /\ [Next]_vars => SlotInv'
<1>. SUFFICES ASSUME SlotInv, [Next]_vars PROVE SlotInv'
    OBVIOUS
<1>1. CASE Tick
    BY <1>1, NextTypeOK DEF Tick, SlotInv, SlotAccounting, TypeOK
<1>2. ASSUME NEW a \in Addrs, NEW c \in ChunkIds, AllowRequest(a, c)
      PROVE  SlotInv'
    BY <1>2, AllowRequestSlotInv
<1>3. ASSUME NEW tr \in serving, NEW sent \in BOOLEAN, FinishTransfer(tr, sent)
      PROVE  SlotInv'
    <2>1. TypeOK'
        BY <1>3, NextTypeOK DEF SlotInv, Next
    <2>2. IsFiniteSet(serving') /\ Cardinality(serving') = Cardinality(serving) - 1
        BY <1>3, FS_RemoveElement DEF FinishTransfer, SlotInv
    <2>3. Cardinality(serving) > 0
        BY <1>3, FS_EmptySet, FS_CardinalityType DEF SlotInv
    <2>4. active' = active - 1
        BY <1>3, <2>3 DEF FinishTransfer, Released, SlotInv, SlotAccounting
    <2>5. SlotAccounting'
        BY <1>3, <2>2, <2>4, FS_CardinalityType DEF SlotInv, SlotAccounting
    <2>6. \A b \in Addrs : info'[b].last = info[b].last
        BY <1>3, StampedType DEF FinishTransfer, SlotInv, TypeOK
    <2>7. QED
        BY <1>3, <2>1, <2>2, <2>5, <2>6 DEF FinishTransfer, SlotInv, TypeOK
<1>4. CASE Cleanup
    <2>1. TypeOK'
        BY <1>4, NextTypeOK DEF SlotInv, Next
    <2>2. \A x \in serving : x[3] = now => info'[x[1]].last = now
        BY <1>4 DEF Cleanup, SlotInv, TypeOK, LimiterAssumption
    <2>3. QED
        BY <1>4, <2>1, <2>2 DEF Cleanup, SlotInv, SlotAccounting
<1>5. CASE UNCHANGED vars
    BY <1>5 DEF vars, SlotInv, SlotAccounting, TypeOK
<1>6. QED
    BY <1>1, <1>2, <1>3, <1>4, <1>5 DEF Next

(* nActiveTransfers always equals the number of transfers in progress and *)
(* never exceeds nMaxConcurrentTransfers.                                 *)
THEOREM SlotAccountingHolds == Spec => []SlotAccounting
<1>1. SlotInv => SlotAccounting
    BY DEF SlotInv
<1>2. QED
    BY <1>1, InitSlotInv, NextSlotInv, PTL DEF Spec


-----------------------------------------------------------------------------
(* PerPeerRate is not inductive: an admission is allowed on the length of *)
(* requestTimes after pruning, so the proof needs that this window still  *)
(* holds every admitted request of the last RateWindow seconds.  The ban  *)
(* lift and Cleanup both empty requestTimes; they do so only when no such *)
(* request is left, because a ban outlasts the window (it is set one      *)
(* second or more after the peer's last admission, by the "too fast"     *)
(* check) and Cleanup waits IdleExpiry after the last request.            *)

(* The admitted requests of peer a, and those still inside the window.   *)
OfPeer(a) == {x \in admitted : x[1] = a}
Recent(a) == {x \in OfPeer(a) : now - x[3] <= RateWindow}

(* Time t is an entry of the request window ts.                           *)
InTimes(ts, t) == \E j \in 1 .. Len(ts) : ts[j] = t

(* Peer a's entry accounts for its recent admissions: each is at or      *)
(* before the last admission and is still in requestTimes, and a ban set  *)
(* on the peer ends more than BanDuration after each of its admissions.   *)
WindowHolds(a) ==
    /\ info[a].last <= now
    /\ \A x \in Recent(a) : x[3] <= info[a].last /\ InTimes(info[a].times, x[3])
    /\ info[a].banned =>
           \A x \in OfPeer(a) : x[3] + BanDuration < info[a].banUntil

RateInv ==
    /\ TypeOK
    /\ now >= StartTime
    /\ IsFiniteSet(admitted)
    /\ PerPeerRate
    /\ \A x \in admitted : StartTime <= x[3] /\ x[3] <= now
    /\ \A x, y \in admitted : x[1] = y[1] /\ x[3] = y[3] => x = y
    /\ \A a \in Addrs : WindowHolds(a)

(* A set of requests with distinct times, all in window ts, is no larger  *)
(* than the window.                                                       *)
LEMMA WindowBound ==
    ASSUME NEW R, NEW ts \in Seq(Nat),
           \A x, y \in R : x[3] = y[3] => x = y,
           \A x \in R : InTimes(ts, x[3])
    PROVE  IsFiniteSet(R) /\ Cardinality(R) <= Len(ts)
<1>. DEFINE f == [x \in R |-> CHOOSE j \in 1 .. Len(ts) : ts[j] = x[3]]
<1>1. \A x \in R : f[x] \in 1 .. Len(ts) /\ ts[f[x]] = x[3]
    BY DEF InTimes
<1>2. f \in Injection(R, 1 .. Len(ts))
    <2>1. f \in [R -> 1 .. Len(ts)]
        BY <1>1
    <2>2. ASSUME NEW x \in R, NEW y \in R, f[x] = f[y] PROVE x = y
        BY <1>1, <2>2
    <2>3. QED
        BY <2>1, <2>2 DEF Injection, IsInjective
<1>3. IsFiniteSet(1 .. Len(ts)) /\ Cardinality(1 .. Len(ts)) = Len(ts)
    <2>1. Len(ts) \in Nat
        BY LenProperties
    <2>2. /\ IsFiniteSet(1 .. Len(ts))
          /\ Cardinality(1 .. Len(ts)) = IF 1 > Len(ts) THEN 0 ELSE Len(ts) - 1 + 1
        BY <2>1, FS_Interval
    <2>3. QED
        BY <2>1, <2>2
<1>4. QED
    BY <1>2, <1>3, FS_Injection

(* Pruning drops a prefix of the window, every entry of which is older    *)
(* than RateWindow.                                                       *)
LEMMA PruneOldSplit ==
    ASSUME NEW ts \in Seq(Nat)
    PROVE  \E k \in 0 .. Len(ts) :
               /\ PruneOld(ts) = SubSeq(ts, k + 1, Len(ts))
               /\ \A i \in 1 .. k : now - ts[i] > RateWindow
<1>. DEFINE Old(i) == now - ts[i] > RateWindow
            Bad == {i \in 1 .. Len(ts) : ~Old(i)}
<1>0. Len(ts) \in Nat
    BY LenProperties
<1>1. \E j \in 0 .. Len(ts) : /\ \A i \in 1 .. j : i \notin Bad
                              /\ j < Len(ts) => j + 1 \in Bad
    <2>. HIDE DEF Bad
    <2>1. QED
        BY <1>0, LongestPrefix
<1>2. \E j \in 0 .. Len(ts) : /\ \A i \in 1 .. j : Old(i)
                              /\ j < Len(ts) => ~Old(j + 1)
    BY <1>1
<1>3. QED
    BY <1>2 DEF PruneOld

(* Pruning keeps every entry of the last RateWindow seconds.              *)
LEMMA PruneKeepsRecent ==
    ASSUME NEW ts \in Seq(Nat), NEW t, now \in Int,
           now - t <= RateWindow, InTimes(ts, t)
    PROVE  InTimes(PruneOld(ts), t)
<1>1. PICK k \in 0 .. Len(ts) :
          /\ PruneOld(ts) = SubSeq(ts, k + 1, Len(ts))
          /\ \A i \in 1 .. k : now - ts[i] > RateWindow
    BY PruneOldSplit
<1>2. PICK j \in 1 .. Len(ts) : ts[j] = t
    BY DEF InTimes
<1>3. Len(ts) \in Nat /\ t \in Nat /\ j > k
    BY <1>1, <1>2, LenProperties
<1>4. /\ Len(SubSeq(ts, k + 1, Len(ts))) = Len(ts) - k
      /\ SubSeq(ts, k + 1, Len(ts))[j - k] = t
    BY <1>2, <1>3, SubSeqProperties
<1>5. j - k \in 1 .. Len(PruneOld(ts)) /\ PruneOld(ts)[j - k] = t
    BY <1>1, <1>2, <1>3, <1>4
<1>6. QED
    BY <1>5 DEF InTimes

(* An entry of the window stays one after an append.                      *)
LEMMA AppendKeeps ==
    ASSUME NEW ts \in Seq(Nat), NEW e \in Nat, NEW t,
           InTimes(ts, t) \/ t = e
    PROVE  InTimes(Append(ts, e), t)
BY AppendProperties DEF InTimes

(* The limits under which the window argument holds: a ban, and the idle  *)
(* time after which Cleanup forgets a peer, last at least the window      *)
(* (nBanDurationSec 300 and the 600 s of Cleanup against 60 s).           *)
BanOutlastsWindow == BanDuration >= RateWindow /\ IdleExpiry >= RateWindow

(* Past the ban check, the entry AllowRequest works on is unbanned, keeps *)
(* the last request time, and its window still holds the recent requests: *)
(* a ban lift empties requestTimes only when none is left.               *)
LEMMA UnbannedKeepsRecent ==
    ASSUME RateInv, BanOutlastsWindow, NEW a \in Addrs, ~StillBanned(info[a])
    PROVE  /\ Unbanned(info[a]) \in PeerInfo
           /\ Unbanned(info[a]).last = info[a].last
           /\ ~Unbanned(info[a]).banned
           /\ \A x \in Recent(a) : InTimes(Unbanned(info[a]).times, x[3])
<1>. DEFINE i0 == info[a]
<1>1. i0 \in PeerInfo /\ now \in Nat /\ WindowHolds(a)
    BY DEF RateInv, TypeOK
<1>2. Unbanned(i0) \in PeerInfo /\ Unbanned(i0).last = i0.last
    BY <1>1, UnbannedType
<1>3. CASE i0.banned /\ now >= i0.banUntil
    <2>1. Recent(a) = {}
        <3>1. SUFFICES ASSUME NEW x \in Recent(a) PROVE FALSE
            OBVIOUS
        <3>2. x \in admitted /\ x[3] \in Nat /\ i0.banUntil \in Nat
            BY <1>1 DEF Recent, OfPeer, RateInv, TypeOK, PeerInfo
        <3>3. x[3] + BanDuration < i0.banUntil
            BY <1>1, <1>3 DEF WindowHolds, Recent, OfPeer
        <3>4. QED
            BY <1>1, <1>3, <3>2, <3>3 DEF Recent, BanOutlastsWindow
    <2>2. ~Unbanned(i0).banned
        BY <1>3 DEF Unbanned
    <2>3. QED
        BY <1>2, <2>1, <2>2
<1>4. CASE ~(i0.banned /\ now >= i0.banUntil)
    <2>1. Unbanned(i0) = i0 /\ ~i0.banned
        BY <1>1, <1>4 DEF Unbanned, StillBanned, PeerInfo
    <2>2. QED
        BY <1>1, <2>1 DEF WindowHolds
<1>5. QED
    BY <1>3, <1>4

(* A request that passes the "too fast" check comes after every earlier  *)
(* admission of the same peer.                                            *)
LEMMA AdmittedBeforeNow ==
    ASSUME RateInv, NEW a \in Addrs, ~TooFast(Unbanned(info[a]))
    PROVE  \A x \in OfPeer(a) : x[3] < now
<1>1. info[a] \in PeerInfo /\ now \in Nat /\ WindowHolds(a)
    BY DEF RateInv, TypeOK
<1>2. Unbanned(info[a]).last = info[a].last /\ info[a].last \in Nat
    BY <1>1, UnbannedType DEF PeerInfo
<1>3. info[a].last <= 0 \/ now - info[a].last >= MinBetween
    BY <1>1, <1>2 DEF TooFast, LimiterAssumption
<1>4. TAKE x \in OfPeer(a)
<1>5. x[3] \in Nat /\ StartTime <= x[3]
    BY DEF OfPeer, RateInv, TypeOK
<1>6. CASE now - x[3] <= RateWindow
    <2>1. x[3] <= info[a].last
        BY <1>1, <1>6 DEF WindowHolds, Recent
    <2>2. QED
        BY <1>1, <1>2, <1>3, <1>5, <2>1
<1>7. CASE now - x[3] > RateWindow
    BY <1>1, <1>5, <1>7 DEF LimiterAssumption
<1>8. QED
    BY <1>1, <1>5, <1>6, <1>7 DEF LimiterAssumption

(* A step that leaves now and the admissions alone keeps RateInv when it *)
(* keeps the type and every peer's entry accounting for its requests.    *)
LEMMA InfoStepRateInv ==
    ASSUME RateInv, TypeOK', now' = now, admitted' = admitted,
           \A b \in Addrs : WindowHolds(b)'
    PROVE  RateInv'
BY DEF RateInv, PerPeerRate, AdmittedIn

(* An entry whose window, last request and ban are unchanged still        *)
(* accounts for the peer's requests.                                      *)
LEMMA EntryFrame ==
    ASSUME NEW b, WindowHolds(b), now' = now, admitted' = admitted,
           info'[b].last = info[b].last, info'[b].times = info[b].times,
           info'[b].banned = info[b].banned, info'[b].banUntil = info[b].banUntil
    PROVE  WindowHolds(b)'
BY DEF WindowHolds, Recent, OfPeer, InTimes

(* A clock tick: a window that ends a second later holds no request the  *)
(* window ending now did not, since nothing is admitted in the future.    *)
LEMMA TickRateInv ==
    ASSUME RateInv, Tick
    PROVE  RateInv'
<1>1. TypeOK'
    BY NextTypeOK DEF RateInv, Next
<1>2. now \in Nat /\ now' = now + 1 /\ UNCHANGED <<info, admitted>>
    BY DEF RateInv, TypeOK, Tick
<1>3. ASSUME NEW a \in Addrs, NEW t \in StartTime .. now'
      PROVE  Cardinality(AdmittedIn(a, t)') <= MaxPerMinute
    <2>1. CASE t <= now
        BY <1>2, <2>1 DEF RateInv, PerPeerRate, AdmittedIn
    <2>2. CASE t = now + 1
        <3>1. AdmittedIn(a, t)' \subseteq AdmittedIn(a, now)
            BY <1>2, <2>2 DEF RateInv, AdmittedIn, TypeOK, LimiterAssumption
        <3>2. IsFiniteSet(AdmittedIn(a, now))
            BY FS_Subset DEF RateInv, AdmittedIn
        <3>3. Cardinality(AdmittedIn(a, now)) <= MaxPerMinute
            BY <1>2 DEF RateInv, PerPeerRate
        <3>4. QED
            BY <3>1, <3>2, <3>3, FS_Subset, FS_CardinalityType DEF LimiterAssumption
    <2>3. QED
        BY <1>2, <1>3, <2>1, <2>2
<1>4. ASSUME NEW b \in Addrs PROVE WindowHolds(b)'
    <2>1. info[b].last <= now /\ info[b].last \in Nat /\ WindowHolds(b)
        BY DEF RateInv, WindowHolds, TypeOK, PeerInfo
    <2>2. Recent(b)' \subseteq Recent(b)
        BY <1>2 DEF Recent, OfPeer, RateInv, TypeOK, LimiterAssumption
    <2>3. OfPeer(b)' = OfPeer(b)
        BY <1>2 DEF OfPeer
    <2>4. QED
        BY <1>2, <2>1, <2>2, <2>3 DEF WindowHolds
<1>5. PerPeerRate'
    BY <1>3 DEF PerPeerRate
<1>6. \A x \in admitted' : StartTime <= x[3] /\ x[3] <= now'
    BY <1>2 DEF RateInv, TypeOK
<1>7. QED
    BY <1>1, <1>2, <1>4, <1>5, <1>6 DEF RateInv

(* The end of a transfer: RecordServed changes only a chunk's served     *)
(* time, so every peer's window, last request and ban stay as they were.  *)
LEMMA FinishRateInv ==
    ASSUME RateInv, NEW tr \in serving, NEW sent \in BOOLEAN, FinishTransfer(tr, sent)
    PROVE  RateInv'
<1>1. TypeOK'
    BY NextTypeOK DEF RateInv, Next
<1>2. now' = now /\ admitted' = admitted
    BY DEF FinishTransfer
<1>3. ASSUME NEW b \in Addrs PROVE WindowHolds(b)'
    <2>1. /\ info'[b].last = info[b].last /\ info'[b].times = info[b].times
          /\ info'[b].banned = info[b].banned /\ info'[b].banUntil = info[b].banUntil
        BY DEF FinishTransfer, Stamped, RateInv, TypeOK
    <2>2. QED
        BY <1>2, <2>1, EntryFrame DEF RateInv
<1>4. QED
    BY <1>1, <1>2, <1>3, InfoStepRateInv

(* Cleanup resets a peer idle for more than IdleExpiry: none of its       *)
(* requests is still in the window, so the empty window accounts for them.*)
LEMMA CleanupRateInv ==
    ASSUME RateInv, BanOutlastsWindow, Cleanup
    PROVE  RateInv'
<1>1. TypeOK'
    BY NextTypeOK DEF RateInv, Next
<1>2. now' = now /\ admitted' = admitted /\ now \in Nat
    BY DEF Cleanup, RateInv, TypeOK
<1>3. ASSUME NEW b \in Addrs PROVE WindowHolds(b)'
    <2>1. CASE now - info[b].last > IdleExpiry /\ ~info[b].banned
        <3>1. info'[b] = DefaultInfo
            BY <2>1 DEF Cleanup
        <3>2. Recent(b) = {}
            <4>1. SUFFICES ASSUME NEW x \in Recent(b) PROVE FALSE
                OBVIOUS
            <4>2. x[3] <= info[b].last /\ x[3] \in Nat /\ info[b].last \in Nat
                BY DEF RateInv, WindowHolds, Recent, OfPeer, TypeOK, PeerInfo
            <4>3. QED
                BY <1>2, <2>1, <4>2 DEF Recent, BanOutlastsWindow, LimiterAssumption
        <3>3. QED
            BY <1>2, <3>1, <3>2 DEF WindowHolds, DefaultInfo, Recent, OfPeer
    <2>2. CASE ~(now - info[b].last > IdleExpiry /\ ~info[b].banned)
        <3>1. info'[b] = info[b]
            BY <2>2 DEF Cleanup
        <3>2. QED
            BY <1>2, <3>1, EntryFrame DEF RateInv
    <2>3. QED
        BY <2>1, <2>2
<1>4. QED
    BY <1>1, <1>2, <1>3, InfoStepRateInv

(* AllowRequest, one case per return: a rejection keeps the admissions    *)
(* and leaves the peer's entry accounting for them (the ban set by the    *)
(* rate check ends BanDuration after now, and every admission of the peer *)
(* came before now); an admission adds one request to a window that held  *)
(* fewer than nMaxChunksPerPeerPerMinute.                                 *)
LEMMA AllowRequestRateInv ==
    ASSUME RateInv, BanOutlastsWindow, NEW a \in Addrs, NEW c \in ChunkIds,
           AllowRequest(a, c)
    PROVE  RateInv'
<1>. DEFINE i0 == info[a]
            i1 == Unbanned(i0)
            win == PruneOld(i1.times)
            n == <<a, c, now>>
<1>1. TypeOK'
    BY AllowRequestTypeOK DEF RateInv
<1>2. now' = now /\ now \in Nat /\ i0 \in PeerInfo /\ WindowHolds(a)
    BY DEF AllowRequest, RateInv, TypeOK
<1>3. ASSUME NEW b \in Addrs \ {a}, info' = [info EXCEPT ![a] = info'[a]]
      PROVE  info'[b] = info[b]
    BY <1>3 DEF RateInv, TypeOK
<1>4. CASE StillBanned(i0)
    <2>1. info' = info /\ admitted' = admitted
        BY <1>4 DEF AllowRequest
    <2>2. \A b \in Addrs : WindowHolds(b)'
        BY <1>2, <2>1, EntryFrame DEF RateInv
    <2>3. QED
        BY <1>1, <1>2, <2>1, <2>2, InfoStepRateInv
<1>5. CASE ~StillBanned(i0)
    <2>1. /\ i1 \in PeerInfo /\ i1.last = i0.last /\ ~i1.banned
          /\ \A x \in Recent(a) : InTimes(i1.times, x[3])
        BY <1>5, UnbannedKeepsRecent
    <2>2. win \in Seq(Nat) /\ \A x \in Recent(a) : InTimes(win, x[3])
        <3>1. i1.times \in Seq(Nat)
            BY <2>1 DEF PeerInfo
        <3>2. win \in Seq(Nat)
            BY <1>2, <3>1, PruneOldType
        <3>3. ASSUME NEW x \in Recent(a) PROVE InTimes(win, x[3])
            BY <1>2, <2>1, <3>1, PruneKeepsRecent DEF Recent
        <3>4. QED
            BY <3>2, <3>3
    <2>3. CASE Rejected(i1, c)
        <3>1. info' = [info EXCEPT ![a] = i1] /\ admitted' = admitted
            BY <1>5, <2>3 DEF AllowRequest
        <3>2. WindowHolds(a)'
            BY <1>2, <2>1, <3>1 DEF WindowHolds, Recent, OfPeer, RateInv, TypeOK
        <3>3. \A b \in Addrs \ {a} : WindowHolds(b)'
            BY <1>2, <1>3, <3>1, EntryFrame DEF RateInv
        <3>4. QED
            BY <1>1, <1>2, <3>1, <3>2, <3>3, InfoStepRateInv
    <2>4. CASE ~Rejected(i1, c)
        <3>1. \A x \in OfPeer(a) : x[3] < now
            BY <2>4, AdmittedBeforeNow DEF Rejected
        <3>2. Len(win) \in Nat
            BY <2>2, LenProperties
        <3>3. CASE Len(win) >= MaxPerMinute
            <4>. DEFINE e == RateRejected(i1, win)
            <4>1. info' = [info EXCEPT ![a] = e] /\ admitted' = admitted
                BY <1>5, <2>4, <3>2, <3>3 DEF AllowRequest, LimiterAssumption
            <4>2. /\ e.times = win /\ e.last = i0.last
                  /\ e.banned => e.banUntil = now + BanDuration
                BY <2>1 DEF RateRejected, BanEnd
            <4>3. \A x \in OfPeer(a) : x[3] + BanDuration < now + BanDuration
                BY <1>2, <3>1 DEF OfPeer, RateInv, TypeOK, LimiterAssumption
            <4>4. WindowHolds(a)'
                BY <1>2, <2>2, <4>1, <4>2, <4>3 DEF WindowHolds, Recent, OfPeer, RateInv, TypeOK
            <4>5. \A b \in Addrs \ {a} : WindowHolds(b)'
                BY <1>2, <1>3, <4>1, EntryFrame DEF RateInv
            <4>6. QED
                BY <1>1, <1>2, <4>1, <4>4, <4>5, InfoStepRateInv
        <3>4. CASE Len(win) < MaxPerMinute
            <4>1. info' = [info EXCEPT ![a] = Admitted(i1, win)] /\ admitted' = admitted \cup {n}
                BY <1>5, <2>4, <3>4 DEF AllowRequest
            <4>2. IsFiniteSet(admitted')
                BY <4>1, FS_AddElement DEF RateInv
            <4>3. \A x \in admitted' : StartTime <= x[3] /\ x[3] <= now'
                BY <1>2, <4>1 DEF RateInv
            <4>4. \A x, y \in admitted' : x[1] = y[1] /\ x[3] = y[3] => x = y
                <5>1. \A y \in admitted : y[1] = a => y[3] # now
                    BY <1>2, <3>1 DEF OfPeer, RateInv, TypeOK
                <5>2. QED
                    BY <4>1, <5>1 DEF RateInv
            <4>5. Recent(a)' = Recent(a) \cup {n}
                BY <1>2, <4>1 DEF Recent, OfPeer, LimiterAssumption
            <4>6. IsFiniteSet(Recent(a)) /\ Cardinality(Recent(a)) <= Len(win)
                <5>1. \A x, y \in Recent(a) : x[3] = y[3] => x = y
                    BY DEF RateInv, Recent, OfPeer
                <5>2. QED
                    BY <2>2, <5>1, WindowBound
            <4>7. ASSUME NEW b \in Addrs, NEW t \in StartTime .. now'
                  PROVE  Cardinality(AdmittedIn(b, t)') <= MaxPerMinute
                <5>1. CASE b = a /\ t = now
                    <6>1. AdmittedIn(b, t)' = Recent(a) \cup {n}
                        BY <1>2, <4>1, <4>3, <5>1 DEF AdmittedIn, Recent, OfPeer, RateInv, TypeOK
                    <6>2. Cardinality(Recent(a)) \in Nat
                        BY <4>6, FS_CardinalityType
                    <6>3. Cardinality(Recent(a) \cup {n}) =
                              IF n \in Recent(a) THEN Cardinality(Recent(a))
                              ELSE Cardinality(Recent(a)) + 1
                        BY <4>6, FS_AddElement
                    <6>4. Cardinality(Recent(a) \cup {n}) <= MaxPerMinute
                        BY <3>2, <3>4, <4>6, <6>2, <6>3 DEF LimiterAssumption
                    <6>5. QED
                        BY <5>1, <6>1, <6>4
                <5>2. CASE ~(b = a /\ t = now)
                    <6>1. AdmittedIn(b, t)' = AdmittedIn(b, t)
                        BY <1>2, <4>1, <5>2 DEF AdmittedIn, RateInv, TypeOK
                    <6>2. QED
                        BY <1>2, <6>1 DEF RateInv, PerPeerRate
                <5>3. QED
                    BY <5>1, <5>2
            <4>8. WindowHolds(a)'
                <5>1. /\ Admitted(i1, win).times = Append(win, now)
                      /\ Admitted(i1, win).last = now
                      /\ ~Admitted(i1, win).banned
                    BY <2>1 DEF Admitted
                <5>2. info'[a] = Admitted(i1, win)
                    BY <4>1 DEF RateInv, TypeOK
                <5>3. ASSUME NEW x \in Recent(a)' PROVE InTimes(info'[a].times, x[3])
                    <6>1. InTimes(win, x[3]) \/ x[3] = now
                        BY <2>2, <4>5
                    <6>2. InTimes(Append(win, now), x[3])
                        BY <1>2, <2>2, <6>1, AppendKeeps
                    <6>3. QED
                        BY <5>1, <5>2, <6>2
                <5>4. \A x \in Recent(a)' : x[3] <= info'[a].last
                    BY <1>2, <4>3, <5>1, <5>2 DEF Recent, OfPeer
                <5>5. QED
                    BY <1>2, <5>1, <5>2, <5>3, <5>4 DEF WindowHolds
            <4>9. ASSUME NEW b \in Addrs \ {a} PROVE WindowHolds(b)'
                <5>1. info'[b] = info[b]
                    BY <1>3, <4>1
                <5>2. Recent(b)' = Recent(b) /\ OfPeer(b)' = OfPeer(b)
                    BY <1>2, <4>1 DEF Recent, OfPeer
                <5>3. QED
                    BY <1>2, <5>1, <5>2 DEF RateInv, WindowHolds
            <4>10. QED
                BY <1>1, <1>2, <4>2, <4>3, <4>4, <4>7, <4>8, <4>9 DEF RateInv, PerPeerRate
        <3>5. QED
            BY <3>2, <3>3, <3>4 DEF LimiterAssumption
    <2>5. QED
        BY <2>3, <2>4
<1>6. QED
    BY <1>4, <1>5

LEMMA InitRateInv == Init => RateInv
BY InitTypeOK, FS_EmptySet
   DEF Init, RateInv, PerPeerRate, AdmittedIn, WindowHolds, Recent, OfPeer,
       DefaultInfo, LimiterAssumption

LEMMA NextRateInv == RateInv /\ BanOutlastsWindow /\ [Next]_vars => RateInv'
<1>. SUFFICES ASSUME RateInv, BanOutlastsWindow, [Next]_vars PROVE RateInv'
    OBVIOUS
<1>1. CASE Tick
    BY <1>1, TickRateInv
<1>2. ASSUME NEW a \in Addrs, NEW c \in ChunkIds, AllowRequest(a, c)
      PROVE  RateInv'
    BY <1>2, AllowRequestRateInv
<1>3. ASSUME NEW tr \in serving, NEW sent \in BOOLEAN, FinishTransfer(tr, sent)
      PROVE  RateInv'
    BY <1>3, FinishRateInv
<1>4. CASE Cleanup
    BY <1>4, CleanupRateInv
<1>5. CASE UNCHANGED vars
    BY <1>5 DEF vars, RateInv, TypeOK, PerPeerRate, AdmittedIn, WindowHolds,
                Recent, OfPeer, InTimes
<1>6. QED
    BY <1>1, <1>2, <1>3, <1>4, <1>5 DEF Next

(* No peer is ever admitted more than nMaxChunksPerPeerPerMinute requests *)
(* in a window of RateWindow seconds, whatever the limits, as long as a   *)
(* ban and Cleanup's idle time last at least the window: the ban lift and *)
(* Cleanup clear requestTimes, and AllowRequest then counts from zero.    *)
THEOREM PerPeerRateHolds == BanOutlastsWindow => (Spec => []PerPeerRate)
<1>. SUFFICES ASSUME BanOutlastsWindow PROVE Spec => []PerPeerRate
    OBVIOUS
<1>1. RateInv /\ [Next]_vars => RateInv'
    BY NextRateInv
<1>2. RateInv => PerPeerRate
    BY DEF RateInv
<1>3. QED
    BY <1>1, <1>2, InitRateInv, PTL DEF Spec

=============
