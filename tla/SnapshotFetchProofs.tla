------------------------- MODULE SnapshotFetchProofs -------------------------
(***************************************************************************)
(* Proofs about SnapshotFetch for every value of its constants: the type   *)
(* invariant, and that the download is sequential (at most the smallest    *)
(* missing chunk is ever in flight).                                       *)
(***************************************************************************)
EXTENDS SnapshotFetch, SnapshotLemmas, FiniteSetTheorems, TLAPS

USE NAssumption, PeersAssumption, LimitsAssumption

(* GetNextChunkToRequest returns a missing chunk while one is missing.    *)
LEMMA NextNeededMissing ==
    ~IsComplete => NextNeeded \in Chunks \ received
<1>. SUFFICES ASSUME ~IsComplete PROVE NextNeeded \in Chunks \ received
    OBVIOUS
<1>1. Chunks \ received # {} /\ Chunks \ received \subseteq Nat
    BY DEF IsComplete, Chunks
<1>2. \E x \in Chunks \ received : \A y \in Chunks \ received : x <= y
    BY <1>1, LeastElement
<1>3. QED
    BY <1>2 DEF NextNeeded

(* and it is the smallest missing chunk.                                  *)
LEMMA NextNeededLeast ==
    ~IsComplete => \A d \in Chunks \ received : NextNeeded <= d
<1>. SUFFICES ASSUME ~IsComplete PROVE \A d \in Chunks \ received : NextNeeded <= d
    OBVIOUS
<1>1. Chunks \ received # {} /\ Chunks \ received \subseteq Nat
    BY DEF IsComplete, Chunks
<1>2. \E x \in Chunks \ received : \A y \in Chunks \ received : x <= y
    BY <1>1, LeastElement
<1>3. QED
    BY <1>2 DEF NextNeeded

(* The set of chunks of the manifest is finite, and so are its subsets.   *)
LEMMA ChunkSetsFinite ==
    ASSUME NEW S \in SUBSET Chunks
    PROVE  IsFiniteSet(S) /\ Cardinality(S) \in Nat
<1>1. IsFiniteSet(Chunks)
    BY FS_Interval DEF Chunks
<1>2. IsFiniteSet(S)
    BY <1>1, FS_Subset
<1>3. QED
    BY <1>2, FS_CardinalityType

(* RecordFailure, applied at least once, keeps a peer's state typed.      *)
LEMMA FailedStateType ==
    ASSUME NEW s \in PeerRec, NEW k \in Nat \ {0}, now \in Nat
    PROVE  FailedState(s, k) \in PeerRec
<1>. DEFINE f == IF s.fails + k >= 4 THEN 4 ELSE s.fails + k
<1>1. f \in 1 .. 4
    BY DEF PeerRec
<1>2. Backoff(f) \in Nat
    BY <1>1 DEF Backoff
<1>3. now + Backoff(f) \in Nat
    BY <1>2
<1>4. QED
    BY <1>1, <1>3 DEF FailedState, PeerRec

(* Every outcome of SaveChunk is a flag and a file content.                *)
LEMMA SaveOutcomesType ==
    ASSUME NEW d
    PROVE  SaveOutcomes(d) \subseteq [ok : BOOLEAN, file : FileContents]
<1>1. [ok |-> TRUE, file |-> "good"] \in [ok : BOOLEAN, file : FileContents]
    BY DEF FileContents
<1>2. [ok |-> FALSE, file |-> "none"] \in [ok : BOOLEAN, file : FileContents]
    BY DEF FileContents
<1>3. [ok |-> TRUE, file |-> "trunc"] \in [ok : BOOLEAN, file : FileContents]
    BY DEF FileContents
<1>4. QED
    BY <1>1, <1>2, <1>3 DEF SaveOutcomes

-----------------------------------------------------------------------------
LEMMA InitTypeOK == Init => TypeOK
BY DEF Init, TypeOK, PeerRec, DefaultPeer, NoTime, FileContents

LEMMA NextTypeOK == TypeOK /\ [Next]_vars => TypeOK'
<1>. SUFFICES ASSUME TypeOK, [Next]_vars PROVE TypeOK'
    OBVIOUS
<1>1. CASE Tick
    BY <1>1 DEF Tick, TypeOK
<1>2. ASSUME NEW p \in Peers, RequestChunk(p) PROVE TypeOK'
    <2>1. NextNeeded \in Chunks
        BY <1>2, NextNeededMissing DEF RequestChunk, SelectPeerForNextChunk
    <2>2. QED
        BY <1>2, <2>1 DEF RequestChunk, TypeOK, PeerRec
<1>3. ASSUME NEW p \in Peers, NEW c \in Chunks, Serve(p, c) PROVE TypeOK'
    BY <1>3 DEF Serve, TypeOK, Data
<1>4. ASSUME NEW p \in Peers, NEW c \in Chunks, Ignore(p, c) PROVE TypeOK'
    BY <1>4 DEF Ignore, TypeOK
<1>5. ASSUME NEW r \in replies, ReceiveChunk(r) PROVE TypeOK'
    <2>. DEFINE p == r.peer
                c == r.chunk
    <2>1. p \in Peers /\ c \in Chunks /\ r.data \in Data
        BY DEF TypeOK
    <2>2. CASE chunkToNode[c] = p
        <3>1. PICK o \in SaveOutcomes(r.data) :
                 /\ stored' = IF o.file = "none" THEN stored
                              ELSE [stored EXCEPT ![c] = o.file]
                 /\ received' = IF o.ok THEN received \cup {c} ELSE received
                 /\ peerState' = [peerState EXCEPT ![p] =
                                    IF o.ok THEN SucceededState(@)
                                    ELSE FailedState(@, 1)]
                 /\ chunkToNode' = [chunkToNode EXCEPT ![c] = NoPeer]
            BY <1>5, <2>2 DEF ReceiveChunk
        <3>2. o.ok \in BOOLEAN /\ o.file \in FileContents
            BY <3>1, SaveOutcomesType
        <3>3. peerState[p] \in PeerRec
            BY <2>1 DEF TypeOK
        <3>4. FailedState(peerState[p], 1) \in PeerRec
            BY <3>3, FailedStateType DEF TypeOK
        <3>5. SucceededState(peerState[p]) \in PeerRec
            BY <3>3 DEF SucceededState, PeerRec
        <3>6. peerState' \in [Peers -> PeerRec]
            BY <3>1, <3>4, <3>5 DEF TypeOK
        <3>7. QED
            BY <1>5, <2>1, <3>1, <3>2, <3>6 DEF ReceiveChunk, TypeOK
    <2>3. CASE chunkToNode[c] # p
        BY <1>5, <2>3 DEF ReceiveChunk, TypeOK
    <2>4. QED
        BY <2>2, <2>3
<1>6. CASE GetTimedOutRequests
    <2>. DEFINE TimedOut == {c \in InFlight :
                               /\ chunkToNode[c] \in connected
                               /\ now - peerState[chunkToNode[c]].last > Timeout}
                Count(p) == Cardinality({c \in TimedOut : chunkToNode[c] = p})
    <2>1. ASSUME NEW p \in Peers
          PROVE  (IF Count(p) = 0 THEN peerState[p]
                  ELSE FailedState(peerState[p], Count(p))) \in PeerRec
        <3>1. Count(p) \in Nat
            BY ChunkSetsFinite DEF InFlight
        <3>2. peerState[p] \in PeerRec
            BY DEF TypeOK
        <3>3. QED
            BY <3>1, <3>2, FailedStateType DEF TypeOK
    <2>2. QED
        BY <1>6, <2>1 DEF GetTimedOutRequests, TypeOK
<1>7. ASSUME NEW p \in Peers, RemovePeer(p) PROVE TypeOK'
    BY <1>7 DEF RemovePeer, TypeOK, PeerRec, DefaultPeer
<1>8. CASE UNCHANGED vars
    BY <1>8 DEF vars, TypeOK
<1>9. QED
    BY <1>1, <1>2, <1>3, <1>4, <1>5, <1>6, <1>7, <1>8 DEF Next

(* The type invariant holds in every reachable state.                     *)
THEOREM TypeCorrect == Spec => []TypeOK
BY InitTypeOK, NextTypeOK, PTL DEF Spec

-----------------------------------------------------------------------------
(* SequentialDownload is inductive, given the type invariant: a request   *)
(* only ever goes out for the smallest missing chunk, and only when it is *)
(* not in flight; a chunk leaves the missing set only through the reply   *)
(* to its own request, which clears its entry.                            *)
LEMMA NextSequential ==
    TypeOK /\ SequentialDownload /\ [Next]_vars => SequentialDownload'
<1>. SUFFICES ASSUME TypeOK, SequentialDownload, [Next]_vars
              PROVE  SequentialDownload'
    OBVIOUS
<1>. USE DEF SequentialDownload, InFlight
<1>1. CASE Tick
    BY <1>1 DEF Tick, NextNeeded, IsComplete
<1>2. ASSUME NEW p \in Peers, RequestChunk(p) PROVE SequentialDownload'
    <2>1. NextNeeded' = NextNeeded
        BY <1>2 DEF RequestChunk, NextNeeded, IsComplete
    <2>2. \A c \in Chunks : chunkToNode'[c] # NoPeer =>
                               c = NextNeeded \/ chunkToNode[c] # NoPeer
        BY <1>2 DEF RequestChunk, TypeOK
    <2>3. QED
        BY <2>1, <2>2
<1>3. ASSUME NEW p \in Peers, NEW c \in Chunks, Serve(p, c)
      PROVE  SequentialDownload'
    BY <1>3 DEF Serve, NextNeeded, IsComplete
<1>4. ASSUME NEW p \in Peers, NEW c \in Chunks, Ignore(p, c)
      PROVE  SequentialDownload'
    BY <1>4 DEF Ignore, NextNeeded, IsComplete
<1>5. ASSUME NEW r \in replies, ReceiveChunk(r) PROVE SequentialDownload'
    <2>. DEFINE p == r.peer
                c == r.chunk
    <2>1. p \in Peers /\ c \in Chunks
        BY DEF TypeOK
    <2>2. CASE chunkToNode[c] = p
        <3>1. chunkToNode' = [chunkToNode EXCEPT ![c] = NoPeer]
            BY <1>5, <2>2 DEF ReceiveChunk
        <3>2. \A d \in Chunks : chunkToNode[d] # NoPeer => d = c
            BY <2>1, <2>2
        <3>3. \A d \in Chunks : chunkToNode'[d] = NoPeer
            BY <3>1, <3>2 DEF TypeOK
        <3>4. QED
            BY <3>3
    <2>3. CASE chunkToNode[c] # p
        BY <1>5, <2>3 DEF ReceiveChunk, NextNeeded, IsComplete
    <2>4. QED
        BY <2>2, <2>3
<1>6. CASE GetTimedOutRequests
    <2>1. \A c \in Chunks : chunkToNode'[c] # NoPeer => chunkToNode[c] # NoPeer
        BY <1>6 DEF GetTimedOutRequests
    <2>2. QED
        BY <1>6, <2>1 DEF GetTimedOutRequests, NextNeeded, IsComplete
<1>7. ASSUME NEW p \in Peers, RemovePeer(p) PROVE SequentialDownload'
    <2>1. \A c \in Chunks : chunkToNode'[c] # NoPeer => chunkToNode[c] # NoPeer
        BY <1>7 DEF RemovePeer
    <2>2. QED
        BY <1>7, <2>1 DEF RemovePeer, NextNeeded, IsComplete
<1>8. CASE UNCHANGED vars
    BY <1>8 DEF vars, NextNeeded, IsComplete
<1>9. QED
    BY <1>1, <1>2, <1>3, <1>4, <1>5, <1>6, <1>7, <1>8 DEF Next

(* At most the smallest missing chunk is ever in flight.                  *)
THEOREM SequentialDownloadHolds == Spec => []SequentialDownload
<1>1. Init => SequentialDownload
    BY PeersAssumption DEF Init, SequentialDownload, InFlight
<1>2. QED
    BY <1>1, NextSequential, TypeCorrect, PTL DEF Spec

-----------------------------------------------------------------------------
(* Refinement of DownloadOrder.  Only the snapchunk handler changes        *)
(* mapChunksReceived, and only for the chunk in flight to the replying     *)
(* peer; by SequentialDownload that chunk is GetNextChunkToRequest's, the  *)
(* smallest missing one, which is the abstract Accept step.                *)
LEMMA ReceiveAccepts ==
    ASSUME TypeOK, SequentialDownload, NEW r \in replies, ReceiveChunk(r)
    PROVE  [Order!Next]_received
<1>. DEFINE p == r.peer
            c == r.chunk
<1>1. p \in Peers /\ c \in Chunks
    BY DEF TypeOK
<1>2. CASE chunkToNode[c] = p
    <2>1. PICK o \in SaveOutcomes(r.data) :
             received' = IF o.ok THEN received \cup {c} ELSE received
        BY <1>2 DEF ReceiveChunk
    <2>2. CASE ~o.ok
        BY <2>1, <2>2
    <2>3. CASE o.ok
        <3>1. c \in InFlight
            BY <1>1, <1>2, PeersAssumption DEF InFlight
        <3>2. c = NextNeeded
            BY <3>1 DEF SequentialDownload
        <3>3. ~IsComplete
            BY <3>2, <1>1 DEF NextNeeded, Chunks
        <3>4. c \in Chunks \ received /\ \A d \in Chunks \ received : c <= d
            BY <3>2, <3>3, NextNeededMissing, NextNeededLeast
        <3>5. Order!Accept(c)
            BY <2>1, <2>3, <3>4 DEF Order!Accept, Order!Missing, Chunks
        <3>6. QED
            BY <1>1, <3>5 DEF Order!Next, Chunks
    <2>4. QED
        BY <2>2, <2>3
<1>3. CASE chunkToNode[c] # p
    BY <1>3 DEF ReceiveChunk
<1>4. QED
    BY <1>2, <1>3

LEMMA NextAccepts ==
    TypeOK /\ SequentialDownload /\ [Next]_vars => [Order!Next]_received
<1>. SUFFICES ASSUME TypeOK, SequentialDownload, [Next]_vars
              PROVE  [Order!Next]_received
    OBVIOUS
<1>1. CASE \E r \in replies : ReceiveChunk(r)
    BY <1>1, ReceiveAccepts
<1>2. CASE ~\E r \in replies : ReceiveChunk(r)
    BY <1>2 DEF Next, vars, Tick, RequestChunk, Serve, Ignore,
               GetTimedOutRequests, RemovePeer
<1>3. QED
    BY <1>1, <1>2

(* The fetching side accepts chunks one at a time and in manifest order:  *)
(* the detailed specification implements DownloadOrder under the mapping  *)
(* have <- mapChunksReceived.                                             *)
THEOREM AcceptsInOrderHolds == Spec => AcceptsInOrder
<1>1. Init => Order!Init
    BY DEF Init, Order!Init
<1>2. QED
    BY <1>1, NextAccepts, TypeCorrect, SequentialDownloadHolds, PTL
       DEF Spec, AcceptsInOrder, Order!Spec

-----------------------------------------------------------------------------
(* TimeoutFromOwnRequest is inductive given the type invariant and         *)
(* SequentialDownload: a request goes out only when nothing is in flight,  *)
(* so the peer's new nLastRequestTime belongs to the one chunk in flight;  *)
(* RecordSuccess and RecordFailure leave nLastRequestTime alone, and       *)
(* RemovePeer resets it only together with erasing the peer's chunks.      *)
LEMMA NextOwnTimeout ==
    TypeOK /\ SequentialDownload /\ TimeoutFromOwnRequest /\ [Next]_vars
        => TimeoutFromOwnRequest'
<1>. SUFFICES ASSUME TypeOK, SequentialDownload, TimeoutFromOwnRequest,
                     [Next]_vars
              PROVE  TimeoutFromOwnRequest'
    OBVIOUS
<1>. USE DEF TimeoutFromOwnRequest, InFlight
<1>1. CASE Tick
    BY <1>1 DEF Tick
<1>2. ASSUME NEW p \in Peers, RequestChunk(p) PROVE TimeoutFromOwnRequest'
    <2>1. \A d \in Chunks : chunkToNode[d] = NoPeer
        BY <1>2 DEF RequestChunk, SelectPeerForNextChunk, SequentialDownload
    <2>2. NextNeeded \in Chunks
        BY <1>2, NextNeededMissing DEF RequestChunk, SelectPeerForNextChunk
    <2>3. \A d \in Chunks : chunkToNode'[d] # NoPeer =>
              d = NextNeeded /\ chunkToNode'[d] = p
        BY <1>2, <2>1, <2>2 DEF RequestChunk, TypeOK
    <2>4. peerState'[p].last = now /\ reqAt'[NextNeeded] = now
        BY <1>2, <2>2 DEF RequestChunk, TypeOK
    <2>5. QED
        BY <2>3, <2>4
<1>3. ASSUME NEW p \in Peers, NEW c \in Chunks, Serve(p, c)
      PROVE  TimeoutFromOwnRequest'
    BY <1>3 DEF Serve
<1>4. ASSUME NEW p \in Peers, NEW c \in Chunks, Ignore(p, c)
      PROVE  TimeoutFromOwnRequest'
    BY <1>4 DEF Ignore
<1>5. ASSUME NEW r \in replies, ReceiveChunk(r) PROVE TimeoutFromOwnRequest'
    <2>. DEFINE p == r.peer
                c == r.chunk
    <2>1. p \in Peers /\ c \in Chunks
        BY DEF TypeOK
    <2>2. CASE chunkToNode[c] = p
        <3>1. chunkToNode' = [chunkToNode EXCEPT ![c] = NoPeer]
            BY <1>5, <2>2 DEF ReceiveChunk
        <3>2. \A d \in Chunks : chunkToNode[d] # NoPeer => d = c
            BY <2>1, <2>2 DEF SequentialDownload
        <3>3. \A d \in Chunks : chunkToNode'[d] = NoPeer
            BY <3>1, <3>2 DEF TypeOK
        <3>4. QED
            BY <3>3
    <2>3. CASE chunkToNode[c] # p
        BY <1>5, <2>3 DEF ReceiveChunk
    <2>4. QED
        BY <2>2, <2>3
<1>6. CASE GetTimedOutRequests
    <2>. DEFINE TimedOut == {c \in InFlight :
                               /\ chunkToNode[c] \in connected
                               /\ now - peerState[chunkToNode[c]].last > Timeout}
                Count(p) == Cardinality({c \in TimedOut : chunkToNode[c] = p})
    <2>1. ASSUME NEW p \in Peers PROVE peerState'[p].last = peerState[p].last
        BY <1>6 DEF GetTimedOutRequests, FailedState
    <2>2. \A c \in Chunks : chunkToNode'[c] # NoPeer =>
                               chunkToNode'[c] = chunkToNode[c]
        BY <1>6 DEF GetTimedOutRequests
    <2>3. QED
        BY <1>6, <2>1, <2>2 DEF GetTimedOutRequests, TypeOK
<1>7. ASSUME NEW p \in Peers, RemovePeer(p) PROVE TimeoutFromOwnRequest'
    <2>1. \A c \in Chunks : chunkToNode'[c] # NoPeer =>
              chunkToNode'[c] = chunkToNode[c] /\ chunkToNode[c] # p
        BY <1>7 DEF RemovePeer
    <2>2. \A q \in Peers \ {p} : peerState'[q] = peerState[q]
        BY <1>7 DEF RemovePeer, TypeOK
    <2>3. QED
        BY <1>7, <2>1, <2>2 DEF RemovePeer, TypeOK
<1>8. CASE UNCHANGED vars
    BY <1>8 DEF vars
<1>9. QED
    BY <1>1, <1>2, <1>3, <1>4, <1>5, <1>6, <1>7, <1>8 DEF Next

(* GetTimedOutRequests measures each chunk in flight from its own request: *)
(* the peer's nLastRequestTime is always the time that chunk was asked.   *)
THEOREM TimeoutFromOwnRequestHolds == Spec => []TimeoutFromOwnRequest
<1>1. Init => TimeoutFromOwnRequest
    BY PeersAssumption DEF Init, TimeoutFromOwnRequest, InFlight
<1>2. QED
    BY <1>1, NextOwnTimeout, TypeCorrect, SequentialDownloadHolds, PTL DEF Spec

-----------------------------------------------------------------------------
(* A chunk in flight is never one already received: by SequentialDownload *)
(* it is GetNextChunkToRequest's chunk, which is missing.                  *)
LEMMA InFlightMissing ==
    ASSUME TypeOK, SequentialDownload, NEW c \in InFlight
    PROVE  c \notin received
<1>1. c = NextNeeded /\ c \in Chunks
    BY DEF SequentialDownload, InFlight
<1>2. ~IsComplete
    BY <1>1 DEF NextNeeded, Chunks
<1>3. QED
    BY <1>1, <1>2, NextNeededMissing

(* With a disk that does not fail, SaveChunk reports success only after   *)
(* writing the manifest's bytes.                                          *)
LEMMA SaveOutcomesSound ==
    ASSUME ~DiskCanFail, NEW d, NEW o \in SaveOutcomes(d)
    PROVE  o.ok => o.file = "good"
BY DEF SaveOutcomes

(* ReceivedAreStored is inductive given TypeOK and SequentialDownload     *)
(* when writes do not fail: a chunk is marked received only with its file *)
(* just written good, and no later save touches it, because only chunks   *)
(* in flight are saved and those are never received ones.                 *)
LEMMA NextStored ==
    ASSUME ~DiskCanFail
    PROVE  TypeOK /\ SequentialDownload /\ ReceivedAreStored /\ [Next]_vars
               => ReceivedAreStored'
<1>. SUFFICES ASSUME TypeOK, SequentialDownload, ReceivedAreStored,
                     [Next]_vars
              PROVE  ReceivedAreStored'
    OBVIOUS
<1>. USE DEF ReceivedAreStored
<1>1. CASE \E r \in replies : ReceiveChunk(r)
    <2>1. PICK r \in replies : ReceiveChunk(r)
        BY <1>1
    <2>. DEFINE p == r.peer
                c == r.chunk
    <2>2. p \in Peers /\ c \in Chunks
        BY DEF TypeOK
    <2>3. CASE chunkToNode[c] = p
        <3>1. PICK o \in SaveOutcomes(r.data) :
                 /\ stored' = IF o.file = "none" THEN stored
                              ELSE [stored EXCEPT ![c] = o.file]
                 /\ received' = IF o.ok THEN received \cup {c} ELSE received
            BY <2>1, <2>3 DEF ReceiveChunk
        <3>2. c \notin received
            BY <2>2, <2>3, InFlightMissing, PeersAssumption DEF InFlight
        <3>3. o.ok => o.file = "good"
            BY SaveOutcomesSound
        <3>4. \A d \in received : stored'[d] = stored[d]
            BY <3>1, <3>2 DEF TypeOK
        <3>5. o.ok => stored'[c] = "good"
            BY <3>1, <3>3, <2>2 DEF TypeOK
        <3>6. QED
            BY <3>1, <3>4, <3>5
    <2>4. CASE chunkToNode[c] # p
        BY <2>1, <2>4 DEF ReceiveChunk
    <2>5. QED
        BY <2>3, <2>4
<1>2. CASE ~\E r \in replies : ReceiveChunk(r)
    BY <1>2 DEF Next, vars, Tick, RequestChunk, Serve, Ignore,
               GetTimedOutRequests, RemovePeer
<1>3. QED
    BY <1>1, <1>2

(* spec.md 8 invariant 1 for a disk that does not fail: every chunk the   *)
(* download accepted is on disk with the manifest's bytes.  The hypothesis *)
(* is needed: SaveChunk does not check its write (pow.cpp 654).           *)
THEOREM ReceivedAreStoredNoDiskFailure ==
    ~DiskCanFail => (Spec => []ReceivedAreStored)
<1>. SUFFICES ASSUME ~DiskCanFail PROVE Spec => []ReceivedAreStored
    OBVIOUS
<1>1. Init => ReceivedAreStored
    BY DEF Init, ReceivedAreStored
<1>2. TypeOK /\ SequentialDownload /\ ReceivedAreStored /\ [Next]_vars
          => ReceivedAreStored'
    BY NextStored
<1>3. QED
    BY <1>1, <1>2, TypeCorrect, SequentialDownloadHolds, PTL DEF Spec

=============================================================================
