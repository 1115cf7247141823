---------------------------- MODULE SnapshotFetch ----------------------------
(***************************************************************************)
(* The fetching side of the snapshot download: CSnapshotDownloadState,     *)
(* CSnapshotDownloadCoordinator and CSnapshotStore::SaveChunk (pow.cpp),   *)
(* driven by the fetch loop and the "snapchunk" message handler, which     *)
(* are not in the repository's src/ and are modelled from spec.md 4.4-4.5. *)
(* Peers are the environment: they answer a GetChunk with good or corrupt  *)
(* bytes, or never answer; they may disconnect.  Messages may be delayed   *)
(* and reordered (replies is a set) and lost (Ignore).                     *)
(***************************************************************************)
EXTENDS Integers, FiniteSets

CONSTANTS
    N,             \* number of chunks in the hard-coded manifest
    Peers,         \* NodeIds of the connected peers advertising NODE_SNAPSHOT
    Faulty,        \* peers that may send bytes that do not match the digest
    MaxConcurrent, \* MAX_CONCURRENT_PEER_REQUESTS (12)
    MinBetween,    \* MIN_SECONDS_BETWEEN_REQUESTS (3)
    Timeout,       \* REQUEST_TIMEOUT_SEC (60)
    BackoffSec,    \* backoff after 1, 2, 3, >=4 consecutive failures (10,30,60,300)
    StartTime,     \* GetTime() when the download starts
    DiskCanFail,   \* whether the file system may fail a chunk write
    NoPeer         \* the value -1 of NodeId: no peer

ASSUME NAssumption == N \in Nat \ {0}
ASSUME PeersAssumption == Faulty \subseteq Peers /\ NoPeer \notin Peers
ASSUME LimitsAssumption ==
    /\ MaxConcurrent \in Nat \ {0}
    /\ MinBetween \in Nat /\ Timeout \in Nat /\ StartTime \in Nat
    /\ BackoffSec \in [1..4 -> Nat]
    /\ DiskCanFail \in BOOLEAN

VARIABLES
    now,          \* GetTime()
    received,     \* CSnapshotDownloadState::mapChunksReceived (the true entries)
    reqAt,        \* CSnapshotDownloadState::mapChunkRequests
    stored,       \* the chunk-NNN.dat files of CSnapshotStore
    peerState,    \* CSnapshotDownloadCoordinator::mapPeerStates
    chunkToNode,  \* CSnapshotDownloadCoordinator::mapChunkToNode
    connected,    \* peers still connected
    requests,     \* GetChunk messages a peer has not yet handled
    replies       \* snapchunk messages not yet handled by the fetching node

vars == <<now, received, reqAt, stored, peerState, chunkToNode, connected,
          requests, replies>>

Chunks == 0 .. N - 1
NoTime == -1
Data == {"good", "bad"}               \* bytes matching the digest, or not
FileContents == {"none", "good", "bad", "trunc"}

(* PeerDownloadState; nChunksRequested and nChunksFailed are statistics   *)
(* that nothing reads and are left out.  nConsecutiveFailures is kept up  *)
(* to 4, the value from which the backoff no longer grows.                *)
PeerRec == [last : Nat, fails : 0 .. 4, backoff : Nat]
DefaultPeer == [last |-> 0, fails |-> 0, backoff |-> 0]

(* An absent entry of mapPeerStates reads as the default record through   *)
(* operator[]; the one place the code tells the two apart, the lookup in  *)
(* GetTimedOutRequests, only meets peers that RecordRequest inserted.     *)
InFlight == {c \in Chunks : chunkToNode[c] # NoPeer}

-----------------------------------------------------------------------------
(* CSnapshotDownloadState::IsComplete and GetNextChunkToRequest.          *)
IsComplete == Chunks \subseteq received

(* Mutant: the next chunk skips those already in flight.                *)
NextNeededSkipInFlight ==
    IF Chunks \subseteq received \cup InFlight THEN N
    ELSE CHOOSE c \in Chunks \ (received \cup InFlight) :
             \A d \in Chunks \ (received \cup InFlight) : c <= d

NextNeeded ==
    IF IsComplete THEN N
    ELSE CHOOSE c \in Chunks \ received :
             \A d \in Chunks \ received : c <= d

(* The backoff of RecordFailure for a count of consecutive failures.      *)
Backoff(k) == BackoffSec[IF k >= 4 THEN 4 ELSE k]

(* RecordFailure applied k times to one peer's state at time now.         *)
FailedState(s, k) ==
    LET f == IF s.fails + k >= 4 THEN 4 ELSE s.fails + k
    IN  [last |-> s.last, fails |-> f, backoff |-> now + Backoff(f)]

(* RecordSuccess: reset the failure counters.                             *)
SucceededState(s) == [last |-> s.last, fails |-> 0, backoff |-> 0]

(* The peers SelectPeerForNextChunk may return, before the tie-break.     *)
Eligible == {p \in connected :
                /\ peerState[p].backoff <= now
                /\ now - peerState[p].last >= MinBetween}

(* SelectPeerForNextChunk keeps the first eligible peer of the vector     *)
(* with the oldest nLastRequestTime; the vector's order is the node's     *)
(* connection order, so any peer of least nLastRequestTime may win.       *)
SelectPeerForNextChunk(p) ==
    /\ connected # {}
    /\ ~IsComplete
    /\ NextNeeded \notin InFlight
    /\ Cardinality(InFlight) < MaxConcurrent
    /\ p \in Eligible
    /\ \A q \in Eligible : peerState[p].last <= peerState[q].last

-----------------------------------------------------------------------------
Init ==
    /\ now = StartTime
    /\ received = {}
    /\ reqAt = [c \in Chunks |-> NoTime]
    /\ stored = [c \in Chunks |-> "none"]
    /\ peerState = [p \in Peers |-> DefaultPeer]
    /\ chunkToNode = [c \in Chunks |-> NoPeer]
    /\ connected = Peers
    /\ requests = {}
    /\ replies = {}

(* The clock advances.                                                    *)
Tick ==
    /\ now' = now + 1
    /\ UNCHANGED <<received, reqAt, stored, peerState, chunkToNode,
                   connected, requests, replies>>

(* Fetch loop: SelectPeerForNextChunk returns p, then RecordRequest(p, c),*)
(* RecordChunkRequest(c, now), and a GetChunk(c) is sent to p.            *)
RequestChunk(p) ==
    LET c == NextNeeded IN
    /\ SelectPeerForNextChunk(p)
    /\ peerState' = [peerState EXCEPT ![p].last = now]
    /\ chunkToNode' = [chunkToNode EXCEPT ![c] = p]
    /\ reqAt' = [reqAt EXCEPT ![c] = now]
    /\ requests' = requests \cup {<<p, c>>}
    /\ UNCHANGED <<now, received, stored, connected, replies>>

(* A peer answers a GetChunk: an honest peer with the manifest's bytes, a *)
(* faulty one with any bytes.                                             *)
Serve(p, c) ==
    /\ <<p, c>> \in requests
    /\ \E d \in IF p \in Faulty THEN Data ELSE {"good"} :
          replies' = replies \cup {[peer |-> p, chunk |-> c, data |-> d]}
    /\ requests' = requests \ {<<p, c>>}
    /\ UNCHANGED <<now, received, reqAt, stored, peerState, chunkToNode,
                   connected>>

(* A peer never answers (its rate limiter rejected the request, or the    *)
(* message is lost).                                                      *)
Ignore(p, c) ==
    /\ <<p, c>> \in requests
    /\ requests' = requests \ {<<p, c>>}
    /\ UNCHANGED <<now, received, reqAt, stored, peerState, chunkToNode,
                   connected, replies>>

(* The outcomes of CSnapshotStore::SaveChunk for bytes d of chunk c:      *)
(* VerifyChunk rejects bytes that do not match (no write); the file may   *)
(* fail to open (no write, false); or ofstream::write may fail with no    *)
(* check of the stream, leaving a short file behind and returning true.   *)
(* Mutant: SaveChunk writes without VerifyChunk.                         *)
SaveOutcomesNoVerify(d) == {[ok |-> TRUE, file |-> d]}

SaveOutcomes(d) ==
    IF d # "good" THEN {[ok |-> FALSE, file |-> "none"]}
    ELSE {[ok |-> TRUE, file |-> "good"]} \cup
         (IF DiskCanFail THEN {[ok |-> FALSE, file |-> "none"],
                               [ok |-> TRUE, file |-> "trunc"]}
                         ELSE {})

(* snapchunk handler: a reply matching the request in flight is saved;    *)
(* on success MarkChunkReceived and RecordSuccess, else RecordFailure;    *)
(* a reply that matches no request in flight is dropped.                  *)
ReceiveChunk(r) ==
    LET p == r.peer
        c == r.chunk
    IN
    /\ r \in replies
    /\ replies' = replies \ {r}
    /\ IF chunkToNode[c] = p
       THEN \E o \in SaveOutcomes(r.data) :
              /\ stored' = IF o.file = "none" THEN stored
                           ELSE [stored EXCEPT ![c] = o.file]
              /\ received' = IF o.ok THEN received \cup {c} ELSE received
              /\ peerState' = [peerState EXCEPT ![p] =
                                 IF o.ok THEN SucceededState(@)
                                 ELSE FailedState(@, 1)]
              /\ chunkToNode' = [chunkToNode EXCEPT ![c] = NoPeer]
       ELSE UNCHANGED <<stored, received, peerState, chunkToNode>>
    /\ UNCHANGED <<now, reqAt, connected, requests>>

(* Fetch loop: GetTimedOutRequests removes every chunk whose peer was     *)
(* last asked more than Timeout seconds ago; RecordFailure for each.  It  *)
(* skips a chunk whose peer has no entry in mapPeerStates: RemovePeer     *)
(* erases the entry, so the entries of peers with a chunk in flight are   *)
(* those of the peers still connected.                                     *)
GetTimedOutRequests ==
    LET TimedOut == {c \in InFlight :
                       /\ chunkToNode[c] \in connected
                       /\ now - peerState[chunkToNode[c]].last > Timeout}
        Count(p) == Cardinality({c \in TimedOut : chunkToNode[c] = p})
    IN
    /\ TimedOut # {}
    /\ chunkToNode' = [c \in Chunks |->
                         IF c \in TimedOut THEN NoPeer ELSE chunkToNode[c]]
    /\ peerState' = [p \in Peers |->
                       IF Count(p) = 0 THEN peerState[p]
                       ELSE FailedState(peerState[p], Count(p))]
    /\ UNCHANGED <<now, received, reqAt, stored, connected, requests,
                   replies>>

(* Mutant: RemovePeer leaves the peer's chunks in mapChunkToNode.        *)
RemovePeerKeepInFlight(p) ==
    /\ p \in connected
    /\ connected' = connected \ {p}
    /\ peerState' = [peerState EXCEPT ![p] = DefaultPeer]
    /\ requests' = {m \in requests : m[1] # p}
    /\ replies' = {r \in replies : r.peer # p}
    /\ UNCHANGED <<now, received, reqAt, stored, chunkToNode>>

(* The peer disconnects: RemovePeer erases its state and its chunks in    *)
(* flight; its undelivered messages go with the connection.               *)
RemovePeer(p) ==
    /\ p \in connected
    /\ connected' = connected \ {p}
    /\ peerState' = [peerState EXCEPT ![p] = DefaultPeer]
    /\ chunkToNode' = [c \in Chunks |->
                         IF chunkToNode[c] = p THEN NoPeer ELSE chunkToNode[c]]
    /\ requests' = {m \in requests : m[1] # p}
    /\ replies' = {r \in replies : r.peer # p}
    /\ UNCHANGED <<now, received, reqAt, stored>>

Next ==
    \/ Tick
    \/ \E p \in Peers : RequestChunk(p) \/ RemovePeer(p)
    \/ \E p \in Peers, c \in Chunks : Serve(p, c) \/ Ignore(p, c)
    \/ \E r \in replies : ReceiveChunk(r)
    \/ GetTimedOutRequests

Spec == Init /\ [][Next]_vars

(* The node's own steps are fair: the clock advances, and the fetch loop  *)
(* and the message handler run again and again, so a request that can go *)
(* out, a reply waiting to be handled and a timed-out request are each    *)
(* eventually acted on.  Peers are the environment and get no fairness:   *)
(* they may answer, answer wrongly, stay silent or disconnect.            *)
Fairness ==
    /\ WF_vars(Tick)
    /\ WF_vars(\E p \in Peers : RequestChunk(p))
    /\ WF_vars(\E r \in replies : ReceiveChunk(r))
    /\ WF_vars(GetTimedOutRequests)

FairSpec == Spec /\ Fairness

-----------------------------------------------------------------------------
TypeOK ==
    /\ now \in Nat
    /\ received \subseteq Chunks
    /\ reqAt \in [Chunks -> Nat \cup {NoTime}]
    /\ stored \in [Chunks -> FileContents]
    /\ peerState \in [Peers -> PeerRec]
    /\ chunkToNode \in [Chunks -> Peers \cup {NoPeer}]
    /\ connected \subseteq Peers
    /\ requests \subseteq Peers \X Chunks
    /\ replies \subseteq [peer : Peers, chunk : Chunks, data : Data]

(* Download is sequential: the only chunk ever in flight is the smallest  *)
(* one not yet received, because SelectPeerForNextChunk gives up when     *)
(* GetNextChunkToRequest's chunk is in flight.  So the concurrency cap    *)
(* MAX_CONCURRENT_PEER_REQUESTS ("download from multiple peers            *)
(* simultaneously") is never reached once N > 1 and MaxConcurrent > 1.    *)
SequentialDownload == \A c \in InFlight : c = NextNeeded

(* spec.md 8 invariant 1: every chunk the download has accepted is on disk *)
(* with the bytes of the manifest's digest (SaveChunk + MarkChunkReceived).*)
ReceivedAreStored == \A c \in received : stored[c] = "good"

(* The timeout of a chunk in flight is measured from its own request:      *)
(* GetTimedOutRequests reads the peer's nLastRequestTime, which is the     *)
(* request time of that chunk only while no later request went to the     *)
(* same peer.                                                              *)
TimeoutFromOwnRequest ==
    \A c \in InFlight : peerState[chunkToNode[c]].last = reqAt[c]

(* No chunk stays in flight forever: SelectPeerForNextChunk returns -1     *)
(* while GetNextChunkToRequest's chunk is in mapChunkToNode, so a chunk   *)
(* whose entry is never erased (by its reply, RecordFailure, the timeout  *)
(* or RemovePeer) would stall the download for good, whatever the peers.  *)
InFlightReleased ==
    \A c \in Chunks : (chunkToNode[c] # NoPeer) ~> (chunkToNode[c] = NoPeer)

(* The abstract download: chunks are accepted one at a time, in manifest  *)
(* order, and never forgotten.  received is mapChunksReceived.            *)
Order == INSTANCE DownloadOrder WITH have <- received

(* The fetching side implements the abstract download: every step either  *)
(* leaves mapChunksReceived alone or adds the smallest missing chunk,     *)
(* although replies arrive in any order and from any peer.                *)
AcceptsInOrder == Order!Spec

=============================================================================
