---------------------------- MODULE DownloadOrder ----------------------------
(***************************************************************************)
(* What the snapshot download promises its caller, with no peers, no      *)
(* messages and no clock: the set of accepted chunks starts empty and     *)
(* grows one chunk at a time, always by the smallest chunk of the         *)
(* manifest not yet accepted.  SnapshotFetch implements it with the       *)
(* refinement mapping have <- received.                                    *)
(***************************************************************************)
EXTENDS Naturals

CONSTANT N          \* number of chunks in the manifest

VARIABLE have       \* the chunks accepted so far

Missing == (0 .. N - 1) \ have

(* Accept the smallest missing chunk.                                      *)
Accept(c) ==
    /\ c \in Missing
    /\ \A d \in Missing : c <= d
    /\ have' = have \cup {c}

Init == have = {}

Next == \E c \in 0 .. N - 1 : Accept(c)

Spec == Init /\ [][Next]_have
=============================================================================
