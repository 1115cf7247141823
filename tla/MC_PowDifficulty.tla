--------------------------- MODULE MC_PowDifficulty ---------------------------
(***************************************************************************)
(* PowDifficulty scaled to TLC's integers: a 24-bit powLimit whose top     *)
(* byte has its high bit set (so GetCompact's sign adjustment is taken), a *)
(* 3-block window of 20 s blocks with the code's adjustment percentages,   *)
(* an upgrade whose first window is inside the bound, and miner offsets    *)
(* that reach every gap threshold and a timestamp behind its parent.       *)
(***************************************************************************)
EXTENDS PowDifficulty

MCPowLimit == 2^24 - 1
MCModulus == 2^30
MCDeltas == {-5, 1, 41, 121, 241}

MaxBlocks == 9
ChainBound == Len(chain) <= MaxBlocks

=============================================================================
