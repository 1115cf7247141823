-------------------------- MODULE MC_RandomXKeyCache --------------------------
(***************************************************************************)
(* RandomXKeyCache with a key period of 4 blocks switching after 1, and   *)
(* uint32_t scaled to 16 bits: the chain grows through three key periods,  *)
(* and the cache is allocated at most MaxGen times (each switch between  *)
(* periods re-creates it).                                                *)
(***************************************************************************)
EXTENDS RandomXKeyCache

MaxHeight == 11
MaxGen == 5
HeightBound == height <= MaxHeight /\ rx.gen <= MaxGen

=============================================================================
