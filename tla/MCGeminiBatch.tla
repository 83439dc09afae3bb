---------------------------- MODULE MCGeminiBatch ----------------------------
(***************************************************************************)
(* GeminiBatch for TLC: three handlers, so that two can fill a batch and a *)
(* third arrive while it executes, or all three overfill it.               *)
(***************************************************************************)
EXTENDS GeminiBatch, TLC

CONSTANTS r1, r2, r3

ThreeRequests == {r1, r2, r3}
ThreeBatches  == 1..3   \* a batch needs a request to create it
TwoRequests   == {r1, r2}
TwoBatches    == 1..2

Symmetry == Permutations(ThreeRequests)
=============================================================================
