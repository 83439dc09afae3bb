--------------------------- MODULE MCLoginSession ---------------------------
(***************************************************************************)
(* LoginSession for TLC: three clients, so that one can find inputCh full. *)
(***************************************************************************)
EXTENDS LoginSession, TLC

CONSTANTS s1, s2, s3

OneClient    == {s1}
TwoClients   == {s1, s2}
ThreeClients == {s1, s2, s3}
=============================================================================
