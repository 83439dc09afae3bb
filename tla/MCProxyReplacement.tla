------------------------- MODULE MCProxyReplacement --------------------------
(***************************************************************************)
(* ProxyReplacement for TLC: one VM replaced twice with two addresses, so  *)
(* that every address is recycled, or two VMs replaced by two at once.     *)
(***************************************************************************)
EXTENDS ProxyReplacement, TLC

CONSTANTS v1, v2, v3, v4, ip1, ip2, ip3, ip4, t1

OldVM     == {v1}
OldVMs    == {v1, v2}
ThreeVMs  == {v1, v2, v3}
FourVMs   == {v1, v2, v3, v4}
TwoIPs    == {ip1, ip2}
FourIPs   == {ip1, ip2, ip3, ip4}
OneToken  == {t1}
Nobody    == {}

ReplacementOnly == {"replacement"}

Symmetry == Permutations(TwoIPs)
=============================================================================
