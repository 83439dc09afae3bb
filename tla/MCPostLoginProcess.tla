------------------------ MODULE MCPostLoginProcess ---------------------------
(***************************************************************************)
(* PostLoginProcess for TLC: two overlapping runs on an account.           *)
(***************************************************************************)
EXTENDS PostLoginProcess, TLC

CONSTANTS r1, r2, p1, p2

TwoRuns     == {r1, r2}
OneProject  == {p1}
TwoProjects == {p1, p2}

Row(b, t, k, o) == [billing |-> b, token |-> t, key |-> k, oid |-> o]

Past == {Row(Unbound, NoToken, None, None), Row(Unbound, CreateFail, None, None),
         Row(Bound, CreateFail, None, None), Row(Bound, Got, Earlier, None),
         Row(Bound, Got, Earlier, Earlier), Row(Bound, Invalid, Earlier, Earlier),
         Row(Detach, Got, Earlier, Earlier)}

Symmetry == Permutations(TwoRuns) \cup Permutations(Projects)
=============================================================================
