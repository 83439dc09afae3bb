------------------------------ MODULE MCVmFleet ------------------------------
(***************************************************************************)
(* VmFleet for TLC: one VM runs and another can be created, so that a      *)
(* replacement, the cron jobs, a handler and a refresh all meet on a row.  *)
(***************************************************************************)
EXTENDS VmFleet, TLC

CONSTANTS v1, v2, ip1, ip2

TwoVMs   == {v1, v2}
OldVM    == {v1}
NewVM    == {v2}
TwoIPs   == {ip1, ip2}
CronOnly == {"cron"}
CronAndHandler == {"cron", "handler"}
Nobody   == {}

Symmetry == Permutations(TwoIPs)
=============================================================================
