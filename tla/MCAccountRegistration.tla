------------------------ MODULE MCAccountRegistration ------------------------
(***************************************************************************)
(* AccountRegistration for TLC: an account with a VM, another one whose    *)
(* e-mail the session id garbles, a VM to be created, and a replacement    *)
(* and an operator that may take the first VM away.                        *)
(***************************************************************************)
EXTENDS AccountRegistration, TLC

CONSTANTS v1, v2, ip1, ip2, r1, r2, e1, e2, m2

OldVM       == {v1}
TwoVMs      == {v1, v2}
TwoIPs      == {ip1, ip2}
Nobody      == {}
HandlerOnly == {"handler"}
TwoRequests == {r1, r2}
TwoEmails   == {e1, e2}
ThreeNames  == {e1, e2, m2}
Extraction  == [e \in {e1, e2} |-> IF e = e2 THEN m2 ELSE e]
FirstOwns   == [e \in {e1} |-> v1]

(***************************************************************************)
(* Bounds: a replacement creates no VMs, DeleteVM's update of a row does   *)
(* not fail, and either a VM is deleted or a second request begins.        *)
(***************************************************************************)
Begun == {r \in Requests : reg[r].pc # "idle"}

HandlerIdle ==
    /\ cmdFailed = {}
    /\ \A v \in VMs : cloud[v] # "deleted" /\ del["handler"][v] = "idle"

Bound ==
    /\ batch2 = {}
    /\ unmarked = {}
    /\ Cardinality(Begun) <= 1 \/ HandlerIdle

Symmetry == Permutations(TwoIPs) \cup Permutations(TwoRequests)
=============================================================================
