---------------------------- MODULE BatchService -----------------------------
(***************************************************************************)
(* What the batching layer promises.  Requests join groups.  A group is    *)
(* answered in one atomic step that gives every member still unanswered    *)
(* its verdict: a failure common to all of them, or for each its own       *)
(* answer or the news that the job had none.  An answer never changes.     *)
(*                                                                         *)
(* The layer does not promise that a request which joins a group that has  *)
(* been answered gets an answer at all.                                    *)
(***************************************************************************)
CONSTANTS Requests, BatchIDs, None

VARIABLES
    group,   \* per request, the group it joined or None
    answer   \* per request, "none" until it has its answer

svars == <<group, answer>>

SInit ==
    /\ group = [r \in Requests |-> None]
    /\ answer = [r \in Requests |-> "none"]

Join(r) ==
    /\ group[r] = None
    /\ \E b \in BatchIDs : group' = [group EXCEPT ![r] = b]
    /\ UNCHANGED answer

Unanswered(b) == {r \in Requests : group[r] = b /\ answer[r] = "none"}

AnswerGroup(b) ==
    \E verdict \in [Requests -> {"own", "missing", "failed"}] :
        /\ \/ \A r \in Requests : verdict[r] = "failed"
           \/ \A r \in Requests : verdict[r] \in {"own", "missing"}
        /\ answer' = [r \in Requests |->
                         IF r \in Unanswered(b) THEN verdict[r] ELSE answer[r]]
        /\ UNCHANGED group

SNext == \/ \E r \in Requests : Join(r)
         \/ \E b \in BatchIDs : AnswerGroup(b)

SSpec == SInit /\ [][SNext]_svars
=============================================================================
