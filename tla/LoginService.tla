---------------------------- MODULE LoginService ----------------------------
(***************************************************************************)
(* What a login session promises its clients.  The URL is handed out once. *)
(* A key is taken only after that, perhaps of several clients; the account *)
(* is signed in only for a client whose key was taken and that still has   *)
(* no answer.  At most one client is told that it worked, and only if it   *)
(* did; then, and only then, the session is recorded as done.              *)
(*                                                                         *)
(* The session does not promise that the record lasts: a client that came  *)
(* second may undo it.  Nor does it promise that somebody is told, once    *)
(* the account is signed in.                                               *)
(***************************************************************************)
CONSTANT Submitters

VARIABLES
    given,     \* whether the URL has been handed out
    signedIn,  \* whether the account is signed in
    answer,    \* per client: none yet, refused, its key taken, ok or error
    done       \* whether the session is recorded as done

svars == <<given, signedIn, answer, done>>

SInit ==
    /\ given = FALSE
    /\ signedIn = FALSE
    /\ answer = [s \in Submitters |-> "none"]
    /\ done = FALSE

GiveURL ==
    /\ ~given
    /\ given' = TRUE
    /\ UNCHANGED <<signedIn, answer, done>>

Refuse(s) ==
    /\ answer[s] = "none"
    /\ answer' = [answer EXCEPT ![s] = "refused"]
    /\ UNCHANGED <<given, signedIn, done>>

Take(s) ==
    /\ given
    /\ answer[s] = "none"
    /\ answer' = [answer EXCEPT ![s] = "taken"]
    /\ UNCHANGED <<given, signedIn, done>>

SignIn ==
    /\ ~signedIn
    /\ \E s \in Submitters : answer[s] = "taken"
    /\ signedIn' = TRUE
    /\ UNCHANGED <<given, answer, done>>

Accept(s) ==
    /\ signedIn
    /\ answer[s] = "taken"
    /\ \A t \in Submitters : answer[t] # "ok"
    /\ answer' = [answer EXCEPT ![s] = "ok"]
    /\ done' = TRUE
    /\ UNCHANGED <<given, signedIn>>

\* The record may have been another client's.
Fail(s) ==
    /\ answer[s] = "taken"
    /\ answer' = [answer EXCEPT ![s] = "error"]
    /\ done' \in {done, FALSE}
    /\ UNCHANGED <<given, signedIn>>

Undo(s) ==
    /\ answer[s] = "taken"
    /\ done' = FALSE
    /\ UNCHANGED <<given, signedIn, answer>>

SNext ==
    \/ GiveURL
    \/ SignIn
    \/ \E s \in Submitters : Refuse(s) \/ Take(s) \/ Accept(s) \/ Fail(s) \/ Undo(s)

SSpec == SInit /\ [][SNext]_svars
=============================================================================
