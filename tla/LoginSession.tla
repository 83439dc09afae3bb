---------------------------- MODULE LoginSession ----------------------------
(***************************************************************************)
(* One AuthSession of service/gcloud/login_session.go: `gcloud auth login` *)
(* runs on a VM through ssh, the goroutine of DoLogin watches its output   *)
(* for a question and for the login URL, goroutines read its output and    *)
(* write its input, clients submit the key they got from the URL, and a    *)
(* deadline ends it all.                                                   *)
(*                                                                         *)
(* Status is a plain field that DoLogin and every client read and write    *)
(* without a lock.                                                         *)
(***************************************************************************)
EXTENDS Integers, Sequences

CONSTANT Submitters     \* the handler goroutines of SubmitAuthKey

\* What is written to the command: an answer to a question, or a client's key.
Confirm == "Y"

ASSUME SubmittersAssumption == Confirm \notin Submitters

Status == {"None", "BeginLogin", "WaitKey", "GetKey", "Done", "Fail"}

(***************************************************************************)
(* DoLogin: watching the output, answering a question, back with the URL   *)
(* or with an error.                                                       *)
(***************************************************************************)
LoginPc  == {"new", "watching", "confirming", "url", "error"}

(***************************************************************************)
(* CompleteLoginToken: having seen WaitKey, sending the key, in Wait,      *)
(* closing the input, writing the verdict.  A goroutine ends refused,      *)
(* returned, panicked (gin recovers it) or stuck in a second Wait.         *)
(***************************************************************************)
SubmitPc == {"idle", "refused", "checked", "sending", "waiting", "closing",
             "recording", "returned", "panicked", "stuck"}

CommandState == {"new", "running", "asking", "expecting", "succeeded", "failed"}

Lines == {"question", "newline", "url"}

\* cap(inputCh).
InputCap == 2

VARIABLES
    status,       \* AuthSession.Status
    login,        \* where DoLogin is
    command,      \* the process
    stdout,       \* written by the process, not read yet
    stderr,       \* likewise
    output,       \* lines read and not yet taken by DoLogin (outputCh)
    reader,       \* readCombinedOutput: off, running or ended; it closes outputCh
    inputCh,      \* answers and keys not yet written
    inputClosed,  \* whether close(inputCh) has happened
    writer,       \* startInputWriter: running or ended; it closes stdin
    stdin,        \* written, not read yet by the process
    deadline,     \* whether DeadlineCtx is done
    submit,       \* per client, where its CompleteLoginToken is
    verdict,      \* per client, what its Wait has returned
    reaped,       \* whether a Wait has returned: ProcessState # nil
    overlooked    \* silences DoLogin has let pass with the process dead

commandVars == <<command, stdout, stderr, stdin>>
readerVars  == <<output, reader>>
inputVars   == <<inputCh, inputClosed>>
submitVars  == <<submit, verdict, reaped>>
otherVars   == <<writer, deadline, overlooked>>
loginVars   == <<status, login, commandVars, readerVars, inputVars, submitVars, otherVars>>

Alive == command \in {"running", "asking", "expecting"}
Ended == command \in {"succeeded", "failed"}

-----------------------------------------------------------------------------
LoginInit ==
    /\ status = "None"
    /\ login = "new"
    /\ command = "new"
    /\ stdout = <<>>
    /\ stderr = <<>>
    /\ output = <<>>
    /\ reader = "off"
    /\ inputCh = <<>>
    /\ inputClosed = FALSE
    /\ writer = "running"
    /\ stdin = <<>>
    /\ deadline = FALSE
    /\ submit = [s \in Submitters |-> "idle"]
    /\ verdict = [s \in Submitters |-> "none"]
    /\ reaped = FALSE
    /\ overlooked = 0

-----------------------------------------------------------------------------
(***************************************************************************)
(* DoLogin.                                                                *)
(***************************************************************************)
Start ==
    /\ login = "new"
    /\ ~deadline
    /\ status' = "BeginLogin"
    /\ login' = "watching"
    /\ command' = "running"
    /\ reader' = "running"
    /\ UNCHANGED <<stdout, stderr, stdin, output, inputVars, submitVars, otherVars>>

StartFails ==
    /\ login = "new"
    /\ status' = "Fail"
    /\ login' = "error"
    /\ UNCHANGED <<commandVars, readerVars, inputVars, submitVars, otherVars>>

\* Faulty variant for StatusFollowsClient: DoLogin goes on watching after the URL.
ReceiveLineAndStay ==
    /\ login = "watching"
    /\ output # <<>>
    /\ output' = Tail(output)
    /\ login' = IF Head(output) = "question" THEN "confirming" ELSE "watching"
    /\ status' = IF Head(output) = "url" THEN "WaitKey" ELSE status
    /\ UNCHANGED <<commandVars, reader, inputVars, submitVars, otherVars>>

ReceiveLine ==
    /\ login = "watching"
    /\ output # <<>>
    /\ output' = Tail(output)
    /\ login' = CASE Head(output) = "question" -> "confirming"
                  [] Head(output) = "newline"  -> "watching"
                  [] Head(output) = "url"      -> "url"
    /\ status' = IF Head(output) = "url" THEN "WaitKey" ELSE status
    /\ UNCHANGED <<commandVars, reader, inputVars, submitVars, otherVars>>

SendConfirm ==
    /\ login = "confirming"
    /\ Len(inputCh) < InputCap
    /\ inputCh' = Append(inputCh, Confirm)
    /\ login' = "watching"
    /\ UNCHANGED <<status, commandVars, readerVars, inputClosed, submitVars, otherVars>>

\* Here the code returns its error without touching Status.
ConfirmTimesOut ==
    /\ login = "confirming"
    /\ deadline
    /\ login' = "error"
    /\ UNCHANGED <<status, commandVars, readerVars, inputVars, submitVars, otherVars>>

OutputEnds ==
    /\ login = "watching"
    /\ output = <<>>
    /\ reader = "ended"
    /\ status' = "Fail"
    /\ login' = "error"
    /\ UNCHANGED <<commandVars, readerVars, inputVars, submitVars, otherVars>>

LoginTimesOut ==
    /\ login = "watching"
    /\ deadline
    /\ status' = "Fail"
    /\ login' = "error"
    /\ UNCHANGED <<commandVars, readerVars, inputVars, submitVars, otherVars>>

(***************************************************************************)
(* Thirty seconds without a line.  ProcessState is nil until somebody      *)
(* calls Wait, and DoLogin does not.  Bound: overlooked counts to two.     *)
(***************************************************************************)
Silence ==
    /\ login = "watching"
    /\ output = <<>>
    /\ reader = "running"
    /\ IF reaped
       THEN status' = "Fail" /\ login' = "error" /\ UNCHANGED overlooked
       ELSE /\ overlooked' = IF Ended /\ overlooked < 2 THEN overlooked + 1 ELSE overlooked
            /\ UNCHANGED <<status, login>>
    /\ UNCHANGED <<commandVars, readerVars, inputVars, submitVars, writer, deadline>>

-----------------------------------------------------------------------------
(***************************************************************************)
(* readCombinedOutput.  The question has no newline: the half line is      *)
(* passed on when it is recognised, and what follows is a line of its own. *)
(***************************************************************************)
ReadStdout ==
    /\ reader = "running"
    /\ stdout # <<>>
    /\ output' = Append(output, Head(stdout))
    /\ stdout' = Tail(stdout)
    /\ UNCHANGED <<status, login, command, stderr, stdin, reader, inputVars, submitVars, otherVars>>

\* Faulty variant for AnswersFit: the half line is not dropped, so that what
\* follows it looks like the question once more.
ReadStderrTwice ==
    /\ reader = "running"
    /\ stderr # <<>>
    /\ output' = Append(output, "question")
    /\ stderr' = Tail(stderr)
    /\ UNCHANGED <<status, login, command, stdout, stdin, reader, inputVars, submitVars, otherVars>>

ReadStderr ==
    /\ reader = "running"
    /\ stderr # <<>>
    /\ output' = Append(output, Head(stderr))
    /\ stderr' = Tail(stderr)
    /\ UNCHANGED <<status, login, command, stdout, stdin, reader, inputVars, submitVars, otherVars>>

\* The end of the process does not end it: combinedCh is never closed.
ReaderEnds ==
    /\ reader = "running"
    /\ deadline
    /\ reader' = "ended"
    /\ UNCHANGED <<status, login, commandVars, output, inputVars, submitVars, otherVars>>

(***************************************************************************)
(* startInputWriter.  Writing to a dead process is an error and ends it.   *)
(***************************************************************************)
WriterWrites ==
    /\ writer = "running"
    /\ inputCh # <<>>
    /\ inputCh' = Tail(inputCh)
    /\ IF Ended
       THEN writer' = "ended" /\ UNCHANGED stdin
       ELSE stdin' = Append(stdin, Head(inputCh)) /\ UNCHANGED writer
    /\ UNCHANGED <<status, login, command, stdout, stderr, readerVars, inputClosed, submitVars,
                   deadline, overlooked>>

\* Faulty variant for SessionEnds: only a closed channel ends the writer.
WriterEndsOnClose ==
    /\ writer = "running"
    /\ inputClosed /\ inputCh = <<>>
    /\ writer' = "ended"
    /\ UNCHANGED <<status, login, commandVars, readerVars, inputVars, submitVars,
                   deadline, overlooked>>

WriterEnds ==
    /\ writer = "running"
    /\ deadline \/ (inputClosed /\ inputCh = <<>>)
    /\ writer' = "ended"
    /\ UNCHANGED <<status, login, commandVars, readerVars, inputVars, submitVars,
                   deadline, overlooked>>

-----------------------------------------------------------------------------
(***************************************************************************)
(* The command: gcloud auth login --no-launch-browser.                     *)
(***************************************************************************)
CommandAsks ==
    /\ command = "running"
    /\ command' = "asking"
    /\ stderr' = Append(stderr, "question")
    /\ UNCHANGED <<status, login, stdout, stdin, readerVars, inputVars, submitVars, otherVars>>

CommandReadsAnswer ==
    /\ command = "asking"
    /\ stdin # <<>>
    /\ stdin' = Tail(stdin)
    /\ command' = IF Head(stdin) = Confirm THEN "running" ELSE "failed"
    /\ stderr' = Append(stderr, "newline")
    /\ UNCHANGED <<status, login, stdout, readerVars, inputVars, submitVars, otherVars>>

CommandPrintsURL ==
    /\ command = "running"
    /\ command' = "expecting"
    /\ stdout' = Append(stdout, "url")
    /\ UNCHANGED <<status, login, stderr, stdin, readerVars, inputVars, submitVars, otherVars>>

CommandReadsKey ==
    /\ command = "expecting"
    /\ stdin # <<>>
    /\ stdin' = Tail(stdin)
    /\ command' \in IF Head(stdin) = Confirm THEN {"failed"} ELSE {"succeeded", "failed"}
    /\ UNCHANGED <<status, login, stdout, stderr, readerVars, inputVars, submitVars, otherVars>>

(***************************************************************************)
(* ssh and the gcloud it runs are one process here.  When only the ssh has *)
(* ended, gcloud on the VM may go on and sign the account in, of which no  *)
(* client of this session hears any more: for the account it is the lost   *)
(* reply of CompleteLoginToken in AccountRegistration.                     *)
(***************************************************************************)
CommandFails ==
    /\ Alive
    /\ command' = "failed"
    /\ UNCHANGED <<status, login, stdout, stderr, stdin, readerVars, inputVars, submitVars, otherVars>>

\* CommandContext kills the process when the deadline has passed.
CommandKilled == deadline /\ CommandFails

\* Faulty variant for LoginReturns: the context has no timeout.
DeadlineNever ==
    /\ FALSE
    /\ UNCHANGED loginVars

DeadlinePasses ==
    /\ ~deadline
    /\ deadline' = TRUE
    /\ UNCHANGED <<status, login, commandVars, readerVars, inputVars, submitVars, writer, overlooked>>

-----------------------------------------------------------------------------
(***************************************************************************)
(* CompleteLoginToken.  The check and the assignment that should exclude   *)
(* another client are two steps.                                           *)
(***************************************************************************)
CheckStatus(s) ==
    /\ submit[s] = "idle"
    /\ submit' = [submit EXCEPT ![s] = IF status = "WaitKey" THEN "checked" ELSE "refused"]
    /\ UNCHANGED <<status, login, commandVars, readerVars, inputVars, verdict, reaped, otherVars>>

TakeKey(s) ==
    /\ submit[s] = "checked"
    /\ status' = "GetKey"
    /\ submit' = [submit EXCEPT ![s] = "sending"]
    /\ UNCHANGED <<login, commandVars, readerVars, inputVars, verdict, reaped, otherVars>>

\* Faulty variant for LoginTypeOK: a channel without a capacity check.
SendKeyAnyway(s) ==
    /\ submit[s] = "sending"
    /\ ~inputClosed
    /\ inputCh' = Append(inputCh, s)
    /\ submit' = [submit EXCEPT ![s] = "waiting"]
    /\ UNCHANGED <<status, login, commandVars, readerVars, inputClosed, verdict, reaped, otherVars>>

SendKey(s) ==
    /\ submit[s] = "sending"
    /\ ~inputClosed
    /\ Len(inputCh) < InputCap
    /\ inputCh' = Append(inputCh, s)
    /\ submit' = [submit EXCEPT ![s] = "waiting"]
    /\ UNCHANGED <<status, login, commandVars, readerVars, inputClosed, verdict, reaped, otherVars>>

\* A send on a closed channel panics.
SendPanics(s) ==
    /\ submit[s] = "sending"
    /\ inputClosed
    /\ submit' = [submit EXCEPT ![s] = "panicked"]
    /\ UNCHANGED <<status, login, commandVars, readerVars, inputVars, verdict, reaped, otherVars>>

SendTimesOut(s) ==
    /\ submit[s] = "sending"
    /\ deadline
    /\ status' = "Fail"
    /\ submit' = [submit EXCEPT ![s] = "returned"]
    /\ verdict' = [verdict EXCEPT ![s] = "error"]
    /\ UNCHANGED <<login, commandVars, readerVars, inputVars, reaped, otherVars>>

(***************************************************************************)
(* Wait returns the result of the process, to the first caller; after the  *)
(* deadline it may report the deadline instead.  (Of two callers that race *)
(* the one that did not reap the process may take that report instead, and *)
(* leave the other stuck: here it is always the first that is served.)     *)
(***************************************************************************)
WaitReturns(s) ==
    /\ submit[s] = "waiting"
    /\ Ended
    /\ ~reaped
    /\ reaped' = TRUE
    /\ \E r \in {"ok", "error"} :
          /\ r = "ok" => command = "succeeded"
          /\ r = "error" => command = "failed" \/ deadline
          /\ verdict' = [verdict EXCEPT ![s] = r]
    /\ submit' = [submit EXCEPT ![s] = "closing"]
    /\ UNCHANGED <<status, login, commandVars, readerVars, inputVars, otherVars>>

(***************************************************************************)
(* Any other caller has an error, or waits for a result that was sent once *)
(* and is gone: ProcessState is read without a lock.                       *)
(***************************************************************************)
WaitAgain(s) ==
    /\ submit[s] = "waiting"
    /\ reaped
    /\ \/ /\ verdict' = [verdict EXCEPT ![s] = "error"]
          /\ submit' = [submit EXCEPT ![s] = "closing"]
       \/ /\ submit' = [submit EXCEPT ![s] = "stuck"]
          /\ UNCHANGED verdict
    /\ UNCHANGED <<status, login, commandVars, readerVars, inputVars, reaped, otherVars>>

\* Closing a closed channel panics.
CloseInput(s) ==
    /\ submit[s] = "closing"
    /\ inputClosed' = TRUE
    /\ submit' = [submit EXCEPT ![s] = IF inputClosed THEN "panicked" ELSE "recording"]
    /\ UNCHANGED <<status, login, commandVars, readerVars, inputCh, verdict, reaped, otherVars>>

\* Faulty variant for ImplementsService: the result of Wait is ignored.
RecordDone(s) ==
    /\ submit[s] = "recording"
    /\ status' = "Done"
    /\ submit' = [submit EXCEPT ![s] = "returned"]
    /\ UNCHANGED <<login, commandVars, readerVars, inputVars, verdict, reaped, otherVars>>

\* Faulty variant for KeyGetsVerdict: an error returns without a new status.
RecordSuccessOnly(s) ==
    /\ submit[s] = "recording"
    /\ status' = IF verdict[s] = "ok" THEN "Done" ELSE status
    /\ submit' = [submit EXCEPT ![s] = "returned"]
    /\ UNCHANGED <<login, commandVars, readerVars, inputVars, verdict, reaped, otherVars>>

RecordVerdict(s) ==
    /\ submit[s] = "recording"
    /\ status' = IF verdict[s] = "ok" THEN "Done" ELSE "Fail"
    /\ submit' = [submit EXCEPT ![s] = "returned"]
    /\ UNCHANGED <<login, commandVars, readerVars, inputVars, verdict, reaped, otherVars>>

-----------------------------------------------------------------------------
DoLogin ==
    \/ Start \/ StartFails
    \/ ReceiveLine \/ SendConfirm \/ ConfirmTimesOut
    \/ OutputEnds \/ LoginTimesOut

ReadCombinedOutput == ReadStdout \/ ReadStderr \/ ReaderEnds

StartInputWriter == WriterWrites \/ WriterEnds

Command ==
    \/ CommandAsks \/ CommandReadsAnswer \/ CommandPrintsURL
    \/ CommandReadsKey \/ CommandFails

CompleteLoginToken(s) ==
    \/ TakeKey(s) \/ SendKey(s) \/ SendPanics(s) \/ SendTimesOut(s)
    \/ WaitReturns(s) \/ WaitAgain(s) \/ CloseInput(s) \/ RecordVerdict(s)

LoginNext ==
    \/ DoLogin
    \/ Silence
    \/ ReadCombinedOutput
    \/ StartInputWriter
    \/ Command
    \/ DeadlinePasses
    \/ \E s \in Submitters : CheckStatus(s) \/ CompleteLoginToken(s)

LoginSpec == LoginInit /\ [][LoginNext]_loginVars

(***************************************************************************)
(* Goroutines run, the deadline comes and kills the process.  Nobody has   *)
(* to submit a key, and the command has to do nothing.                     *)
(***************************************************************************)
FairLoginSpec ==
    /\ LoginSpec
    /\ WF_loginVars(DoLogin)
    /\ WF_loginVars(ReadCombinedOutput)
    /\ WF_loginVars(StartInputWriter)
    /\ WF_loginVars(CommandKilled)
    /\ WF_loginVars(DeadlinePasses)
    /\ \A s \in Submitters : WF_loginVars(CompleteLoginToken(s))
-----------------------------------------------------------------------------
(***************************************************************************)
(* Every variable has its type; no channel holds more than its capacity.   *)
(***************************************************************************)
LoginTypeOK ==
    /\ status \in Status
    /\ login \in LoginPc
    /\ command \in CommandState
    /\ stdout \in Seq(Lines) /\ stderr \in Seq(Lines) /\ output \in Seq(Lines)
    /\ reader \in {"off", "running", "ended"}
    /\ inputCh \in Seq(Submitters \cup {Confirm})
    /\ Len(inputCh) <= InputCap
    /\ inputClosed \in BOOLEAN
    /\ writer \in {"running", "ended"}
    /\ stdin \in Seq(Submitters \cup {Confirm})
    /\ deadline \in BOOLEAN
    /\ submit \in [Submitters -> SubmitPc]
    /\ verdict \in [Submitters -> {"none", "ok", "error"}]
    /\ reaped \in BOOLEAN
    /\ overlooked \in 0..2

(***************************************************************************)
(* What is under way to the command is what it asks for: no key can be     *)
(* taken for the answer to a question, and no answer for the key, however  *)
(* the output is cut into lines and whoever reads and writes first.        *)
(***************************************************************************)
UnderWay == stdin \o inputCh

AnswersFit ==
    /\ command = "asking" => \A i \in DOMAIN UnderWay : UnderWay[i] = Confirm
    /\ command = "expecting" => \A i \in DOMAIN UnderWay : UnderWay[i] \in Submitters

(***************************************************************************)
(* Two clients have found the status to be WaitKey: the race that the      *)
(* plain field allows.  Then a verdict may be overwritten or never come.   *)
(***************************************************************************)
Passed(s) == submit[s] \notin {"idle", "refused"}

Overlap == \E s, t \in Submitters : s # t /\ Passed(s) /\ Passed(t)

(***************************************************************************)
(* Without that race no handler panics or waits for ever, and Status says  *)
(* how far the client is: GetKey while it has the key in hand, Done once   *)
(* it has returned with a success.  So neither the deadline nor DoLogin    *)
(* takes back Done, nor does a client that comes later.                    *)
(***************************************************************************)
StatusFollowsClient ==
    ~Overlap =>
        /\ \A s \in Submitters : submit[s] \notin {"panicked", "stuck"}
        /\ status = "GetKey" <=>
              \E s \in Submitters : submit[s] \in {"sending", "waiting", "closing", "recording"}
        /\ status = "Done" <=> \E s \in Submitters : submit[s] = "returned" /\ verdict[s] = "ok"

(***************************************************************************)
(* A session implements LoginService: its clients are answered when their  *)
(* handler returns or panics, and what is recorded is Status, however the  *)
(* clients overtake each other between the check of Status and its change. *)
(***************************************************************************)
Answer(s) ==
    CASE submit[s] = "idle"     -> "none"
      [] submit[s] = "refused"  -> "refused"
      [] submit[s] = "returned" -> verdict[s]
      [] submit[s] = "panicked" -> "error"
      [] OTHER                  -> "taken"

Service == INSTANCE LoginService WITH
               given    <- login = "url",
               signedIn <- command = "succeeded",
               answer   <- [s \in Submitters |-> Answer(s)],
               done     <- status = "Done"

ImplementsService == Service!SSpec

(***************************************************************************)
(* DoLogin returns to its HTTP client, whatever the command does.          *)
(***************************************************************************)
LoginReturns == (login = "new") ~> (login \in {"url", "error"})

(***************************************************************************)
(* A key that was taken gets a verdict, unless two were taken.             *)
(***************************************************************************)
KeyGetsVerdict == (status = "GetKey") ~> (status \in {"Done", "Fail"} \/ Overlap)

(***************************************************************************)
(* The deadline ends a session, also if no client ever comes: DoLogin has  *)
(* returned, readCombinedOutput and startInputWriter have, the command no  *)
(* longer runs, and so have the handlers of all clients that came, unless  *)
(* two of them raced, when one may be left in its Wait.                    *)
(*                                                                         *)
(* That is not to say that all is released.  Only Wait reaps the process,  *)
(* and only a client whose key was taken calls it: without one the killed  *)
(* ssh stays a zombie, and the goroutine of os/exec that killed it waits   *)
(* for a Wait to take its result.  Both are inside os/exec, and no state   *)
(* of this module.                                                         *)
(***************************************************************************)
HandlerEnded(s) == submit[s] \in {"idle", "refused", "returned"}

SessionEnds ==
    <>[](/\ login \in {"url", "error"}
         /\ reader \in {"off", "ended"} /\ writer = "ended"
         /\ ~Alive
         /\ Overlap \/ \A s \in Submitters : HandlerEnded(s))

(***************************************************************************)
(* login_session.go 213, "check whether the process still runs": after a   *)
(* silence with the process dead DoLogin has returned, with one period to  *)
(* spare.                                                                  *)
(***************************************************************************)
ExitNoticed == overlooked < 2
=============================================================================
