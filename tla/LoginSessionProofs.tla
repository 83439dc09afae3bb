------------------------- MODULE LoginSessionProofs -------------------------
(***************************************************************************)
(* What holds of a login session for any number of clients.                *)
(***************************************************************************)
EXTENDS LoginSession, TLAPS

(***************************************************************************)
(* Queues: whether x is in q, and whether it is there at most once.        *)
(***************************************************************************)
Has(q, x)  == \E i \in 1..Len(q) : q[i] = x
Lone(q, x) == \A i, j \in 1..Len(q) : q[i] = x /\ q[j] = x => i = j

\* The empty queue holds anything.
LEMMA EmptySeq == \A S : <<>> \in Seq(S)
OBVIOUS

\* What an Append adds.
LEMMA HasAppend ==
    ASSUME NEW S, NEW q \in Seq(S), NEW y \in S, NEW x
    PROVE  Has(Append(q, y), x) <=> Has(q, x) \/ y = x
<1>1. ASSUME Has(q, x) PROVE Has(Append(q, y), x)
  BY <1>1 DEF Has
<1>2. ASSUME y = x PROVE Has(Append(q, y), x)
  <2>1. Append(q, y)[Len(q) + 1] = x /\ Len(q) + 1 \in 1..Len(Append(q, y))
    BY <1>2
  <2> QED
    BY <2>1 DEF Has
<1>3. ASSUME Has(Append(q, y), x) PROVE Has(q, x) \/ y = x
  BY <1>3 DEF Has
<1> QED
  BY <1>1, <1>2, <1>3

\* What is in the tail was in the queue.
LEMMA HasTail ==
    ASSUME NEW S, NEW q \in Seq(S), q # <<>>, NEW x, Has(Tail(q), x)
    PROVE  Has(q, x)
<1>1. PICK i \in 1..Len(Tail(q)) : Tail(q)[i] = x
  BY DEF Has
<1>2. i + 1 \in 1..Len(q) /\ q[i + 1] = x
  BY <1>1
<1> QED
  BY <1>2 DEF Has

\* The head is in the queue.
LEMMA HasHead ==
    ASSUME NEW S, NEW q \in Seq(S), q # <<>>
    PROVE  Has(q, Head(q))
<1>1. 1 \in 1..Len(q) /\ q[1] = Head(q)
  OBVIOUS
<1> QED
  BY <1>1 DEF Has

\* A first occurrence, or something else, leaves x alone.
LEMMA LoneAppend ==
    ASSUME NEW S, NEW q \in Seq(S), NEW y \in S, NEW x,
           Lone(q, x), y # x \/ ~Has(q, x)
    PROVE  Lone(Append(q, y), x)
BY DEF Lone, Has

\* The tail has no second occurrence either ...
LEMMA LoneTail ==
    ASSUME NEW S, NEW q \in Seq(S), q # <<>>, NEW x, Lone(q, x)
    PROVE  Lone(Tail(q), x)
<1> SUFFICES ASSUME NEW i \in 1..Len(Tail(q)), NEW j \in 1..Len(Tail(q)),
                    Tail(q)[i] = x, Tail(q)[j] = x
             PROVE  i = j
  BY DEF Lone
<1>1. i + 1 \in 1..Len(q) /\ j + 1 \in 1..Len(q) /\ q[i + 1] = x /\ q[j + 1] = x
  OBVIOUS
<1> QED
  BY <1>1 DEF Lone

\* ... and none at all if the head was it.
LEMMA LoneHead ==
    ASSUME NEW S, NEW q \in Seq(S), q # <<>>, NEW x, Lone(q, x), Head(q) = x
    PROVE  ~Has(Tail(q), x)
<1> SUFFICES ASSUME NEW i \in 1..Len(Tail(q)), Tail(q)[i] = x
             PROVE  FALSE
  BY DEF Has
<1>1. i + 1 \in 1..Len(q) /\ q[i + 1] = x /\ 1 \in 1..Len(q) /\ q[1] = x
  OBVIOUS
<1> QED
  BY <1>1 DEF Lone

-----------------------------------------------------------------------------
(***************************************************************************)
(* The inductive invariant.                                                *)
(***************************************************************************)

\* DoLogin starts the command, and is back with the URL before a client can
\* submit; who says ok or Done has seen the command succeed.
Verdicts ==
    /\ login = "new" => command = "new" /\ status = "None"
    /\ status = "WaitKey" => login = "url"
    /\ \A s \in Submitters :
          /\ Passed(s) => login = "url"
          /\ verdict[s] = "ok" => command = "succeeded"
    /\ status = "Done" =>
          \E s \in Submitters : submit[s] = "returned" /\ verdict[s] = "ok"

\* Until the URL is printed no client gets anywhere.
Early == command \in {"new", "running", "asking"}

NoKeyYet ==
    Early => /\ stdout = <<>>
             /\ ~Has(output, "url") /\ ~Has(stderr, "url")
             /\ login # "url"
             /\ \A s \in Submitters : submit[s] \in {"idle", "refused"}
             /\ inputCh \in Seq({Confirm}) /\ stdin \in Seq({Confirm})

\* A question is in one place at a time, on its way to DoLogin or, as an
\* answer, on its way back, and there is none unless the command asks one.
NoQuestion ==
    /\ ~Has(stderr, "question") /\ ~Has(output, "question") /\ ~Has(stdout, "question")
    /\ login # "confirming"
    /\ inputCh \in Seq(Submitters) /\ stdin \in Seq(Submitters)

OneQuestion ==
    /\ Lone(stderr, "question") /\ Lone(output, "question")
    /\ Len(inputCh) <= 1 /\ Len(stdin) <= 1
    /\ Has(stderr, "question") => /\ ~Has(output, "question") /\ login # "confirming"
                                  /\ inputCh = <<>> /\ stdin = <<>>
    /\ Has(output, "question") => login # "confirming" /\ inputCh = <<>> /\ stdin = <<>>
    /\ login = "confirming" => inputCh = <<>> /\ stdin = <<>>
    /\ inputCh # <<>> => stdin = <<>>

Questions ==
    /\ command \in {"new", "running", "expecting"} => NoQuestion
    /\ command = "asking" => OneQuestion

LoginInv == LoginTypeOK /\ Verdicts /\ NoKeyYet /\ Questions

-----------------------------------------------------------------------------
\* The invariant holds initially.
LEMMA InitLogin == LoginInit => LoginInv
<1> SUFFICES ASSUME LoginInit PROVE LoginInv
  OBVIOUS
<1> USE SubmittersAssumption DEF LoginInit
<1>1. LoginTypeOK
  <2>1. /\ stdout \in Seq(Lines) /\ stderr \in Seq(Lines) /\ output \in Seq(Lines)
        /\ inputCh \in Seq(Submitters \cup {Confirm}) /\ stdin \in Seq(Submitters \cup {Confirm})
        /\ Len(inputCh) <= InputCap
    BY DEF InputCap
  <2>2. submit \in [Submitters -> SubmitPc] /\ verdict \in [Submitters -> {"none", "ok", "error"}]
    BY DEF SubmitPc
  <2>3. overlooked \in 0..2 /\ status \in Status /\ login \in LoginPc /\ command \in CommandState
    BY DEF Status, LoginPc, CommandState
  <2> QED
    BY <2>1, <2>2, <2>3 DEF LoginTypeOK
<1>2. Verdicts
  BY DEF Verdicts, Passed
<1>3. NoKeyYet
  BY DEF NoKeyYet, Early, Has
<1>4. Questions
  BY DEF Questions, NoQuestion, Has
<1> QED
  BY <1>1, <1>2, <1>3, <1>4 DEF LoginInv

(***************************************************************************)
(* Every action preserves the invariant.                                   *)
(***************************************************************************)

\* The command starts.
LEMMA StartStep ==
    ASSUME LoginInv, Start
    PROVE  LoginInv'
<1> USE SubmittersAssumption DEF LoginInv, LoginTypeOK,
       commandVars, readerVars, inputVars, submitVars, otherVars
<1>1. LoginTypeOK'
  BY DEF Start, Status, LoginPc, CommandState
<1>2. Verdicts'
  BY DEF Start, Verdicts, Passed
<1>3. NoKeyYet'
  BY DEF Start, NoKeyYet, Early, Verdicts, Passed
<1>4. Questions'
  <2>1. NoQuestion
    BY DEF Start, Verdicts, Questions
  <2> QED
    BY <2>1 DEF Start, Questions, NoQuestion
<1> QED
  BY <1>1, <1>2, <1>3, <1>4 DEF LoginInv

\* It does not start.
LEMMA StartFailsStep ==
    ASSUME LoginInv, StartFails
    PROVE  LoginInv'
<1> USE SubmittersAssumption DEF LoginInv, LoginTypeOK,
       commandVars, readerVars, inputVars, submitVars, otherVars
<1>1. LoginTypeOK'
  BY DEF StartFails, Status, LoginPc
<1>2. Verdicts'
  BY DEF StartFails, Verdicts, Passed
<1>3. NoKeyYet'
  BY DEF StartFails, NoKeyYet, Early, Verdicts, Passed
<1>4. Questions'
  BY DEF StartFails, Questions, NoQuestion, OneQuestion, NoKeyYet, Early
<1> QED
  BY <1>1, <1>2, <1>3, <1>4 DEF LoginInv

\* DoLogin takes a line.
LEMMA ReceiveLineStep ==
    ASSUME LoginInv, ReceiveLine
    PROVE  LoginInv'
<1> USE SubmittersAssumption DEF LoginInv, LoginTypeOK,
       commandVars, readerVars, inputVars, submitVars, otherVars
<1>1. LoginTypeOK'
  BY DEF ReceiveLine, Status, LoginPc, Lines
<1>2. Verdicts'
  <2>1. Head(output) \in Lines
    BY DEF ReceiveLine
  <2>2. \/ Head(output) = "url" /\ login' = "url" /\ status' = "WaitKey"
        \/ Head(output) # "url" /\ login' \in {"watching", "confirming"} /\ status' = status
    BY <2>1 DEF ReceiveLine, Lines
  <2>3. UNCHANGED <<command, submit, verdict>> /\ login = "watching"
    BY DEF ReceiveLine
  <2> QED
    BY <2>2, <2>3 DEF Verdicts, Passed
<1>3. NoKeyYet'
  <2> SUFFICES ASSUME Early PROVE NoKeyYet'
    BY DEF ReceiveLine, NoKeyYet, Early
  <2>1. ~Has(output, "url") /\ output # <<>> /\ output' = Tail(output)
    BY DEF ReceiveLine, NoKeyYet
  <2>2. Head(output) # "url"
    BY <2>1, HasHead
  <2>3. ~Has(output', "url")
    BY <2>1, HasTail
  <2>4. Head(output) \in Lines
    BY <2>1
  <2>5. login' # "url" /\ UNCHANGED <<command, stdout, stderr, stdin, inputCh, submit>>
    BY <2>2, <2>4 DEF ReceiveLine, Lines
  <2> QED
    BY <2>3, <2>5 DEF NoKeyYet, Early
<1>4. Questions'
  <2>1. output # <<>> /\ output' = Tail(output) /\ login = "watching"
        /\ UNCHANGED <<command, stdout, stderr, stdin, inputCh>>
    BY DEF ReceiveLine
  <2>2. Head(output) \in Lines
    BY <2>1
  <2>3. IF Head(output) = "question" THEN login' = "confirming" ELSE login' # "confirming"
    BY <2>2 DEF ReceiveLine, Lines
  <2>4. Has(output', "question") => Has(output, "question")
    BY <2>1, HasTail
  <2>5. Head(output) = "question" => Has(output, "question")
    BY <2>1, HasHead
  <2>6. ASSUME command \in {"new", "running", "expecting"} PROVE NoQuestion'
    BY <2>1, <2>3, <2>4, <2>5, <2>6 DEF Questions, NoQuestion
  <2>7. ASSUME command = "asking" PROVE OneQuestion'
    <3>1. OneQuestion
      BY <2>7 DEF Questions
    <3>2. Lone(output', "question")
      BY <2>1, <3>1, LoneTail DEF OneQuestion
    <3>3. Head(output) = "question" => ~Has(output', "question")
      BY <2>1, <3>1, LoneHead DEF OneQuestion
    <3> QED
      BY <2>1, <2>3, <2>4, <2>5, <3>1, <3>2, <3>3 DEF OneQuestion
  <2> QED
    BY <2>1, <2>6, <2>7 DEF Questions
<1> QED
  BY <1>1, <1>2, <1>3, <1>4 DEF LoginInv

\* DoLogin answers the question.
LEMMA SendConfirmStep ==
    ASSUME LoginInv, SendConfirm
    PROVE  LoginInv'
<1> USE SubmittersAssumption DEF LoginInv, LoginTypeOK,
       commandVars, readerVars, inputVars, submitVars, otherVars
<1>1. LoginTypeOK'
  BY DEF SendConfirm, LoginPc, InputCap, Confirm
<1>2. Verdicts'
  BY DEF SendConfirm, Verdicts, Passed, Confirm
<1>3. NoKeyYet'
  BY DEF SendConfirm, NoKeyYet, Early, Verdicts, Passed, Confirm
<1>4. Questions'
  BY DEF SendConfirm, Questions, NoQuestion, OneQuestion, NoKeyYet, Early, Confirm
<1> QED
  BY <1>1, <1>2, <1>3, <1>4 DEF LoginInv

\* The deadline passes before the answer is taken.
LEMMA ConfirmTimesOutStep ==
    ASSUME LoginInv, ConfirmTimesOut
    PROVE  LoginInv'
<1> USE SubmittersAssumption DEF LoginInv, LoginTypeOK,
       commandVars, readerVars, inputVars, submitVars, otherVars
<1>1. LoginTypeOK'
  BY DEF ConfirmTimesOut, LoginPc
<1>2. Verdicts'
  BY DEF ConfirmTimesOut, Verdicts, Passed
<1>3. NoKeyYet'
  BY DEF ConfirmTimesOut, NoKeyYet, Early, Verdicts, Passed
<1>4. Questions'
  BY DEF ConfirmTimesOut, Questions, NoQuestion, OneQuestion, NoKeyYet, Early
<1> QED
  BY <1>1, <1>2, <1>3, <1>4 DEF LoginInv

\* The output is closed.
LEMMA OutputEndsStep ==
    ASSUME LoginInv, OutputEnds
    PROVE  LoginInv'
<1> USE SubmittersAssumption DEF LoginInv, LoginTypeOK,
       commandVars, readerVars, inputVars, submitVars, otherVars
<1>1. LoginTypeOK'
  BY DEF OutputEnds, Status, LoginPc
<1>2. Verdicts'
  BY DEF OutputEnds, Verdicts, Passed
<1>3. NoKeyYet'
  BY DEF OutputEnds, NoKeyYet, Early, Verdicts, Passed
<1>4. Questions'
  BY DEF OutputEnds, Questions, NoQuestion, OneQuestion, NoKeyYet, Early
<1> QED
  BY <1>1, <1>2, <1>3, <1>4 DEF LoginInv

\* The deadline passes while DoLogin watches.
LEMMA LoginTimesOutStep ==
    ASSUME LoginInv, LoginTimesOut
    PROVE  LoginInv'
<1> USE SubmittersAssumption DEF LoginInv, LoginTypeOK,
       commandVars, readerVars, inputVars, submitVars, otherVars
<1>1. LoginTypeOK'
  BY DEF LoginTimesOut, Status, LoginPc
<1>2. Verdicts'
  BY DEF LoginTimesOut, Verdicts, Passed
<1>3. NoKeyYet'
  BY DEF LoginTimesOut, NoKeyYet, Early, Verdicts, Passed
<1>4. Questions'
  BY DEF LoginTimesOut, Questions, NoQuestion, OneQuestion, NoKeyYet, Early
<1> QED
  BY <1>1, <1>2, <1>3, <1>4 DEF LoginInv

\* Thirty seconds pass without a line.
LEMMA SilenceStep ==
    ASSUME LoginInv, Silence
    PROVE  LoginInv'
<1> USE SubmittersAssumption DEF LoginInv, LoginTypeOK,
       commandVars, readerVars, inputVars, submitVars, otherVars
<1>1. LoginTypeOK'
  BY DEF Silence, Ended, Status, LoginPc
<1>2. Verdicts'
  BY DEF Silence, Ended, Verdicts, Passed
<1>3. NoKeyYet'
  BY DEF Silence, Ended, NoKeyYet, Early, Verdicts, Passed
<1>4. Questions'
  BY DEF Silence, Ended, Questions, NoQuestion, OneQuestion, NoKeyYet, Early
<1> QED
  BY <1>1, <1>2, <1>3, <1>4 DEF LoginInv

\* A line of stdout is passed on.
LEMMA ReadStdoutStep ==
    ASSUME LoginInv, ReadStdout
    PROVE  LoginInv'
<1> USE SubmittersAssumption DEF LoginInv, LoginTypeOK,
       commandVars, readerVars, inputVars, submitVars, otherVars
<1>1. LoginTypeOK'
  BY DEF ReadStdout, Lines
<1>2. Verdicts'
  BY DEF ReadStdout, Verdicts, Passed
<1>3. NoKeyYet'
  BY DEF ReadStdout, NoKeyYet, Early, Verdicts, Passed
<1>4. Questions'
  <2>1. stdout # <<>> /\ output' = Append(output, Head(stdout)) /\ stdout' = Tail(stdout)
        /\ Head(stdout) \in Lines /\ UNCHANGED <<command, login, stderr, stdin, inputCh>>
    BY DEF ReadStdout
  <2>2. command # "asking"
    BY <2>1 DEF NoKeyYet, Early
  <2>3. ASSUME NoQuestion PROVE NoQuestion'
    <3>1. Head(stdout) # "question"
      BY <2>1, <2>3, HasHead DEF NoQuestion
    <3>2. ~Has(output', "question")
      BY <2>1, <2>3, <3>1, HasAppend DEF NoQuestion
    <3>3. ~Has(stdout', "question")
      BY <2>1, <2>3, HasTail DEF NoQuestion
    <3> QED
      BY <2>1, <2>3, <3>2, <3>3 DEF NoQuestion
  <2> QED
    BY <2>1, <2>2, <2>3 DEF Questions
<1> QED
  BY <1>1, <1>2, <1>3, <1>4 DEF LoginInv

\* A line of stderr is passed on.
LEMMA ReadStderrStep ==
    ASSUME LoginInv, ReadStderr
    PROVE  LoginInv'
<1> USE SubmittersAssumption DEF LoginInv, LoginTypeOK,
       commandVars, readerVars, inputVars, submitVars, otherVars
<1>1. LoginTypeOK'
  BY DEF ReadStderr, Lines
<1>2. Verdicts'
  BY DEF ReadStderr, Verdicts, Passed
<1>3. NoKeyYet'
  <2> SUFFICES ASSUME Early PROVE NoKeyYet'
    BY DEF ReadStderr, NoKeyYet, Early
  <2>1. stderr # <<>> /\ output' = Append(output, Head(stderr)) /\ stderr' = Tail(stderr)
        /\ Head(stderr) \in Lines
        /\ UNCHANGED <<command, login, stdout, stdin, inputCh, submit>>
    BY DEF ReadStderr
  <2>2. ~Has(stderr, "url") /\ ~Has(output, "url")
    BY DEF NoKeyYet
  <2>3. ~Has(stderr', "url")
    BY <2>1, <2>2, HasTail
  <2>4. Head(stderr) # "url"
    BY <2>1, <2>2, HasHead
  <2>5. ~Has(output', "url")
    BY <2>1, <2>2, <2>4, HasAppend
  <2> QED
    BY <2>1, <2>3, <2>5 DEF NoKeyYet, Early
<1>4. Questions'
  <2>1. stderr # <<>> /\ output' = Append(output, Head(stderr)) /\ stderr' = Tail(stderr)
        /\ Head(stderr) \in Lines
        /\ UNCHANGED <<command, login, stdout, stdin, inputCh>>
    BY DEF ReadStderr
  <2>2. Has(stderr', "question") => Has(stderr, "question")
    BY <2>1, HasTail
  <2>3. Head(stderr) = "question" => Has(stderr, "question")
    BY <2>1, HasHead
  <2>4. Has(output', "question") <=> Has(output, "question") \/ Head(stderr) = "question"
    BY <2>1, HasAppend
  <2>5. ASSUME command \in {"new", "running", "expecting"} PROVE NoQuestion'
    BY <2>1, <2>2, <2>3, <2>4, <2>5 DEF Questions, NoQuestion
  <2>6. ASSUME command = "asking" PROVE OneQuestion'
    <3>1. OneQuestion
      BY <2>6 DEF Questions
    <3>2. Lone(stderr', "question")
      BY <2>1, <3>1, LoneTail DEF OneQuestion
    <3>3. Head(stderr) = "question" => ~Has(stderr', "question")
      BY <2>1, <3>1, LoneHead DEF OneQuestion
    <3>4. Head(stderr) # "question" \/ ~Has(output, "question")
      BY <2>3, <3>1 DEF OneQuestion
    <3>5. Lone(output', "question")
      BY <2>1, <3>1, <3>4, LoneAppend DEF OneQuestion
    <3> QED
      BY <2>1, <2>2, <2>3, <2>4, <3>1, <3>2, <3>3, <3>5 DEF OneQuestion
  <2> QED
    BY <2>1, <2>5, <2>6 DEF Questions
<1> QED
  BY <1>1, <1>2, <1>3, <1>4 DEF LoginInv

\* The reader ends.
LEMMA ReaderEndsStep ==
    ASSUME LoginInv, ReaderEnds
    PROVE  LoginInv'
<1> USE SubmittersAssumption DEF LoginInv, LoginTypeOK,
       commandVars, readerVars, inputVars, submitVars, otherVars
<1>1. LoginTypeOK'
  BY DEF ReaderEnds
<1>2. Verdicts'
  BY DEF ReaderEnds, Verdicts, Passed
<1>3. NoKeyYet'
  BY DEF ReaderEnds, NoKeyYet, Early, Verdicts, Passed
<1>4. Questions'
  BY DEF ReaderEnds, Questions, NoQuestion, OneQuestion
<1> QED
  BY <1>1, <1>2, <1>3, <1>4 DEF LoginInv

\* The writer takes from inputCh.
LEMMA WriterWritesStep ==
    ASSUME LoginInv, WriterWrites
    PROVE  LoginInv'
<1> USE SubmittersAssumption DEF LoginInv, LoginTypeOK,
       commandVars, readerVars, inputVars, submitVars, otherVars
<1>1. LoginTypeOK'
  <2>1. inputCh # <<>> /\ inputCh' = Tail(inputCh) /\ Head(inputCh) \in Submitters \cup {Confirm}
    BY DEF WriterWrites
  <2>2. inputCh' \in Seq(Submitters \cup {Confirm}) /\ Len(inputCh') <= InputCap
    BY <2>1 DEF InputCap
  <2>3. stdin' \in Seq(Submitters \cup {Confirm}) /\ writer' \in {"running", "ended"}
    <3>1. Append(stdin, Head(inputCh)) \in Seq(Submitters \cup {Confirm})
      BY <2>1
    <3> QED
      BY <3>1 DEF WriterWrites
  <2>4. UNCHANGED <<status, login, command, stdout, stderr, output, reader, inputClosed,
                    deadline, submit, verdict, reaped, overlooked>>
    BY DEF WriterWrites
  <2> QED
    BY <2>2, <2>3, <2>4
<1>2. Verdicts'
  BY DEF WriterWrites, Ended, Verdicts, Passed
<1>3. NoKeyYet'
  <2> SUFFICES ASSUME Early PROVE NoKeyYet'
    BY DEF WriterWrites, NoKeyYet, Early
  <2>1. inputCh \in Seq({Confirm}) /\ stdin \in Seq({Confirm})
    BY DEF NoKeyYet
  <2>2. inputCh # <<>> /\ inputCh' = Tail(inputCh) /\ stdin' = Append(stdin, Head(inputCh))
    BY DEF WriterWrites, Early, Ended
  <2>3. inputCh' \in Seq({Confirm}) /\ stdin' \in Seq({Confirm})
    BY <2>1, <2>2
  <2> QED
    BY <2>3 DEF WriterWrites, NoKeyYet, Early
<1>4. Questions'
  <2>1. inputCh # <<>> /\ inputCh' = Tail(inputCh)
        /\ UNCHANGED <<command, login, output, stdout, stderr>>
    BY DEF WriterWrites
  <2>2. ASSUME command \in {"new", "running", "expecting"} PROVE NoQuestion'
    <3>1. stdin' = Append(stdin, Head(inputCh))
      BY <2>2 DEF WriterWrites, Ended
    <3>2. NoQuestion
      BY <2>2 DEF Questions
    <3>3. inputCh' \in Seq(Submitters) /\ stdin' \in Seq(Submitters)
      BY <2>1, <3>1, <3>2 DEF NoQuestion
    <3> QED
      BY <2>1, <3>2, <3>3 DEF NoQuestion
  <2>3. ASSUME command = "asking" PROVE OneQuestion'
    <3>1. stdin' = Append(stdin, Head(inputCh))
      BY <2>3 DEF WriterWrites, Ended
    <3>2. OneQuestion
      BY <2>3 DEF Questions
    <3>3. Len(inputCh) <= 1 /\ stdin = <<>>
      BY <2>1, <3>2 DEF OneQuestion
    <3>4. inputCh' = <<>> /\ Len(stdin') = 1
      BY <2>1, <3>1, <3>3
    <3> QED
      BY <2>1, <3>2, <3>4 DEF OneQuestion
  <2> QED
    BY <2>1, <2>2, <2>3 DEF Questions
<1> QED
  BY <1>1, <1>2, <1>3, <1>4 DEF LoginInv

\* The writer ends.
LEMMA WriterEndsStep ==
    ASSUME LoginInv, WriterEnds
    PROVE  LoginInv'
<1> USE SubmittersAssumption DEF LoginInv, LoginTypeOK,
       commandVars, readerVars, inputVars, submitVars, otherVars
<1>1. LoginTypeOK'
  BY DEF WriterEnds
<1>2. Verdicts'
  BY DEF WriterEnds, Verdicts, Passed
<1>3. NoKeyYet'
  BY DEF WriterEnds, NoKeyYet, Early, Verdicts, Passed
<1>4. Questions'
  BY DEF WriterEnds, Questions, NoQuestion, OneQuestion
<1> QED
  BY <1>1, <1>2, <1>3, <1>4 DEF LoginInv

\* The command asks.
LEMMA CommandAsksStep ==
    ASSUME LoginInv, CommandAsks
    PROVE  LoginInv'
<1> USE SubmittersAssumption DEF LoginInv, LoginTypeOK,
       commandVars, readerVars, inputVars, submitVars, otherVars
<1>1. LoginTypeOK'
  BY DEF CommandAsks, CommandState, Lines
<1>2. Verdicts'
  BY DEF CommandAsks, Verdicts, Passed
<1>3. NoKeyYet'
  <2>1. Early /\ Early' /\ stderr' = Append(stderr, "question") /\ "question" \in Lines
    BY DEF CommandAsks, Early, Lines
  <2>2. ~Has(stderr', "url")
    BY <2>1, HasAppend DEF NoKeyYet
  <2> QED
    BY <2>1, <2>2 DEF CommandAsks, NoKeyYet
<1>4. Questions'
  <2>1. NoQuestion /\ NoKeyYet /\ Early
    BY DEF CommandAsks, Questions, Early
  <2>2. inputCh = <<>> /\ stdin = <<>>
    <3>1. ASSUME NEW q, q \in Seq(Submitters), q \in Seq({Confirm}) PROVE q = <<>>
      <4>1. ASSUME q # <<>> PROVE FALSE
        <5>1. q[1] \in Submitters /\ q[1] = Confirm
          BY <3>1, <4>1
        <5> QED
          BY <5>1
      <4> QED
        BY <4>1
    <3> QED
      BY <2>1, <3>1 DEF NoQuestion, NoKeyYet
  <2>3. stderr' = Append(stderr, "question") /\ "question" \in Lines /\ command' = "asking"
        /\ UNCHANGED <<login, output, stdin, inputCh>>
    BY DEF CommandAsks, Lines
  <2>4. Lone(stderr, "question") /\ Lone(output, "question") /\ ~Has(stderr, "question")
    BY <2>1 DEF NoQuestion, Lone, Has
  <2>5. Lone(stderr', "question")
    BY <2>3, <2>4, LoneAppend
  <2>6. OneQuestion'
    BY <2>1, <2>2, <2>3, <2>4, <2>5 DEF OneQuestion, NoQuestion
  <2> QED
    BY <2>3, <2>6 DEF Questions
<1> QED
  BY <1>1, <1>2, <1>3, <1>4 DEF LoginInv

\* The command takes the answer.
LEMMA CommandReadsAnswerStep ==
    ASSUME LoginInv, CommandReadsAnswer
    PROVE  LoginInv'
<1> USE SubmittersAssumption DEF LoginInv, LoginTypeOK,
       commandVars, readerVars, inputVars, submitVars, otherVars
<1>1. LoginTypeOK'
  BY DEF CommandReadsAnswer, CommandState, Lines, Confirm
<1>2. Verdicts'
  BY DEF CommandReadsAnswer, Verdicts, Passed, Confirm
<1>3. NoKeyYet'
  <2> SUFFICES ASSUME Early PROVE NoKeyYet'
    BY DEF CommandReadsAnswer, NoKeyYet, Early
  <2>1. stdin # <<>> /\ stdin' = Tail(stdin) /\ stderr' = Append(stderr, "newline")
        /\ "newline" \in Lines /\ UNCHANGED <<login, stdout, output, inputCh, submit>>
    BY DEF CommandReadsAnswer, Lines
  <2>2. ~Has(stderr', "url")
    BY <2>1, HasAppend DEF NoKeyYet
  <2>3. stdin' \in Seq({Confirm})
    BY <2>1 DEF NoKeyYet
  <2> QED
    BY <2>1, <2>2, <2>3 DEF NoKeyYet
<1>4. Questions'
  <2>1. OneQuestion /\ command' \in {"running", "failed"}
    BY DEF CommandReadsAnswer, Questions
  <2>2. stdin # <<>> /\ stdin' = Tail(stdin) /\ stderr' = Append(stderr, "newline")
        /\ "newline" \in Lines /\ UNCHANGED <<login, stdout, output, inputCh>>
    BY DEF CommandReadsAnswer, Lines
  <2>3. inputCh = <<>> /\ stdin' = <<>>
    BY <2>1, <2>2 DEF OneQuestion
  <2>4. ~Has(stderr, "question") /\ ~Has(output, "question") /\ login # "confirming"
    BY <2>1, <2>2 DEF OneQuestion
  <2>5. ~Has(stderr', "question")
    BY <2>2, <2>4, HasAppend
  <2>6. ~Has(stdout, "question")
    BY DEF CommandReadsAnswer, NoKeyYet, Early, Has
  <2>7. inputCh' \in Seq(Submitters) /\ stdin' \in Seq(Submitters)
    BY <2>2, <2>3, EmptySeq
  <2>8. NoQuestion'
    BY <2>2, <2>4, <2>5, <2>6, <2>7 DEF NoQuestion
  <2> QED
    BY <2>1, <2>8 DEF Questions
<1> QED
  BY <1>1, <1>2, <1>3, <1>4 DEF LoginInv

\* The command prints the URL.
LEMMA CommandPrintsURLStep ==
    ASSUME LoginInv, CommandPrintsURL
    PROVE  LoginInv'
<1> USE SubmittersAssumption DEF LoginInv, LoginTypeOK,
       commandVars, readerVars, inputVars, submitVars, otherVars
<1>1. LoginTypeOK'
  BY DEF CommandPrintsURL, CommandState, Lines
<1>2. Verdicts'
  BY DEF CommandPrintsURL, Verdicts, Passed
<1>3. NoKeyYet'
  BY DEF CommandPrintsURL, NoKeyYet, Early, Verdicts, Passed
<1>4. Questions'
  <2>1. NoQuestion /\ stdout' = Append(stdout, "url") /\ "url" \in Lines /\ command' = "expecting"
        /\ UNCHANGED <<login, stderr, output, stdin, inputCh>>
    BY DEF CommandPrintsURL, Questions, Lines
  <2>2. ~Has(stdout', "question")
    BY <2>1, HasAppend DEF NoQuestion
  <2> QED
    BY <2>1, <2>2 DEF Questions, NoQuestion
<1> QED
  BY <1>1, <1>2, <1>3, <1>4 DEF LoginInv

\* The command takes a key.
LEMMA CommandReadsKeyStep ==
    ASSUME LoginInv, CommandReadsKey
    PROVE  LoginInv'
<1> USE SubmittersAssumption DEF LoginInv, LoginTypeOK,
       commandVars, readerVars, inputVars, submitVars, otherVars
<1>1. LoginTypeOK'
  BY DEF CommandReadsKey, CommandState, Confirm
<1>2. Verdicts'
  BY DEF CommandReadsKey, Verdicts, Passed, Confirm
<1>3. NoKeyYet'
  BY DEF CommandReadsKey, NoKeyYet, Early, Verdicts, Passed, Confirm
<1>4. Questions'
  BY DEF CommandReadsKey, Questions, NoQuestion, OneQuestion, NoKeyYet, Early, Confirm
<1> QED
  BY <1>1, <1>2, <1>3, <1>4 DEF LoginInv

\* The command fails.
LEMMA CommandFailsStep ==
    ASSUME LoginInv, CommandFails
    PROVE  LoginInv'
<1> USE SubmittersAssumption DEF LoginInv, LoginTypeOK,
       commandVars, readerVars, inputVars, submitVars, otherVars
<1>1. LoginTypeOK'
  BY DEF CommandFails, Alive, CommandState
<1>2. Verdicts'
  BY DEF CommandFails, Alive, Verdicts, Passed
<1>3. NoKeyYet'
  BY DEF CommandFails, Alive, NoKeyYet, Early, Verdicts, Passed
<1>4. Questions'
  BY DEF CommandFails, Alive, Questions, NoQuestion, OneQuestion, NoKeyYet, Early
<1> QED
  BY <1>1, <1>2, <1>3, <1>4 DEF LoginInv

\* The deadline passes.
LEMMA DeadlinePassesStep ==
    ASSUME LoginInv, DeadlinePasses
    PROVE  LoginInv'
<1> USE SubmittersAssumption DEF LoginInv, LoginTypeOK,
       commandVars, readerVars, inputVars, submitVars, otherVars
<1>1. LoginTypeOK'
  BY DEF DeadlinePasses
<1>2. Verdicts'
  BY DEF DeadlinePasses, Verdicts, Passed
<1>3. NoKeyYet'
  BY DEF DeadlinePasses, NoKeyYet, Early, Verdicts, Passed
<1>4. Questions'
  BY DEF DeadlinePasses, Questions, NoQuestion, OneQuestion
<1> QED
  BY <1>1, <1>2, <1>3, <1>4 DEF LoginInv

\* A client looks at the status.
LEMMA CheckStatusStep ==
    ASSUME LoginInv, NEW s \in Submitters, CheckStatus(s)
    PROVE  LoginInv'
<1> USE SubmittersAssumption DEF LoginInv, LoginTypeOK,
       commandVars, readerVars, inputVars, submitVars, otherVars
<1>1. LoginTypeOK'
  BY DEF CheckStatus, SubmitPc
<1>2. Verdicts'
  BY DEF CheckStatus, Verdicts, Passed
<1>3. NoKeyYet'
  BY DEF CheckStatus, NoKeyYet, Early, Verdicts, Passed
<1>4. Questions'
  BY DEF CheckStatus, Questions, NoQuestion, OneQuestion
<1> QED
  BY <1>1, <1>2, <1>3, <1>4 DEF LoginInv

\* A client changes the status.
LEMMA TakeKeyStep ==
    ASSUME LoginInv, NEW s \in Submitters, TakeKey(s)
    PROVE  LoginInv'
<1> USE SubmittersAssumption DEF LoginInv, LoginTypeOK,
       commandVars, readerVars, inputVars, submitVars, otherVars
<1>1. LoginTypeOK'
  BY DEF TakeKey, Status, SubmitPc
<1>2. Verdicts'
  BY DEF TakeKey, Verdicts, Passed
<1>3. NoKeyYet'
  BY DEF TakeKey, NoKeyYet, Early, Verdicts, Passed
<1>4. Questions'
  BY DEF TakeKey, Questions, NoQuestion, OneQuestion
<1> QED
  BY <1>1, <1>2, <1>3, <1>4 DEF LoginInv

\* A client sends its key.
LEMMA SendKeyStep ==
    ASSUME LoginInv, NEW s \in Submitters, SendKey(s)
    PROVE  LoginInv'
<1> USE SubmittersAssumption DEF LoginInv, LoginTypeOK,
       commandVars, readerVars, inputVars, submitVars, otherVars
<1>1. LoginTypeOK'
  BY DEF SendKey, SubmitPc, InputCap, Confirm
<1>2. Verdicts'
  BY DEF SendKey, Verdicts, Passed
<1>3. NoKeyYet'
  BY DEF SendKey, NoKeyYet, Early, Verdicts, Passed
<1>4. Questions'
  BY DEF SendKey, Questions, NoQuestion, OneQuestion, NoKeyYet, Early
<1> QED
  BY <1>1, <1>2, <1>3, <1>4 DEF LoginInv

\* A client finds the channel closed.
LEMMA SendPanicsStep ==
    ASSUME LoginInv, NEW s \in Submitters, SendPanics(s)
    PROVE  LoginInv'
<1> USE SubmittersAssumption DEF LoginInv, LoginTypeOK,
       commandVars, readerVars, inputVars, submitVars, otherVars
<1>1. LoginTypeOK'
  BY DEF SendPanics, SubmitPc
<1>2. Verdicts'
  BY DEF SendPanics, Verdicts, Passed
<1>3. NoKeyYet'
  BY DEF SendPanics, NoKeyYet, Early, Verdicts, Passed
<1>4. Questions'
  BY DEF SendPanics, Questions, NoQuestion, OneQuestion
<1> QED
  BY <1>1, <1>2, <1>3, <1>4 DEF LoginInv

\* A client gives up at the deadline.
LEMMA SendTimesOutStep ==
    ASSUME LoginInv, NEW s \in Submitters, SendTimesOut(s)
    PROVE  LoginInv'
<1> USE SubmittersAssumption DEF LoginInv, LoginTypeOK,
       commandVars, readerVars, inputVars, submitVars, otherVars
<1>1. LoginTypeOK'
  BY DEF SendTimesOut, Status, SubmitPc
<1>2. Verdicts'
  BY DEF SendTimesOut, Verdicts, Passed
<1>3. NoKeyYet'
  BY DEF SendTimesOut, NoKeyYet, Early, Verdicts, Passed
<1>4. Questions'
  BY DEF SendTimesOut, Questions, NoQuestion, OneQuestion
<1> QED
  BY <1>1, <1>2, <1>3, <1>4 DEF LoginInv

\* A client learns how the command ended.
LEMMA WaitReturnsStep ==
    ASSUME LoginInv, NEW s \in Submitters, WaitReturns(s)
    PROVE  LoginInv'
<1> USE SubmittersAssumption DEF LoginInv, LoginTypeOK,
       commandVars, readerVars, inputVars, submitVars, otherVars
<1>1. LoginTypeOK'
  BY DEF WaitReturns, Ended, SubmitPc
<1>2. Verdicts'
  BY DEF WaitReturns, Ended, Verdicts, Passed
<1>3. NoKeyYet'
  BY DEF WaitReturns, Ended, NoKeyYet, Early, Verdicts, Passed
<1>4. Questions'
  BY DEF WaitReturns, Ended, Questions, NoQuestion, OneQuestion
<1> QED
  BY <1>1, <1>2, <1>3, <1>4 DEF LoginInv

\* A client waits in vain.
LEMMA WaitAgainStep ==
    ASSUME LoginInv, NEW s \in Submitters, WaitAgain(s)
    PROVE  LoginInv'
<1> USE SubmittersAssumption DEF LoginInv, LoginTypeOK,
       commandVars, readerVars, inputVars, submitVars, otherVars
<1>1. LoginTypeOK'
  <2>1. verdict' \in [Submitters -> {"none", "ok", "error"}]
    BY DEF WaitAgain
  <2>2. submit' \in [Submitters -> SubmitPc]
    BY DEF WaitAgain, SubmitPc
  <2> QED
    BY <2>1, <2>2 DEF WaitAgain
<1>2. Verdicts'
  BY DEF WaitAgain, Verdicts, Passed
<1>3. NoKeyYet'
  BY DEF WaitAgain, NoKeyYet, Early, Verdicts, Passed
<1>4. Questions'
  BY DEF WaitAgain, Questions, NoQuestion, OneQuestion
<1> QED
  BY <1>1, <1>2, <1>3, <1>4 DEF LoginInv

\* A client closes the channel.
LEMMA CloseInputStep ==
    ASSUME LoginInv, NEW s \in Submitters, CloseInput(s)
    PROVE  LoginInv'
<1> USE SubmittersAssumption DEF LoginInv, LoginTypeOK,
       commandVars, readerVars, inputVars, submitVars, otherVars
<1>1. LoginTypeOK'
  BY DEF CloseInput, SubmitPc
<1>2. Verdicts'
  BY DEF CloseInput, Verdicts, Passed
<1>3. NoKeyYet'
  BY DEF CloseInput, NoKeyYet, Early, Verdicts, Passed
<1>4. Questions'
  BY DEF CloseInput, Questions, NoQuestion, OneQuestion
<1> QED
  BY <1>1, <1>2, <1>3, <1>4 DEF LoginInv

\* A client records the verdict.
LEMMA RecordVerdictStep ==
    ASSUME LoginInv, NEW s \in Submitters, RecordVerdict(s)
    PROVE  LoginInv'
<1> USE SubmittersAssumption DEF LoginInv, LoginTypeOK,
       commandVars, readerVars, inputVars, submitVars, otherVars
<1>1. LoginTypeOK'
  BY DEF RecordVerdict, Status, SubmitPc
<1>2. Verdicts'
  BY DEF RecordVerdict, Verdicts, Passed
<1>3. NoKeyYet'
  BY DEF RecordVerdict, NoKeyYet, Early, Verdicts, Passed
<1>4. Questions'
  BY DEF RecordVerdict, Questions, NoQuestion, OneQuestion
<1> QED
  BY <1>1, <1>2, <1>3, <1>4 DEF LoginInv

-----------------------------------------------------------------------------
\* Every step preserves the invariant.
LEMMA LoginStep == LoginInv /\ [LoginNext]_loginVars => LoginInv'
<1> SUFFICES ASSUME LoginInv, [LoginNext]_loginVars PROVE LoginInv'
  OBVIOUS
<1>1. CASE DoLogin
  BY <1>1, StartStep, StartFailsStep, ReceiveLineStep, SendConfirmStep, ConfirmTimesOutStep,
     OutputEndsStep, LoginTimesOutStep DEF DoLogin
<1>2. CASE Silence
  BY <1>2, SilenceStep
<1>3. CASE ReadCombinedOutput
  BY <1>3, ReadStdoutStep, ReadStderrStep, ReaderEndsStep DEF ReadCombinedOutput
<1>4. CASE StartInputWriter
  BY <1>4, WriterWritesStep, WriterEndsStep DEF StartInputWriter
<1>5. CASE Command
  BY <1>5, CommandAsksStep, CommandReadsAnswerStep, CommandPrintsURLStep, CommandReadsKeyStep,
     CommandFailsStep DEF Command
<1>6. CASE DeadlinePasses
  BY <1>6, DeadlinePassesStep
<1>7. ASSUME NEW s \in Submitters, CheckStatus(s) \/ CompleteLoginToken(s) PROVE LoginInv'
  BY <1>7, CheckStatusStep, TakeKeyStep, SendKeyStep, SendPanicsStep, SendTimesOutStep,
     WaitReturnsStep, WaitAgainStep, CloseInputStep, RecordVerdictStep DEF CompleteLoginToken
<1>8. CASE UNCHANGED loginVars
  BY <1>8 DEF loginVars, commandVars, readerVars, inputVars, submitVars, otherVars, LoginInv,
     LoginTypeOK, Verdicts, Passed, NoKeyYet, Early, Questions, NoQuestion, OneQuestion, Has, Lone
<1> QED
  BY <1>1, <1>2, <1>3, <1>4, <1>5, <1>6, <1>7, <1>8 DEF LoginNext

(***************************************************************************)
(* The invariant always holds.                                             *)
(***************************************************************************)
THEOREM LoginInvariance == LoginSpec => []LoginInv
BY InitLogin, LoginStep, PTL DEF LoginSpec

(***************************************************************************)
(* Every variable keeps its type, and inputCh never holds more than two.   *)
(***************************************************************************)
THEOREM LoginTypeCorrect == LoginSpec => []LoginTypeOK
<1>1. LoginInv => LoginTypeOK
  BY DEF LoginInv
<1> QED
  BY <1>1, LoginInvariance, PTL

\* A question in one place only leaves nothing but answers under way; without
\* a question there are only keys.
LEMMA UnderWayFits == LoginInv => AnswersFit
<1> SUFFICES ASSUME LoginInv PROVE AnswersFit
  OBVIOUS
<1>1. ASSUME NEW S, stdin \in Seq(S), inputCh \in Seq(S)
      PROVE  \A i \in DOMAIN UnderWay : UnderWay[i] \in S
  <2>1. UnderWay \in Seq(S)
    BY <1>1 DEF UnderWay
  <2> QED
    BY <2>1
<1>2. ASSUME command = "asking" PROVE \A i \in DOMAIN UnderWay : UnderWay[i] = Confirm
  <2>1. inputCh \in Seq({Confirm}) /\ stdin \in Seq({Confirm})
    BY <1>2 DEF LoginInv, NoKeyYet, Early
  <2> QED
    BY <2>1, <1>1
<1>3. ASSUME command = "expecting" PROVE \A i \in DOMAIN UnderWay : UnderWay[i] \in Submitters
  <2>1. inputCh \in Seq(Submitters) /\ stdin \in Seq(Submitters)
    BY <1>3 DEF LoginInv, Questions, NoQuestion
  <2> QED
    BY <2>1, <1>1
<1> QED
  BY <1>2, <1>3 DEF AnswersFit

(***************************************************************************)
(* No key is taken for the answer to a question, and no answer for a key,  *)
(* whatever the order in which the goroutines read and write.              *)
(***************************************************************************)
THEOREM InputFits == LoginSpec => []AnswersFit
BY LoginInvariance, UnderWayFits, PTL

(***************************************************************************)
(* Done is written only after the command has succeeded, however many      *)
(* clients race.                                                           *)
(***************************************************************************)
THEOREM DoneIsTrue == LoginSpec => [](status = "Done" => command = "succeeded")
<1>1. LoginInv => (status = "Done" => command = "succeeded")
  BY DEF LoginInv, Verdicts
<1> QED
  BY <1>1, LoginInvariance, PTL

-----------------------------------------------------------------------------
(***************************************************************************)
(* The session implements LoginService.  Beyond LoginInv this needs that   *)
(* Wait gives the result of the process to one client only, and that a key *)
(* on its way to the command is that of a client still in Wait.            *)
(***************************************************************************)
Reaped ==
    /\ reaped => Ended
    /\ \A s \in Submitters :
          /\ verdict[s] = "ok" =>
                reaped /\ submit[s] \in {"closing", "recording", "returned", "panicked"}
          /\ submit[s] \in {"closing", "recording", "returned"} => verdict[s] # "none"
    /\ \A s, t \in Submitters : verdict[s] = "ok" /\ verdict[t] = "ok" => s = t

KeysWait ==
    ~Ended => \A s \in Submitters : Has(stdin, s) \/ Has(inputCh, s) => submit[s] = "waiting"

ServiceInv == LoginInv /\ Reaped /\ KeysWait

LEMMA InitService == LoginInit => ServiceInv
<1> SUFFICES ASSUME LoginInit PROVE ServiceInv
  OBVIOUS
<1>1. LoginInv
  BY InitLogin
<1>2. Reaped
  BY DEF LoginInit, Reaped
<1>3. KeysWait
  BY DEF LoginInit, KeysWait, Has
<1> QED
  BY <1>1, <1>2, <1>3 DEF ServiceInv

\* The steps of everybody but the clients take no verdict and no Wait ...
LEMMA OthersReaped ==
    ASSUME ServiceInv, UNCHANGED submitVars, Ended => Ended'
    PROVE  Reaped'
BY DEF ServiceInv, Reaped, submitVars

\* ... and bring no key to the command that was not on its way.
LEMMA OthersWait ==
    ASSUME ServiceInv, UNCHANGED submit, Ended => Ended',
           \A s \in Submitters :
              Has(stdin, s)' \/ Has(inputCh, s)' => Has(stdin, s) \/ Has(inputCh, s)
    PROVE  KeysWait'
BY DEF ServiceInv, KeysWait

LEMMA DoLoginService ==
    ASSUME ServiceInv, DoLogin \/ Silence
    PROVE  Reaped' /\ KeysWait'
<1> USE DEF commandVars, readerVars, inputVars, submitVars, otherVars
<1>1. UNCHANGED submitVars /\ (Ended => Ended')
  BY DEF DoLogin, Silence, Start, StartFails, ReceiveLine, SendConfirm, ConfirmTimesOut, OutputEnds,
         LoginTimesOut, ServiceInv, LoginInv, Verdicts, Ended
<1>2. CASE SendConfirm
  <2>1. inputCh \in Seq(Submitters \cup {Confirm}) /\ inputCh' = Append(inputCh, Confirm)
        /\ stdin' = stdin
    BY <1>2 DEF SendConfirm, ServiceInv, LoginInv, LoginTypeOK
  <2>2. \A s \in Submitters : Has(inputCh', s) => Has(inputCh, s)
    BY <2>1, HasAppend, SubmittersAssumption
  <2> QED
    BY <1>1, <2>1, <2>2, OthersReaped, OthersWait DEF Has
<1>3. CASE ~SendConfirm
  <2>1. UNCHANGED <<stdin, inputCh>>
    BY <1>3 DEF DoLogin, Silence, Start, StartFails, ReceiveLine, ConfirmTimesOut, OutputEnds,
                LoginTimesOut
  <2> QED
    BY <1>1, <2>1, OthersReaped, OthersWait DEF Has
<1> QED
  BY <1>2, <1>3

LEMMA PipesService ==
    ASSUME ServiceInv, ReadCombinedOutput \/ StartInputWriter \/ DeadlinePasses
    PROVE  Reaped' /\ KeysWait'
<1> USE DEF commandVars, readerVars, inputVars, submitVars, otherVars
<1>1. UNCHANGED <<command, submitVars>>
  BY DEF ReadCombinedOutput, ReadStdout, ReadStderr, ReaderEnds, StartInputWriter, WriterWrites,
         WriterEnds, DeadlinePasses
<1>2. Reaped'
  BY <1>1, OthersReaped DEF Ended
<1>3. CASE WriterWrites
  <2>1. /\ inputCh \in Seq(Submitters \cup {Confirm}) /\ inputCh # <<>> /\ inputCh' = Tail(inputCh)
        /\ stdin \in Seq(Submitters \cup {Confirm})
        /\ stdin' = stdin \/ stdin' = Append(stdin, Head(inputCh))
    BY <1>3 DEF WriterWrites, ServiceInv, LoginInv, LoginTypeOK
  <2>2. Head(inputCh) \in Submitters \cup {Confirm}
    BY <2>1
  <2>3. \A s : Has(inputCh', s) => Has(inputCh, s)
    BY <2>1, HasTail
  <2>4. Has(inputCh, Head(inputCh))
    BY <2>1, HasHead
  <2>5. \A s : Has(Append(stdin, Head(inputCh)), s) => Has(stdin, s) \/ s = Head(inputCh)
    BY <2>1, <2>2, HasAppend
  <2>6. \A s : Has(stdin', s) => Has(stdin, s) \/ s = Head(inputCh)
    BY <2>1, <2>5
  <2> QED
    BY <1>1, <1>2, <2>3, <2>4, <2>6, OthersWait DEF Ended, Has
<1>4. CASE ~WriterWrites
  <2>1. UNCHANGED <<stdin, inputCh>>
    BY <1>4 DEF ReadCombinedOutput, ReadStdout, ReadStderr, ReaderEnds, StartInputWriter,
                WriterEnds, DeadlinePasses
  <2> QED
    BY <1>1, <1>2, <2>1, OthersWait DEF Has, Ended
<1> QED
  BY <1>3, <1>4

LEMMA CommandService ==
    ASSUME ServiceInv, Command
    PROVE  Reaped' /\ KeysWait'
<1> USE DEF commandVars, readerVars, inputVars, submitVars, otherVars
<1>1. UNCHANGED <<inputCh, submitVars>> /\ ~Ended
  BY DEF Command, CommandAsks, CommandReadsAnswer, CommandPrintsURL, CommandReadsKey, CommandFails,
         Alive, Ended
<1>2. stdin' = stdin \/ (stdin # <<>> /\ stdin' = Tail(stdin))
  BY DEF Command, CommandAsks, CommandReadsAnswer, CommandPrintsURL, CommandReadsKey, CommandFails
<1>3. \A s : Has(stdin', s) => Has(stdin, s)
  BY <1>2, HasTail DEF ServiceInv, LoginInv, LoginTypeOK
<1> QED
  BY <1>1, <1>3, OthersReaped, OthersWait DEF Has

LEMMA ClientService ==
    ASSUME ServiceInv, NEW s \in Submitters, CheckStatus(s) \/ CompleteLoginToken(s)
    PROVE  Reaped' /\ KeysWait'
<1> USE DEF commandVars, readerVars, inputVars, otherVars
<1>1. LoginTypeOK /\ Reaped /\ KeysWait
  BY DEF ServiceInv, LoginInv
<1>2. ASSUME CheckStatus(s) \/ TakeKey(s) \/ SendPanics(s) PROVE Reaped' /\ KeysWait'
  <2>1. /\ submit[s] \in {"idle", "checked", "sending"}
        /\ \E p \in {"refused", "checked", "sending", "panicked"} :
              submit' = [submit EXCEPT ![s] = p]
        /\ UNCHANGED <<command, stdin, inputCh, verdict, reaped>>
    BY <1>2 DEF CheckStatus, TakeKey, SendPanics
  <2>2. Reaped'
    BY <1>1, <2>1 DEF LoginTypeOK, Reaped, Ended
  <2> QED
    BY <1>1, <2>1, <2>2 DEF LoginTypeOK, KeysWait, Has, Ended
<1>3. ASSUME SendKey(s) PROVE Reaped' /\ KeysWait'
  <2>1. Reaped'
    BY <1>1, <1>3 DEF SendKey, LoginTypeOK, Reaped, Ended
  <2>2. inputCh \in Seq(Submitters \cup {Confirm}) /\ inputCh' = Append(inputCh, s)
    BY <1>1, <1>3 DEF SendKey, LoginTypeOK
  <2>3. \A t : Has(inputCh', t) => Has(inputCh, t) \/ t = s
    BY <2>2, HasAppend
  <2>4. UNCHANGED <<stdin, command>> /\ submit' = [submit EXCEPT ![s] = "waiting"]
    BY <1>3 DEF SendKey
  <2> QED
    BY <1>1, <2>1, <2>3, <2>4 DEF LoginTypeOK, KeysWait, Has, Ended
<1>4. ASSUME SendTimesOut(s) PROVE Reaped' /\ KeysWait'
  BY <1>1, <1>4 DEF SendTimesOut, LoginTypeOK, Reaped, KeysWait, Has, Ended
<1>5. ASSUME WaitReturns(s) PROVE Reaped' /\ KeysWait'
  <2>1. Reaped'
    BY <1>1, <1>5 DEF WaitReturns, LoginTypeOK, Reaped, Ended
  <2>2. Ended /\ UNCHANGED command
    BY <1>1, <1>5 DEF WaitReturns, Reaped, Ended
  <2>3. KeysWait'
    BY <2>2 DEF KeysWait, Ended
  <2> QED
    BY <2>1, <2>3
<1>6. ASSUME WaitAgain(s) PROVE Reaped' /\ KeysWait'
  <2>1. Reaped'
    BY <1>1, <1>6 DEF WaitAgain, LoginTypeOK, Reaped, Ended
  <2>2. Ended /\ UNCHANGED command
    BY <1>1, <1>6 DEF WaitAgain, Reaped, Ended
  <2>3. KeysWait'
    BY <2>2 DEF KeysWait, Ended
  <2> QED
    BY <2>1, <2>3
<1>7. ASSUME CloseInput(s) \/ RecordVerdict(s) PROVE Reaped' /\ KeysWait'
  <2>1. /\ submit[s] \in {"closing", "recording"}
        /\ \E p \in {"panicked", "recording", "returned"} : submit' = [submit EXCEPT ![s] = p]
        /\ UNCHANGED <<command, stdin, inputCh, verdict, reaped>>
    BY <1>7 DEF CloseInput, RecordVerdict
  <2>2. Reaped'
    BY <1>1, <2>1 DEF LoginTypeOK, Reaped, Ended
  <2> QED
    BY <1>1, <2>1, <2>2 DEF LoginTypeOK, KeysWait, Has, Ended
<1> QED
  BY <1>2, <1>3, <1>4, <1>5, <1>6, <1>7 DEF CompleteLoginToken

LEMMA ServiceStep == ServiceInv /\ [LoginNext]_loginVars => ServiceInv'
<1> SUFFICES ASSUME ServiceInv, [LoginNext]_loginVars PROVE ServiceInv'
  OBVIOUS
<1>1. LoginInv'
  BY LoginStep DEF ServiceInv
<1>2. CASE UNCHANGED loginVars
  <2>1. UNCHANGED <<submitVars, submit, command, stdin, inputCh>>
    BY <1>2 DEF loginVars, submitVars, commandVars, inputVars
  <2> QED
    BY <1>1, <2>1, OthersReaped, OthersWait DEF ServiceInv, Ended, Has
<1>3. CASE LoginNext
  <2>1. Reaped' /\ KeysWait'
    BY <1>3, DoLoginService, PipesService, CommandService, ClientService DEF LoginNext
  <2> QED
    BY <1>1, <2>1 DEF ServiceInv
<1> QED
  BY <1>1, <1>2, <1>3 DEF ServiceInv

(***************************************************************************)
(* Each step is one of the service, or invisible to its clients.           *)
(***************************************************************************)

\* DoLogin hands out the URL, or does nothing that the clients see.
LEMMA DoLoginServes ==
    ASSUME ServiceInv, DoLogin \/ Silence
    PROVE  Service!GiveURL \/ UNCHANGED Service!svars
<1> USE DEF commandVars, readerVars, inputVars, submitVars, otherVars
<1>1. UNCHANGED <<submit, verdict>> /\ login # "url" /\ status # "Done"
  BY DEF DoLogin, Silence, Start, StartFails, ReceiveLine, SendConfirm, ConfirmTimesOut, OutputEnds,
         LoginTimesOut, ServiceInv, LoginInv, Verdicts, Passed
<1>2. (command = "succeeded") = (command' = "succeeded") /\ status' # "Done"
  BY <1>1 DEF DoLogin, Silence, Start, StartFails, ReceiveLine, SendConfirm, ConfirmTimesOut,
              OutputEnds, LoginTimesOut, ServiceInv, LoginInv, Verdicts
<1>3. [s \in Submitters |-> Answer(s)]' = [s \in Submitters |-> Answer(s)]
  BY <1>1 DEF Answer
<1> QED
  BY <1>1, <1>2, <1>3 DEF Service!GiveURL, Service!svars

\* The readers, the writer and the deadline do nothing that the clients see.
LEMMA PipesServe ==
    ASSUME ReadCombinedOutput \/ StartInputWriter \/ DeadlinePasses
    PROVE  UNCHANGED Service!svars
BY DEF ReadCombinedOutput, ReadStdout, ReadStderr, ReaderEnds, StartInputWriter, WriterWrites,
       WriterEnds, DeadlinePasses, commandVars, readerVars, inputVars, submitVars, otherVars,
       Service!svars, Answer

\* The command signs the account in for a client that waits, or ends otherwise.
LEMMA CommandServes ==
    ASSUME ServiceInv, Command
    PROVE  Service!SignIn \/ UNCHANGED Service!svars
<1> USE DEF commandVars, readerVars, inputVars, submitVars, otherVars
<1>1. UNCHANGED <<login, status, submit, verdict>> /\ command # "succeeded"
  BY DEF Command, CommandAsks, CommandReadsAnswer, CommandPrintsURL, CommandReadsKey, CommandFails,
         Alive
<1>2. [s \in Submitters |-> Answer(s)]' = [s \in Submitters |-> Answer(s)]
  BY <1>1 DEF Answer
<1>3. CASE command' = "succeeded"
  <2>1. command = "expecting" /\ stdin # <<>>
    BY <1>3 DEF Command, CommandAsks, CommandReadsAnswer, CommandPrintsURL, CommandReadsKey,
                CommandFails
  <2>2. stdin \in Seq(Submitters)
    BY <2>1 DEF ServiceInv, LoginInv, Questions, NoQuestion
  <2>3. Head(stdin) \in Submitters /\ Has(stdin, Head(stdin))
    BY <2>1, <2>2, HasHead
  <2>4. Answer(Head(stdin)) = "taken"
    BY <2>1, <2>3 DEF ServiceInv, KeysWait, Ended, Answer
  <2>5. \E s \in Submitters : [t \in Submitters |-> Answer(t)][s] = "taken"
    BY <2>3, <2>4
  <2> QED
    BY <1>1, <1>2, <1>3, <2>5 DEF Service!SignIn
<1>4. CASE command' # "succeeded"
  BY <1>1, <1>2, <1>4 DEF Service!svars
<1> QED
  BY <1>3, <1>4

\* A client's step changes nobody else's answer.
LEMMA AnswerStep ==
    ASSUME LoginTypeOK, NEW s \in Submitters, NEW p, NEW r, NEW a,
           submit' = [submit EXCEPT ![s] = p],
           verdict' = [verdict EXCEPT ![s] = r],
           Answer(s)' = a
    PROVE  [t \in Submitters |-> Answer(t)]' = [[t \in Submitters |-> Answer(t)] EXCEPT ![s] = a]
<1>1. \A t \in Submitters : t # s => Answer(t)' = Answer(t)
  BY DEF LoginTypeOK, Answer
<1> QED
  BY <1>1

LEMMA ClientServes ==
    ASSUME ServiceInv, NEW s \in Submitters, CheckStatus(s) \/ CompleteLoginToken(s)
    PROVE  \/ Service!Refuse(s) \/ Service!Take(s) \/ Service!Accept(s) \/ Service!Fail(s)
           \/ Service!Undo(s) \/ UNCHANGED Service!svars
<1> USE DEF commandVars, readerVars, inputVars, submitVars, otherVars
<1> DEFINE answer == [t \in Submitters |-> Answer(t)]
<1>1. LoginTypeOK /\ Verdicts /\ Reaped
  BY DEF ServiceInv, LoginInv
<1>2. UNCHANGED <<login, command>>
  BY DEF CompleteLoginToken, CheckStatus, TakeKey, SendKey, SendPanics, SendTimesOut, WaitReturns,
         WaitAgain, CloseInput, RecordVerdict
<1>3. ASSUME CheckStatus(s) PROVE Service!Refuse(s) \/ Service!Take(s)
  <2>1. verdict' = [verdict EXCEPT ![s] = verdict[s]] /\ answer[s] = "none" /\ status' = status
    BY <1>1, <1>3 DEF CheckStatus, LoginTypeOK, Answer
  <2>2. CASE status = "WaitKey"
    <3>1. submit' = [submit EXCEPT ![s] = "checked"] /\ login = "url"
      BY <1>1, <1>3, <2>2 DEF CheckStatus, Verdicts
    <3>2. Answer(s)' = "taken"
      BY <1>1, <3>1 DEF LoginTypeOK, Answer
    <3>3. answer' = [answer EXCEPT ![s] = "taken"]
      BY <1>1, <2>1, <3>1, <3>2, AnswerStep
    <3> QED
      BY <1>2, <2>1, <3>1, <3>3 DEF Service!Take
  <2>3. CASE status # "WaitKey"
    <3>1. submit' = [submit EXCEPT ![s] = "refused"]
      BY <1>3, <2>3 DEF CheckStatus
    <3>2. Answer(s)' = "refused"
      BY <1>1, <3>1 DEF LoginTypeOK, Answer
    <3>3. answer' = [answer EXCEPT ![s] = "refused"]
      BY <1>1, <2>1, <3>1, <3>2, AnswerStep
    <3> QED
      BY <1>2, <2>1, <3>3 DEF Service!Refuse
  <2> QED
    BY <2>2, <2>3
<1>4. ASSUME TakeKey(s) \/ SendKey(s) \/ WaitReturns(s) \/ WaitAgain(s)
             \/ (CloseInput(s) /\ ~inputClosed)
      PROVE  Service!Undo(s) \/ UNCHANGED Service!svars
  <2>1. /\ answer[s] = "taken"
        /\ status' = status \/ status' = "GetKey"
        /\ \A t \in Submitters : Answer(t)' = Answer(t)
    BY <1>1, <1>4 DEF TakeKey, SendKey, WaitReturns, WaitAgain, CloseInput, LoginTypeOK, Answer
  <2>2. answer' = answer
    BY <2>1
  <2> QED
    BY <1>2, <2>1, <2>2 DEF Service!Undo, Service!svars
<1>5. ASSUME SendPanics(s) \/ SendTimesOut(s) \/ (CloseInput(s) /\ inputClosed)
             \/ (RecordVerdict(s) /\ verdict[s] # "ok")
      PROVE  Service!Fail(s)
  <2>1. /\ answer[s] = "taken"
        /\ status' = status \/ status' = "Fail"
        /\ Answer(s)' = "error"
        /\ \A t \in Submitters : t # s => Answer(t)' = Answer(t)
    BY <1>1, <1>5
       DEF SendPanics, SendTimesOut, CloseInput, RecordVerdict, LoginTypeOK, Reaped, Answer
  <2>2. answer' = [answer EXCEPT ![s] = "error"]
    BY <2>1
  <2> QED
    BY <1>2, <2>1, <2>2 DEF Service!Fail
<1>6. ASSUME RecordVerdict(s), verdict[s] = "ok" PROVE Service!Accept(s)
  <2>1. /\ answer[s] = "taken"
        /\ status' = "Done"
        /\ Answer(s)' = "ok"
        /\ \A t \in Submitters : t # s => Answer(t)' = Answer(t)
    BY <1>1, <1>6 DEF RecordVerdict, LoginTypeOK, Answer
  <2>2. answer' = [answer EXCEPT ![s] = "ok"]
    BY <2>1
  <2>3. \A t \in Submitters : answer[t] # "ok"
    BY <1>1, <1>6, <2>1 DEF Reaped, Answer
  <2>4. command = "succeeded"
    BY <1>1, <1>6 DEF Verdicts
  <2> QED
    BY <1>2, <2>1, <2>2, <2>3, <2>4 DEF Service!Accept
<1> QED
  BY <1>3, <1>4, <1>5, <1>6 DEF CompleteLoginToken

(***************************************************************************)
(* A login session implements the service LoginService describes, however  *)
(* many clients submit keys, and whenever the deadline comes.              *)
(***************************************************************************)
THEOREM LoginRefinement == LoginSpec => ImplementsService
<1>1. LoginInit => Service!SInit
  BY DEF LoginInit, Service!SInit, Answer
<1>2. ServiceInv /\ [LoginNext]_loginVars => [Service!SNext]_(Service!svars)
  <2> SUFFICES ASSUME ServiceInv, [LoginNext]_loginVars PROVE [Service!SNext]_(Service!svars)
    OBVIOUS
  <2>1. CASE UNCHANGED loginVars
    BY <2>1 DEF loginVars, submitVars, commandVars, Service!svars, Answer
  <2>2. CASE LoginNext
    BY <2>2, DoLoginServes, PipesServe, CommandServes, ClientServes DEF LoginNext, Service!SNext
  <2> QED
    BY <2>1, <2>2
<1> QED
  BY <1>1, <1>2, InitService, ServiceStep, PTL DEF ImplementsService, Service!SSpec, LoginSpec

-----------------------------------------------------------------------------
(***************************************************************************)
(* What a client meets when no other has passed the check.  A handler can  *)
(* panic or be stuck only because another has closed the input or has its  *)
(* result from Wait already; so it is not alone.                           *)
(***************************************************************************)
Traces ==
    /\ inputClosed => \E t \in Submitters : submit[t] \in {"recording", "returned"}
    /\ reaped =>
          \E t \in Submitters : submit[t] \in {"closing", "recording", "returned", "panicked"}

AloneInv == ServiceInv /\ Traces /\ StatusFollowsClient

LEMMA InitAlone == LoginInit => AloneInv
<1> SUFFICES ASSUME LoginInit PROVE AloneInv
  OBVIOUS
<1>1. ServiceInv
  BY InitService
<1>2. Traces /\ StatusFollowsClient
  BY DEF LoginInit, Traces, StatusFollowsClient
<1> QED
  BY <1>1, <1>2 DEF AloneInv

\* While DoLogin works nobody has passed, and it writes neither GetKey nor Done.
LEMMA DoLoginAlone ==
    ASSUME AloneInv, DoLogin \/ Silence
    PROVE  Traces' /\ StatusFollowsClient'
<1> USE DEF commandVars, readerVars, inputVars, submitVars, otherVars
<1>1. /\ UNCHANGED <<submit, verdict, reaped, inputClosed>> /\ login # "url"
      /\ status' \in {status, "BeginLogin", "WaitKey", "Fail"}
  BY DEF DoLogin, Silence, Start, StartFails, ReceiveLine, SendConfirm, ConfirmTimesOut, OutputEnds,
         LoginTimesOut
<1>2. \A s \in Submitters : submit[s] \in {"idle", "refused"}
  BY <1>1 DEF AloneInv, ServiceInv, LoginInv, Verdicts, Passed
<1>3. Traces'
  BY <1>1 DEF AloneInv, Traces
<1>4. status' \notin {"GetKey", "Done"}
  BY <1>1, <1>2 DEF AloneInv, StatusFollowsClient, Overlap, Passed
<1>5. StatusFollowsClient'
  BY <1>1, <1>2, <1>4 DEF StatusFollowsClient
<1> QED
  BY <1>3, <1>5

\* The others leave Status and the clients alone.
LEMMA OthersAlone ==
    ASSUME AloneInv, ReadCombinedOutput \/ StartInputWriter \/ Command \/ DeadlinePasses
    PROVE  Traces' /\ StatusFollowsClient'
<1>1. UNCHANGED <<submit, verdict, reaped, inputClosed, status>>
  BY DEF ReadCombinedOutput, ReadStdout, ReadStderr, ReaderEnds, StartInputWriter, WriterWrites,
         WriterEnds, Command, CommandAsks, CommandReadsAnswer, CommandPrintsURL, CommandReadsKey,
         CommandFails, DeadlinePasses, commandVars, readerVars, inputVars, submitVars, otherVars
<1> QED
  BY <1>1 DEF AloneInv, Traces, StatusFollowsClient, Overlap, Passed

LEMMA ClientAlone ==
    ASSUME AloneInv, NEW s \in Submitters, CheckStatus(s) \/ CompleteLoginToken(s)
    PROVE  Traces' /\ StatusFollowsClient'
<1> USE DEF commandVars, readerVars, inputVars, submitVars, otherVars
<1>1. LoginTypeOK /\ Reaped /\ Traces /\ StatusFollowsClient
  BY DEF AloneInv, ServiceInv, LoginInv
<1>2. Traces'
  <2>1. CASE CheckStatus(s) \/ TakeKey(s) \/ SendKey(s) \/ SendPanics(s) \/ SendTimesOut(s)
    <3>1. /\ submit[s] \in {"idle", "checked", "sending"}
          /\ \E p : submit' = [submit EXCEPT ![s] = p]
          /\ UNCHANGED <<inputClosed, reaped>>
      BY <2>1 DEF CheckStatus, TakeKey, SendKey, SendPanics, SendTimesOut
    <3> QED
      BY <1>1, <3>1 DEF LoginTypeOK, Traces
  <2>2. CASE WaitReturns(s)
    BY <1>1, <2>2 DEF WaitReturns, LoginTypeOK, Traces
  <2>3. CASE WaitAgain(s)
    BY <1>1, <2>3 DEF WaitAgain, LoginTypeOK, Traces
  <2>4. CASE CloseInput(s)
    BY <1>1, <2>4 DEF CloseInput, LoginTypeOK, Traces
  <2>5. CASE RecordVerdict(s)
    BY <1>1, <2>5 DEF RecordVerdict, LoginTypeOK, Traces
  <2> QED
    BY <2>1, <2>2, <2>3, <2>4, <2>5 DEF CompleteLoginToken
<1>3. StatusFollowsClient'
  <2> SUFFICES ASSUME ~Overlap' PROVE StatusFollowsClient'
    BY DEF StatusFollowsClient
  <2>1. \E p, r : submit' = [submit EXCEPT ![s] = p] /\ verdict' = [verdict EXCEPT ![s] = r]
    <3>1. \E p : submit' = [submit EXCEPT ![s] = p]
      BY DEF CompleteLoginToken, CheckStatus, TakeKey, SendKey, SendPanics, SendTimesOut,
             WaitReturns, WaitAgain, CloseInput, RecordVerdict
    <3>2. verdict' = verdict \/ \E r : verdict' = [verdict EXCEPT ![s] = r]
      BY DEF CompleteLoginToken, CheckStatus, TakeKey, SendKey, SendPanics, SendTimesOut,
             WaitReturns, WaitAgain, CloseInput, RecordVerdict
    <3>3. verdict = [verdict EXCEPT ![s] = verdict[s]]
      BY <1>1 DEF LoginTypeOK
    <3> QED
      BY <3>1, <3>2, <3>3
  <2>2. \A t \in Submitters \ {s} : submit'[t] = submit[t] /\ verdict'[t] = verdict[t]
    BY <1>1, <2>1 DEF LoginTypeOK
  <2>3. CASE CheckStatus(s)
    <3>1. /\ submit[s] = "idle" /\ submit'[s] \in {"checked", "refused"}
          /\ UNCHANGED <<status, verdict>>
      BY <1>1, <2>3 DEF CheckStatus, LoginTypeOK
    <3>2. ~Overlap
      BY <2>2, <3>1 DEF Overlap, Passed
    <3> QED
      BY <1>1, <2>2, <3>1, <3>2 DEF StatusFollowsClient
  <2>4. CASE CompleteLoginToken(s)
    <3>1. /\ Passed(s)
          /\ submit'[s] \notin {"idle", "refused"}
      BY <1>1, <2>4
         DEF CompleteLoginToken, TakeKey, SendKey, SendPanics, SendTimesOut, WaitReturns, WaitAgain,
             CloseInput, RecordVerdict, LoginTypeOK, Passed
    <3>2. \A t \in Submitters \ {s} : submit[t] \in {"idle", "refused"}
      BY <2>2, <3>1 DEF Overlap, Passed
    <3>3. ~Overlap
      BY <3>2 DEF Overlap, Passed
    <3>4. /\ ~SendPanics(s)
          /\ reaped => submit[s] # "waiting"
          /\ inputClosed => submit[s] # "closing"
      BY <1>1, <3>2 DEF SendPanics, Traces
    <3>5. CASE TakeKey(s) \/ SendTimesOut(s) \/ RecordVerdict(s)
      <4>1. \/ submit'[s] = "sending" /\ status' = "GetKey"
            \/ submit'[s] = "returned" /\ verdict'[s] = "ok" /\ status' = "Done"
            \/ submit'[s] = "returned" /\ verdict'[s] # "ok" /\ status' = "Fail"
        BY <1>1, <3>5 DEF TakeKey, SendTimesOut, RecordVerdict, LoginTypeOK
      <4> QED
        BY <2>2, <3>2, <4>1 DEF StatusFollowsClient
    <3>6. CASE SendKey(s) \/ WaitReturns(s) \/ CloseInput(s)
      <4>1. /\ submit[s] \in {"sending", "waiting", "closing"}
            /\ submit'[s] \in {"waiting", "closing", "recording"}
            /\ UNCHANGED status
        BY <1>1, <3>4, <3>6 DEF SendKey, WaitReturns, CloseInput, LoginTypeOK
      <4> QED
        BY <1>1, <2>2, <3>2, <3>3, <4>1 DEF StatusFollowsClient
    <3>7. ~WaitAgain(s)
      BY <3>4 DEF WaitAgain
    <3> QED
      BY <2>4, <3>4, <3>5, <3>6, <3>7 DEF CompleteLoginToken
  <2> QED
    BY <2>3, <2>4
<1> QED
  BY <1>2, <1>3

LEMMA AloneStep == AloneInv /\ [LoginNext]_loginVars => AloneInv'
<1> SUFFICES ASSUME AloneInv, [LoginNext]_loginVars PROVE AloneInv'
  OBVIOUS
<1>1. ServiceInv'
  BY ServiceStep DEF AloneInv
<1>2. CASE UNCHANGED loginVars
  BY <1>1, <1>2
     DEF loginVars, submitVars, inputVars, AloneInv, Traces, StatusFollowsClient, Overlap, Passed
<1>3. CASE LoginNext
  <2>1. Traces' /\ StatusFollowsClient'
    BY <1>3, DoLoginAlone, OthersAlone, ClientAlone DEF LoginNext
  <2> QED
    BY <1>1, <2>1 DEF AloneInv
<1> QED
  BY <1>2, <1>3

THEOREM AloneInvariance == LoginSpec => []AloneInv
BY InitAlone, AloneStep, PTL DEF LoginSpec

(***************************************************************************)
(* A client without a rival ends in an orderly way, and Status keeps step  *)
(* with it.                                                                *)
(***************************************************************************)
THEOREM StatusFollows == LoginSpec => []StatusFollowsClient
<1>1. AloneInv => StatusFollowsClient
  BY DEF AloneInv
<1> QED
  BY <1>1, AloneInvariance, PTL

\* Only a client that has passed the check can take Done back, and the one
\* that has written it has passed too.
LEMMA DoneStaysStep ==
    ASSUME LoginInv, [LoginNext]_loginVars, status = "Done", ~Overlap
    PROVE  status' = "Done"
<1> USE DEF loginVars, commandVars, readerVars, inputVars, submitVars, otherVars
<1>1. PICK t \in Submitters : submit[t] = "returned" /\ verdict[t] = "ok"
  BY DEF LoginInv, Verdicts
<1>2. login = "url"
  BY <1>1 DEF LoginInv, Verdicts, Passed
<1>3. ASSUME NEW s \in Submitters, submit[s] \in {"checked", "sending", "recording"} PROVE FALSE
  BY <1>1, <1>3 DEF Overlap, Passed
<1>4. CASE DoLogin \/ Silence
  BY <1>2, <1>4 DEF DoLogin, Silence, Start, StartFails, ReceiveLine, SendConfirm, ConfirmTimesOut,
     OutputEnds, LoginTimesOut
<1>5. CASE ReadCombinedOutput \/ StartInputWriter
  BY <1>5 DEF ReadCombinedOutput, ReadStdout, ReadStderr, ReaderEnds,
     StartInputWriter, WriterWrites, WriterEnds
<1>6. CASE Command \/ DeadlinePasses
  BY <1>6 DEF Command, CommandAsks, CommandReadsAnswer, CommandPrintsURL, CommandReadsKey,
     CommandFails, DeadlinePasses
<1>7. ASSUME NEW s \in Submitters, CheckStatus(s) \/ CompleteLoginToken(s) PROVE status' = "Done"
  <2>1. CASE TakeKey(s) \/ SendTimesOut(s) \/ RecordVerdict(s)
    BY <1>3, <2>1 DEF TakeKey, SendTimesOut, RecordVerdict
  <2>2. CASE CheckStatus(s) \/ SendKey(s) \/ SendPanics(s)
    BY <2>2 DEF CheckStatus, SendKey, SendPanics
  <2>3. CASE WaitReturns(s) \/ WaitAgain(s) \/ CloseInput(s)
    BY <2>3 DEF WaitReturns, WaitAgain, CloseInput
  <2> QED
    BY <1>7, <2>1, <2>2, <2>3 DEF CompleteLoginToken
<1>8. CASE UNCHANGED loginVars
  BY <1>8
<1> QED
  BY <1>4, <1>5, <1>6, <1>7, <1>8 DEF LoginNext

(***************************************************************************)
(* Without two clients in the race, Done is final: neither the deadline    *)
(* nor DoLogin nor a client that comes later takes it back.                *)
(***************************************************************************)
THEOREM DoneStays == LoginSpec => [][status = "Done" /\ ~Overlap => status' = "Done"]_loginVars
<1>1. LoginInv /\ [LoginNext]_loginVars =>
         [status = "Done" /\ ~Overlap => status' = "Done"]_loginVars
  BY DoneStaysStep
<1> QED
  BY <1>1, LoginInvariance, PTL DEF LoginSpec
=============================================================================
