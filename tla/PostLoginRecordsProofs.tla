------------------------ MODULE PostLoginRecordsProofs ------------------------
(***************************************************************************)
(* What the tables gcp_accounts and official_tokens say of the projects at *)
(* Google, for any number of overlapping runs: KeyRecorded,                *)
(* OfficialRecorded and BillingAgrees.                                     *)
(***************************************************************************)
EXTENDS PostLoginProcessProofs

(***************************************************************************)
(* The shapes of a step, seen from a run q.                                *)
(***************************************************************************)
Sold(p) == p \in {o.project : o \in official}

\* The run ends, or forgets its rows; a row it was to save has missed a change.
Blanked(q) ==
    /\ run'[q].saving = None /\ run'[q].found = {} /\ run'[q].stage # "sync"
    /\ \A p \in Projects : run'[q].mem[p] = None /\ run'[q].base[p] = None
    /\ run[q].saving # None => run[q].saving \in lost'

\* It reads the rows, in a stage before the last.
Rereads(q) ==
    /\ run'[q].mem = rows /\ run'[q].base = rows
    /\ run[q].saving = None /\ run'[q].saving = None
    /\ run'[q].found = run[q].found /\ run'[q].stage # "sync" /\ rows' = rows

\* It goes on with the copies it has.
Keeps(q) ==
    /\ run'[q].mem = run[q].mem /\ run'[q].base = run[q].base
    /\ run[q].saving = None /\ run'[q].saving = None
    /\ run'[q].found \subseteq run[q].found \cup linked
    /\ run'[q].stage = "sync" =>
         \/ run'[q].sold = {o.project : o \in official}
         \/ /\ run[q].stage = "sync" /\ run'[q].sold = run[q].sold
            /\ run[q].tried \subseteq run'[q].tried

\* It changes the copy of the row of p.
Edits(q, p) ==
    \E row \in GoodRow :
        /\ Edited(q, p, row) /\ rows' = rows
        /\ run[q].mem[p] \in GoodRow /\ run[q].mem[p] # None
        /\ \/ row.oid = run[q].mem[p].oid
           \/ /\ row.oid = q /\ run[q].stage = "sync"
              /\ p \notin run[q].tried \cup run[q].sold /\ Sold(p)'
        /\ \/ row.billing = run[q].mem[p].billing
           \/ row.billing = Detach /\ p \notin linked'
           \/ /\ row.billing = Bound /\ run[q].mem[p].billing = Unbound
              /\ p \in linked' \cup run[q].found

Shape(q) ==
    \/ run'[q] = run[q]
    \/ Blanked(q)
    \/ Rereads(q)
    \/ Keeps(q)
    \/ \E p \in Projects : Edits(q, p)
    \/ Save(q)

\* A step of another run.
LEMMA OtherShape ==
    ASSUME NEW r \in Runs, NEW q \in Runs, q # r, Others(r)
    PROVE  Shape(q)
BY DEF Others, Shape

\* A step in a loop of the run r changes one row in its memory.
LEMMA EditShape ==
    ASSUME NEW r \in Runs, NEW q \in Runs, NEW p \in Projects, Edits(r, p), Others(r)
    PROVE  Shape(q)
<1>1. CASE q = r
  BY <1>1 DEF Shape
<1>2. CASE q # r
  BY <1>2, OtherShape
<1> QED
  BY <1>1, <1>2

LEMMA BlankShape ==
    ASSUME NEW r \in Runs, NEW s \in {"valid", "ended"}, run'[r] = Blank(s),
           run[r].saving # None => run[r].saving \in lost'
    PROVE  Shape(r)
<1>1. s \in Stages /\ s # "sync"
  BY DEF Stages
<1> QED
  BY <1>1, BlankFacts DEF Shape, Blanked

LEMMA SkippedShape ==
    ASSUME NEW r \in Runs, NEW p \in Projects, Skipped(r, p)
    PROVE  Shape(r)
BY DEF Skipped, SameCopies, Shape, Keeps

\* The steps between the loops.
LEMMA QuietShape ==
    ASSUME RunsInv, NEW r \in Runs, NEW q \in Runs,
           \/ Moves(r) \/ LoadRows(r) \/ ReadValid(r) \/ InsertRows(r) \/ EndLoop(r) \/ GiveUp(r)
    PROVE  Shape(q)
<1>1. CASE Moves(r)
  <2>1. /\ SameCopies(r) /\ run[r].saving = None
        /\ run'[r].found \subseteq run[r].found \cup linked
        /\ run'[r].stage = "sync" => run'[r].sold = {o.project : o \in official}
    BY <1>1, MovesFacts
  <2>2. Keeps(r) /\ Others(r)
    BY <2>1 DEF Keeps, SameCopies
  <2> QED
    BY <2>2, OtherShape DEF Shape
<1>2. CASE LoadRows(r) \/ ReadValid(r)
  <2>1. Rereads(r) /\ Others(r)
    BY <1>2, ReadFacts DEF Rereads, Reads
  <2> QED
    BY <2>1, OtherShape DEF Shape
<1>3. CASE InsertRows(r)
  <2>1. Keeps(r) /\ Others(r)
    BY <1>3, InsertRowsFacts DEF Keeps, SameCopies
  <2> QED
    BY <2>1, OtherShape DEF Shape
<1>4. CASE EndLoop(r)
  <2>1. \/ Dropped(r, "valid") \/ Dropped(r, "ended")
        \/ /\ SameCopies(r) /\ run'[r].stage \in {"bind", "token", "describe"}
           /\ run'[r].found = {} /\ run[r].saving = None
    BY <1>4, EndLoopFacts
  <2>2. ASSUME NEW s \in {"valid", "ended"}, Dropped(r, s) PROVE Shape(q)
    BY <2>2, BlankShape, OtherShape DEF Dropped
  <2>3. CASE /\ SameCopies(r) /\ run'[r].stage \in {"bind", "token", "describe"}
             /\ run'[r].found = {} /\ run[r].saving = None
    <3>1. Keeps(r) /\ Others(r)
      BY <2>3 DEF Keeps, SameCopies
    <3> QED
      BY <3>1, OtherShape DEF Shape
  <2> QED
    BY <2>1, <2>2, <2>3
<1>5. CASE GiveUp(r)
  <2>1. Others(r) /\ run[r].saving = None /\ run'[r] = Blank("ended")
    BY <1>5, GiveUpFacts DEF Dropped
  <2> QED
    BY <2>1, BlankShape, OtherShape
<1> QED
  BY <1>1, <1>2, <1>3, <1>4, <1>5

\* The steps of the loops.
LEMMA CreateKeyShape ==
    ASSUME RunsInv, NEW r \in Runs, NEW q \in Runs, NEW p \in Projects, CreateKey(r, p)
    PROVE  Shape(q)
<1> DEFINE ok   == [run[r].mem[p] EXCEPT !.token = Got, !.key = r]
           fail == [run[r].mem[p] EXCEPT !.token = CreateFail]
<1>1. /\ run[r].mem[p] \in GoodRow /\ run[r].mem[p] # None /\ run[r].mem[p].token < Got
      /\ rows' = rows
      /\ Edited(r, p, ok) \/ Edited(r, p, fail)
  BY CreateKeyFacts
<1>2. /\ ok \in GoodRow /\ ok.oid = run[r].mem[p].oid /\ ok.billing = run[r].mem[p].billing
      /\ fail \in GoodRow /\ fail.oid = run[r].mem[p].oid
      /\ fail.billing = run[r].mem[p].billing
  <2>1. ok \in GoodRow /\ fail \in GoodRow
    BY <1>1, EditedRows
  <2>2. ok.oid = run[r].mem[p].oid /\ ok.billing = run[r].mem[p].billing
    BY <1>1 DEF GoodRow, Rows
  <2>3. fail.oid = run[r].mem[p].oid /\ fail.billing = run[r].mem[p].billing
    BY <1>1 DEF GoodRow, Rows
  <2> HIDE DEF ok, fail
  <2> QED
    BY <2>1, <2>2, <2>3
<1> HIDE DEF ok, fail
<1>3. Edits(r, p) /\ Others(r)
  BY <1>1, <1>2 DEF Edits, Edited
<1> QED
  BY <1>3, EditShape

LEMMA UnlinkShape ==
    ASSUME RunsInv, NEW r \in Runs, NEW q \in Runs, NEW p \in Projects, Unlink(r, p)
    PROVE  Shape(q)
<1> DEFINE row == [run[r].mem[p] EXCEPT !.billing = Detach]
<1>1. /\ rows' = rows
      /\ \/ Skipped(r, p)
         \/ Dropped(r, "ended")
         \/ /\ Edited(r, p, row) /\ run[r].mem[p] \in GoodRow /\ run[r].mem[p] # None
            /\ linked' = linked \ {p}
  BY UnlinkFacts
<1>2. CASE Skipped(r, p)
  BY <1>2, SkippedShape, OtherShape DEF Skipped, SameCopies
<1>3. CASE Dropped(r, "ended")
  BY <1>3, BlankShape, OtherShape DEF Dropped
<1>4. CASE /\ Edited(r, p, row) /\ run[r].mem[p] \in GoodRow /\ run[r].mem[p] # None
           /\ linked' = linked \ {p}
  <2>1. row \in GoodRow /\ row.oid = run[r].mem[p].oid /\ row.billing = Detach
    BY <1>4, BillingRow
  <2> HIDE DEF row
  <2>2. Edits(r, p) /\ Others(r)
    BY <1>1, <1>4, <2>1 DEF Edits, Edited
  <2> QED
    BY <2>2, EditShape
<1> QED
  BY <1>1, <1>2, <1>3, <1>4

LEMMA MarkBoundShape ==
    ASSUME RunsInv, NEW r \in Runs, NEW q \in Runs, NEW p \in Projects, MarkBound(r, p)
    PROVE  Shape(q)
<1> DEFINE row == [run[r].mem[p] EXCEPT !.billing = Bound]
<1>1. /\ rows' = rows /\ p \in run[r].found
      /\ \/ Dropped(r, "ended")
         \/ /\ Edited(r, p, row) /\ run[r].mem[p] \in GoodRow /\ run[r].mem[p] # None
            /\ run[r].mem[p].billing = Unbound
  BY MarkBoundFacts
<1>2. CASE Dropped(r, "ended")
  BY <1>2, BlankShape, OtherShape DEF Dropped
<1>3. CASE /\ Edited(r, p, row) /\ run[r].mem[p] \in GoodRow /\ run[r].mem[p] # None
           /\ run[r].mem[p].billing = Unbound
  <2>1. row \in GoodRow /\ row.oid = run[r].mem[p].oid /\ row.billing = Bound
    BY <1>3, BillingRow
  <2> HIDE DEF row
  <2>2. Edits(r, p) /\ Others(r)
    BY <1>1, <1>3, <2>1 DEF Edits, Edited
  <2> QED
    BY <2>2, EditShape
<1> QED
  BY <1>1, <1>2, <1>3

LEMMA LinkShape ==
    ASSUME RunsInv, NEW r \in Runs, NEW q \in Runs, NEW p \in Projects, Link(r, p)
    PROVE  Shape(q)
<1> DEFINE row == [run[r].mem[p] EXCEPT !.billing = Bound]
<1>1. /\ rows' = rows
      /\ run[r].mem[p] \in GoodRow /\ run[r].mem[p] # None /\ run[r].mem[p].billing = Unbound
      /\ Skipped(r, p) \/ (Edited(r, p, row) /\ linked' = linked \cup {p})
  BY LinkFacts
<1>2. CASE Skipped(r, p)
  BY <1>2, SkippedShape, OtherShape DEF Skipped, SameCopies
<1>3. CASE Edited(r, p, row) /\ linked' = linked \cup {p}
  <2>1. row \in GoodRow /\ row.oid = run[r].mem[p].oid /\ row.billing = Bound
    BY <1>1, BillingRow
  <2> HIDE DEF row
  <2>2. Edits(r, p) /\ Others(r)
    BY <1>1, <1>3, <2>1 DEF Edits, Edited
  <2> QED
    BY <2>2, EditShape
<1> QED
  BY <1>1, <1>2, <1>3

LEMMA InsertOfficialShape ==
    ASSUME RunsInv, NEW r \in Runs, NEW q \in Runs, NEW p \in Projects, InsertOfficial(r, p)
    PROVE  Shape(q)
<1> DEFINE row == [run[r].mem[p] EXCEPT !.oid = r]
           o   == [project |-> p, key |-> run[r].mem[p].key, by |-> r]
<1>1. /\ rows' = rows /\ run[r].stage = "sync" /\ p \notin run[r].tried /\ p \notin run[r].sold
      /\ run[r].mem[p] \in GoodRow /\ run[r].mem[p] # None
      /\ Skipped(r, p) \/ (Edited(r, p, row) /\ official' = official \cup {o})
  BY InsertOfficialFacts
<1>2. CASE Skipped(r, p)
  BY <1>2, SkippedShape, OtherShape DEF Skipped, SameCopies
<1>3. CASE Edited(r, p, row) /\ official' = official \cup {o}
  <2>1. row \in GoodRow /\ row.oid = r /\ row.billing = run[r].mem[p].billing
    BY <1>1, EditedRows DEF GoodRow, Rows
  <2>2. Sold(p)'
    <3>1. o \in official' /\ o.project = p
      BY <1>3
    <3> QED
      BY <3>1 DEF Sold
  <2> HIDE DEF row, o
  <2>3. Edits(r, p) /\ Others(r)
    BY <1>1, <1>3, <2>1, <2>2 DEF Edits, Edited
  <2> QED
    BY <2>3, EditShape
<1> QED
  BY <1>1, <1>2, <1>3

LEMMA Shapes == ASSUME RunsInv, [Next]_vars, NEW q \in Runs PROVE Shape(q)
<1>1. CASE UNCHANGED vars
  BY <1>1 DEF vars, Shape
<1>2. ASSUME NEW r \in Runs, Save(r) PROVE Shape(q)
  <2>1. Others(r)
    BY <1>2, SaveFacts
  <2> QED
    BY <1>2, <2>1, OtherShape DEF Shape
<1>3. ASSUME NEW r \in Runs, NEW p \in Projects,
             \/ CreateKey(r, p) \/ Unlink(r, p) \/ MarkBound(r, p) \/ Link(r, p)
             \/ InsertOfficial(r, p)
      PROVE  Shape(q)
  BY <1>3, CreateKeyShape, UnlinkShape, MarkBoundShape, LinkShape, InsertOfficialShape
<1>4. CASE Crash
  <2>1. run'[q] = run[q] \/ run'[q] = Blank("ended")
    BY <1>4, CrashFacts
  <2>2. run[q].saving # None => run[q].saving \in lost'
    <3>1. run[q].saving \in Projects \cup {None} /\ lost' = lost \cup {p \in Projects : Saving(p)}
      BY <1>4, CrashFacts DEF RunsInv, Types, Context
    <3> QED
      BY <3>1 DEF Saving
  <2> QED
    BY <2>1, <2>2, BlankShape DEF Shape
<1>5. ASSUME NEW p \in Projects, SetTokenInvalid(p) PROVE Shape(q)
  BY <1>5 DEF SetTokenInvalid, Shape
<1> QED
  BY <1>1, <1>2, <1>3, <1>4, <1>5, QuietShape DEF Next, Moves

-----------------------------------------------------------------------------
(***************************************************************************)
(* What every step leaves.                                                 *)
(***************************************************************************)
LEMMA HistoryGrows ==
    ASSUME RunsInv, [Next]_vars
    PROVE  stale \subseteq stale' /\ lost \subseteq lost' /\ again \subseteq again'
           /\ official \subseteq official'
<1>1. CASE UNCHANGED vars
  BY <1>1 DEF vars
<1>2. ASSUME NEW r \in Runs, Save(r) PROVE
           stale \subseteq stale' /\ lost \subseteq lost' /\ again \subseteq again'
           /\ official \subseteq official'
  <2> DEFINE p == run[r].saving
  <2>1. official' = official
    BY <1>2, SaveFacts
  <2>2. \/ /\ lost' = lost
           /\ stale' = IF Overwrites(run[r].mem[p], run[r].base[p], rows[p])
                       THEN stale \cup {p} ELSE stale
           /\ again' = IF Repeats(run[r].mem[p], run[r].base[p], rows[p])
                       THEN again \cup {p} ELSE again
        \/ stale' = stale /\ again' = again /\ lost' = lost \cup {p}
    BY <1>2, SaveFacts
  <2> QED
    BY <2>1, <2>2
<1>3. ASSUME NEW r \in Runs, NEW p \in Projects,
             \/ CreateKey(r, p) \/ Unlink(r, p) \/ MarkBound(r, p) \/ Link(r, p)
             \/ InsertOfficial(r, p)
      PROVE  stale \subseteq stale' /\ lost \subseteq lost' /\ again \subseteq again'
             /\ official \subseteq official'
  BY <1>3 DEF CreateKey, Unlink, MarkBound, Link, InsertOfficial
<1>4. ASSUME NEW r \in Runs,
             \/ Start(r) \/ ListProjects(r) \/ CreateProjects(r) \/ LoadRows(r) \/ InsertRows(r)
             \/ DescribeBilling(r) \/ ReadValid(r) \/ ReadExisting(r) \/ EndLoop(r) \/ GiveUp(r)
      PROVE  stale \subseteq stale' /\ lost \subseteq lost' /\ again \subseteq again'
             /\ official \subseteq official'
  BY <1>4 DEF Start, ListProjects, CreateProjects, LoadRows, InsertRows, DescribeBilling,
              ReadValid, ReadExisting, EndLoop, GiveUp
<1>5. CASE Crash
  BY <1>5 DEF Crash
<1>6. ASSUME NEW p \in Projects, SetTokenInvalid(p) PROVE
           stale \subseteq stale' /\ lost \subseteq lost' /\ again \subseteq again'
           /\ official \subseteq official'
  BY <1>6 DEF SetTokenInvalid
<1> QED
  BY <1>1, <1>2, <1>3, <1>4, <1>5, <1>6 DEF Next

\* A run that is about to save still is, unless it saves or dies.
LEMMA PendingStays ==
    ASSUME RunsInv, [Next]_vars, NEW q \in Runs, NEW p \in Projects, run[q].saving = p,
           p \notin lost', ~Save(q)
    PROVE  run'[q] = run[q]
<1>1. p # None
  BY ProcessConstants
<1> QED
  BY <1>1, Shapes DEF Shape, Blanked, Rereads, Keeps, Edits, Edited

\* The run of a save that is not an exception.
LEMMA GoodSave ==
    ASSUME RunsInv, NEW q \in Runs, NEW p \in Projects, run[q].saving = p, Save(q),
           p \notin stale' \cup lost'
    PROVE  /\ RowSaved(p, q) /\ rows'[p] = run[q].mem[p]
           /\ run[q].mem[p] \in GoodRow /\ run[q].base[p] \in GoodRow /\ rows[p] \in GoodRow
           /\ rows'[p] # None /\ run[q].base[p] # None /\ rows[p] # None
           /\ run'[q].mem = run[q].mem /\ run'[q].base[p] = run[q].mem[p]
           /\ run'[q].saving = None /\ run'[q].found = run[q].found
           /\ run[q].base[p].billing <= run[q].mem[p].billing
           /\ run[q].base[p].token <= run[q].mem[p].token
           /\ run[q].mem[p].key # run[q].base[p].key => run[q].base[p].token < Got
           /\ \A f \in {"billing", "token", "key", "oid"} :
                rows[p][f] = run[q].base[p][f] \/ rows'[p][f] = rows[p][f]
           /\ p \notin again' => rows[p].billing = run[q].base[p].billing
<1>1. /\ run[q].mem[p] \in GoodRow /\ run[q].base[p] \in GoodRow /\ rows[p] \in GoodRow
      /\ run[q].mem[p] # None /\ run[q].base[p] # None /\ rows[p] # None
  <2>1. /\ run[q].mem[p] # None /\ run[q].base[p] # None /\ rows[p] # None
    BY ProcessConstants DEF RunsInv, ContextOK
  <2> QED
    BY <2>1 DEF RunsInv, Types, Context, Copies
<1>0. run'[q].mem = run[q].mem /\ run'[q].saving = None /\ run'[q].found = run[q].found
  BY SaveFacts
<1>2. /\ rows' = [rows EXCEPT ![p] = run[q].mem[p]]
      /\ run'[q].base = [run[q].base EXCEPT ![p] = run[q].mem[p]]
      /\ stale' = IF Overwrites(run[q].mem[p], run[q].base[p], rows[p])
                  THEN stale \cup {p} ELSE stale
      /\ again' = IF Repeats(run[q].mem[p], run[q].base[p], rows[p])
                  THEN again \cup {p} ELSE again
  BY SaveFacts
<1>3. rows'[p] = run[q].mem[p] /\ run'[q].base[p] = run[q].mem[p]
  BY <1>2 DEF RunsInv, Types, Context, Copies
<1>4. ~Overwrites(run[q].mem[p], run[q].base[p], rows[p])
  BY <1>2
<1>5. \A f \in {"billing", "token", "key", "oid"} :
        rows[p][f] = run[q].base[p][f] \/ rows'[p][f] = rows[p][f]
  BY <1>3, <1>4 DEF Overwrites
<1>6. p \notin again' => rows[p].billing = run[q].base[p].billing
  <2>1. p \notin again' => ~Repeats(run[q].mem[p], run[q].base[p], rows[p])
    BY <1>2
  <2>2. rows[p].billing = run[q].base[p].billing \/ run[q].mem[p].billing = rows[p].billing
    BY <1>4 DEF Overwrites
  <2> QED
    BY <2>1, <2>2 DEF Repeats
<1>7. /\ run[q].base[p].billing <= run[q].mem[p].billing
      /\ run[q].base[p].token <= run[q].mem[p].token
      /\ run[q].mem[p].key # run[q].base[p].key => run[q].base[p].token < Got
  BY <1>1 DEF RunsInv, Advances
<1> QED
  BY <1>0, <1>1, <1>2, <1>3, <1>5, <1>6, <1>7 DEF RowSaved

\* A key that is recorded stays.
LEMMA KeyStays ==
    ASSUME RunsInv, [Next]_vars, NEW p \in Projects, p \notin stale' \cup lost',
           rows[p] # None, rows[p].key # None
    PROVE  rows'[p] # None /\ rows'[p].key = rows[p].key
<1>1. CASE rows'[p] = rows[p]
  BY <1>1
<1>2. CASE rows[p] \in GoodRow /\ rows'[p] = [rows[p] EXCEPT !.token = Invalid]
  <2>1. rows'[p] \in GoodRow /\ rows'[p].key = rows[p].key
    BY <1>2 DEF GoodRow, Rows, NoToken, Invalid, Got
  <2> QED
    BY <2>1, PastRowsAssumption DEF GoodRow
<1>3. ASSUME NEW q \in Runs, RowSaved(p, q) PROVE rows'[p] # None /\ rows'[p].key = rows[p].key
  <2>1. /\ rows'[p] # None /\ rows'[p] = run[q].mem[p] /\ run[q].base[p] \in GoodRow
        /\ run[q].mem[p].key # run[q].base[p].key => run[q].base[p].token < Got
        /\ rows[p].key = run[q].base[p].key \/ rows'[p].key = rows[p].key
    BY <1>3, GoodSave DEF RowSaved
  <2>2. run[q].base[p].token < Got => run[q].base[p].key = None
    BY <2>1 DEF GoodRow
  <2> QED
    BY <2>1, <2>2
<1> QED
  BY <1>1, <1>2, <1>3, RowsChange

\* A row appears as Step 1 inserts it.
LEMMA RowsAppear ==
    ASSUME RunsInv, [Next]_vars, NEW p \in Projects, rows[p] = None
    PROVE  rows'[p] = None \/ rows'[p] = NewRow
<1>1. CASE UNCHANGED vars
  BY <1>1 DEF vars
<1>2. ASSUME NEW r \in Runs, Moves(r) PROVE rows'[p] = rows[p]
  BY <1>2, MovesFacts
<1>3. ASSUME NEW r \in Runs, LoadRows(r) \/ ReadValid(r) PROVE rows'[p] = rows[p]
  BY <1>3, ReadFacts
<1>4. ASSUME NEW r \in Runs, InsertRows(r) PROVE rows'[p] = rows[p] \/ rows'[p] = NewRow
  BY <1>4, InsertRowsFacts
<1>5. ASSUME NEW r \in Runs, Save(r) PROVE rows'[p] = rows[p]
  <2> DEFINE s == run[r].saving
  <2>1. s \in Projects /\ rows[s] # None
    BY <1>5, SaveFacts
  <2>2. rows' = [rows EXCEPT ![s] = run[r].mem[s]] \/ rows' = rows
    BY ZenonT(40), <1>5, SaveFacts
  <2> QED
    BY <2>1, <2>2 DEF RunsInv, Types, Copies
<1>6. ASSUME NEW r \in Runs, EndLoop(r) PROVE rows'[p] = rows[p]
  BY <1>6, EndLoopFacts
<1>7. ASSUME NEW r \in Runs, GiveUp(r) PROVE rows'[p] = rows[p]
  BY <1>7, GiveUpFacts
<1>8. ASSUME NEW r \in Runs, NEW q \in Projects,
             \/ CreateKey(r, q) \/ Unlink(r, q) \/ MarkBound(r, q) \/ Link(r, q)
             \/ InsertOfficial(r, q)
      PROVE  rows'[p] = rows[p]
  BY <1>8 DEF CreateKey, Unlink, MarkBound, Link, InsertOfficial
<1>9. CASE Crash
  BY <1>9, CrashFacts
<1>10. ASSUME NEW q \in Projects, SetTokenInvalid(q) PROVE rows'[p] = rows[p]
  BY <1>10, SetTokenInvalidFacts DEF RunsInv, Types, Copies
<1> QED
  BY <1>1, <1>2, <1>3, <1>4, <1>5, <1>6, <1>7, <1>8, <1>9, <1>10 DEF Next, Moves

-----------------------------------------------------------------------------
(***************************************************************************)
(* A key is in its row, or about to be saved there.                        *)
(***************************************************************************)
KeyKept(k, p) ==
    \/ rows[p] # None /\ rows[p].key = k
    \/ k \in Runs /\ run[k].saving = p /\ run[k].mem[p].key = k

KeyInv == \A p \in Projects \ (stale \cup lost) : \A k \in keys[p] : KeyKept(k, p)

LEMMA InitKeys == Init => KeyInv
BY DEF Init, KeyInv, KeyKept

\* A new key is in the memory of the run that has created it.
LEMMA KeysAppear ==
    ASSUME RunsInv, [Next]_vars, NEW p \in Projects, p \notin lost', NEW k \in keys'[p],
           k \notin keys[p]
    PROVE  k \in Runs /\ run'[k].saving = p /\ run'[k].mem[p].key = k
<1>1. ASSUME NEW r \in Runs, NEW q \in Projects, CreateKey(r, q)
      PROVE  k \in Runs /\ run'[k].saving = p /\ run'[k].mem[p].key = k
  <2> DEFINE ok == [run[r].mem[q] EXCEPT !.token = Got, !.key = r]
  <2>0. keys \in [Projects -> SUBSET Givers] /\ run[r].mem \in Copies
    BY DEF RunsInv, Types, Context
  <2>1. \/ /\ Edited(r, q, ok) /\ keys' = [keys EXCEPT ![q] = keys[q] \cup {r}]
           /\ run[r].mem[q] \in GoodRow /\ run[r].mem[q].token < Got
        \/ keys' = keys
        \/ keys' = [keys EXCEPT ![q] = keys[q] \cup {r}] /\ lost' = lost \cup {q}
    BY <1>1, CreateKeyFacts
  <2>2. /\ Edited(r, q, ok) /\ p = q /\ k = r
        /\ run[r].mem[q] \in GoodRow /\ run[r].mem[q].token < Got
    <3> HIDE DEF ok
    <3> QED
      BY <2>0, <2>1
  <2>3. ok.key = r
    BY <2>2 DEF GoodRow, Rows
  <2> HIDE DEF ok
  <2>4. run'[r].mem[q] = ok /\ run'[r].saving = q
    BY <2>0, <2>2 DEF Edited, Copies
  <2> QED
    BY <2>2, <2>3, <2>4
<1>2. ASSUME NEW r \in Runs, Save(r) PROVE keys' = keys
  BY <1>2, SaveFacts
<1>3. ASSUME NEW r \in Runs, NEW q \in Projects,
             \/ Unlink(r, q) \/ MarkBound(r, q) \/ Link(r, q) \/ InsertOfficial(r, q)
      PROVE  keys' = keys
  BY <1>3 DEF Unlink, MarkBound, Link, InsertOfficial
<1>4. ASSUME NEW r \in Runs,
             \/ Start(r) \/ ListProjects(r) \/ CreateProjects(r) \/ LoadRows(r) \/ InsertRows(r)
             \/ DescribeBilling(r) \/ ReadValid(r) \/ ReadExisting(r) \/ EndLoop(r) \/ GiveUp(r)
      PROVE  keys' = keys
  BY <1>4 DEF Start, ListProjects, CreateProjects, LoadRows, InsertRows, DescribeBilling,
              ReadValid, ReadExisting, EndLoop, GiveUp
<1>5. Crash => keys' = keys
  BY DEF Crash
<1>6. ASSUME NEW q \in Projects, SetTokenInvalid(q) PROVE keys' = keys
  BY <1>6 DEF SetTokenInvalid
<1>7. UNCHANGED vars => keys' = keys
  BY DEF vars
<1> QED
  BY <1>1, <1>2, <1>3, <1>4, <1>5, <1>6, <1>7 DEF Next

LEMMA NextKeys == RunsInv /\ KeyInv /\ [Next]_vars => KeyInv'
<1> SUFFICES ASSUME RunsInv, KeyInv, [Next]_vars, NEW p \in Projects, p \notin stale' \cup lost',
                    NEW k \in keys'[p]
             PROVE  KeyKept(k, p)'
  BY DEF KeyInv
<1>1. p \notin stale \cup lost
  BY HistoryGrows
<1>2. CASE k \notin keys[p]
  BY <1>2, KeysAppear DEF KeyKept
<1>3. ASSUME k \in keys[p], rows[p] # None, rows[p].key = k PROVE KeyKept(k, p)'
  <2>1. k # None
    BY <1>3, ProcessConstants DEF RunsInv, Types, Givers
  <2> QED
    BY <1>3, <2>1, KeyStays DEF KeyKept
<1>4. ASSUME k \in Runs, run[k].saving = p, run[k].mem[p].key = k PROVE KeyKept(k, p)'
  <2>1. CASE Save(k)
    BY <1>4, <2>1, GoodSave DEF KeyKept
  <2>2. CASE ~Save(k)
    BY <1>4, <2>2, PendingStays DEF KeyKept
  <2> QED
    BY <2>1, <2>2
<1> QED
  BY <1>1, <1>2, <1>3, <1>4 DEF KeyInv, KeyKept

\* No key gets lost but by a failed save, a crash or a lost update.
THEOREM KeysAreRecorded == Spec => []KeyRecorded
<1>1. Init => RunsInv /\ KeyInv
  BY InitRuns, InitKeys
<1>2. RunsInv /\ KeyInv /\ [Next]_vars => RunsInv' /\ KeyInv'
  BY NextRuns, NextKeys
<1>3. KeyInv => KeyRecorded
  BY DEF KeyInv, KeyKept, KeyRecorded
<1> QED
  BY <1>1, <1>2, <1>3, PTL DEF Spec

-----------------------------------------------------------------------------
(***************************************************************************)
(* A project is put on sale once: a run that has read an id of             *)
(* official_tokens in a row finds the project in existingTokens.           *)
(***************************************************************************)
OidsOK(r) ==
    /\ run[r].stage = "sync" /\ run[r].saving # None => run[r].saving \in run[r].tried
    /\ \A p \in Projects : run[r].mem[p] # None =>
         /\ run[r].mem[p].oid # None => Sold(p)
         /\ run[r].base[p].oid # None => Sold(p)
         /\ run[r].mem[p].oid # run[r].base[p].oid => run[r].base[p].oid = None
         /\ run[r].stage = "sync" /\ run[r].base[p].oid # None => p \in run[r].sold \cup run[r].tried

RowOids == \A p \in Projects : rows[p] # None /\ rows[p].oid # None => Sold(p)

OidInv == RowOids /\ \A r \in Runs : OidsOK(r)

LEMMA InitOids == Init => OidInv
<1> SUFFICES ASSUME Init PROVE OidInv
  OBVIOUS
<1>1. \A r \in Runs : OidsOK(r)
  BY BlankFacts DEF Init, OidsOK, Stages
<1>2. ASSUME NEW p \in Projects, rows[p] # None, rows[p].oid # None PROVE Sold(p)
  <2>1. rows[p].oid = Earlier
    BY <1>2 DEF Init
  <2>2. [project |-> p, key |-> Earlier, by |-> Earlier] \in official
    BY <1>2, <2>1 DEF Init
  <2> QED
    BY <2>2 DEF Sold
<1> QED
  BY <1>1, <1>2 DEF OidInv, RowOids

LEMMA NextOidsOK == ASSUME RunsInv, OidInv, [Next]_vars, NEW r \in Runs PROVE OidsOK(r)'
<1>1. \A p : Sold(p) => Sold(p)'
  BY HistoryGrows DEF Sold
<1>2. OidsOK(r) /\ RowOids
  BY DEF OidInv
<1>3. run[r] \in Context /\ rows \in Copies
  BY DEF RunsInv, Types
<1>4. CASE run'[r] = run[r]
  BY <1>1, <1>2, <1>4 DEF OidsOK
<1>5. CASE Blanked(r)
  BY <1>5 DEF Blanked, OidsOK
<1>6. CASE Rereads(r)
  BY <1>1, <1>2, <1>6 DEF Rereads, OidsOK, RowOids
<1>7. CASE Keeps(r)
  <2>1. run'[r].saving = None
    BY <1>7 DEF Keeps
  <2>2. ASSUME NEW p \in Projects, run'[r].mem[p] # None PROVE
         /\ run'[r].mem[p].oid # None => Sold(p)'
         /\ run'[r].base[p].oid # None => Sold(p)'
         /\ run'[r].mem[p].oid # run'[r].base[p].oid => run'[r].base[p].oid = None
         /\ run'[r].stage = "sync" /\ run'[r].base[p].oid # None
              => p \in run'[r].sold \cup run'[r].tried
    BY <1>1, <1>2, <1>7, <2>2 DEF Keeps, OidsOK, Sold
  <2> QED
    BY <2>1, <2>2 DEF OidsOK
<1>8. ASSUME NEW q \in Projects, Edits(r, q) PROVE OidsOK(r)'
  <2>1. PICK row \in GoodRow :
          /\ Edited(r, q, row) /\ run[r].mem[q] # None
          /\ \/ row.oid = run[r].mem[q].oid
             \/ /\ row.oid = r /\ run[r].stage = "sync"
                /\ q \notin run[r].tried \cup run[r].sold /\ Sold(q)'
    BY <1>8 DEF Edits
  <2>2. /\ \A p \in Projects : run'[r].mem[p] = IF p = q THEN row ELSE run[r].mem[p]
        /\ run'[r].base = run[r].base /\ run'[r].saving = q /\ run'[r].stage = run[r].stage
        /\ run'[r].tried = run[r].tried \cup {q} /\ run'[r].sold = run[r].sold
    BY <1>3, <2>1 DEF Edited, Context, Copies
  <2>3. ASSUME NEW p \in Projects, run'[r].mem[p] # None PROVE
         /\ run'[r].mem[p].oid # None => Sold(p)'
         /\ run'[r].base[p].oid # None => Sold(p)'
         /\ run'[r].mem[p].oid # run'[r].base[p].oid => run'[r].base[p].oid = None
         /\ run'[r].stage = "sync" /\ run'[r].base[p].oid # None
              => p \in run'[r].sold \cup run'[r].tried
    <3>1. CASE p # q
      BY <1>1, <1>2, <2>2, <2>3, <3>1 DEF OidsOK
    <3>2. CASE p = q
      BY <1>1, <1>2, <2>1, <2>2, <3>2 DEF OidsOK
    <3> QED
      BY <3>1, <3>2
  <2> QED
    BY <2>2, <2>3 DEF OidsOK
<1>9. CASE Save(r)
  <2> DEFINE s == run[r].saving
  <2>1. /\ s \in Projects /\ run'[r].saving = None /\ run'[r].mem = run[r].mem
        /\ run'[r].tried = run[r].tried /\ run'[r].sold = run[r].sold
        /\ run'[r].stage = run[r].stage
    BY <1>9, SaveFacts
  <2>2. \/ run'[r].base = run[r].base
        \/ run'[r].base = [run[r].base EXCEPT ![s] = run[r].mem[s]]
    BY <1>9, SaveFacts
  <2>3. \A p \in Projects : \/ run'[r].base[p] = run[r].base[p]
                            \/ p = s /\ run'[r].base[p] = run[r].mem[p]
    BY <1>3, <2>1, <2>2 DEF Context, Copies
  <2>4. run[r].stage = "sync" => s \in run[r].tried
    BY <1>2, <2>1, ProcessConstants DEF OidsOK
  <2> HIDE DEF s
  <2> QED
    BY <1>1, <1>2, <2>1, <2>3, <2>4 DEF OidsOK
<1> QED
  BY <1>4, <1>5, <1>6, <1>7, <1>8, <1>9, Shapes DEF Shape

LEMMA NextOids == ASSUME RunsInv, OidInv, [Next]_vars PROVE OidInv'
<1>1. \A p : Sold(p) => Sold(p)'
  BY HistoryGrows DEF Sold
<1>2. ASSUME NEW p \in Projects, rows'[p] # None, rows'[p].oid # None PROVE Sold(p)'
  <2>1. CASE rows[p] = None
    BY <1>2, <2>1, RowsAppear DEF NewRow
  <2>2. CASE rows'[p] = rows[p]
    BY <1>1, <1>2, <2>2 DEF OidInv, RowOids
  <2>3. CASE /\ rows[p] # None /\ rows[p] \in GoodRow
             /\ rows'[p] = [rows[p] EXCEPT !.token = Invalid]
    <3>1. rows'[p].oid = rows[p].oid
      BY <2>3 DEF GoodRow, Rows
    <3> QED
      BY <1>1, <1>2, <2>3, <3>1 DEF OidInv, RowOids
  <2>4. ASSUME NEW r \in Runs, RowSaved(p, r) PROVE Sold(p)'
    <3>1. rows'[p] = run[r].mem[p]
      BY <2>4 DEF RowSaved, RunsInv, Types, Copies
    <3> QED
      BY <1>1, <1>2, <3>1 DEF OidInv, OidsOK
  <2> QED
    BY <2>1, <2>2, <2>3, <2>4, RowsChange
<1> QED
  BY <1>2, NextOidsOK DEF OidInv, RowOids

\* The id of a sale that is recorded stays.
LEMMA OidStays ==
    ASSUME RunsInv, OidInv, [Next]_vars, NEW p \in Projects, p \notin stale' \cup lost',
           rows[p] # None, rows[p].oid # None
    PROVE  rows'[p].oid = rows[p].oid
<1>1. CASE rows'[p] = rows[p]
  BY <1>1
<1>2. CASE rows[p] \in GoodRow /\ rows'[p] = [rows[p] EXCEPT !.token = Invalid]
  BY <1>2 DEF GoodRow, Rows
<1>3. ASSUME NEW q \in Runs, RowSaved(p, q) PROVE rows'[p].oid = rows[p].oid
  <2>1. /\ rows'[p] = run[q].mem[p] /\ run[q].mem[p] # None
        /\ rows[p].oid = run[q].base[p].oid \/ rows'[p].oid = rows[p].oid
    BY <1>3, GoodSave DEF RowSaved
  <2>2. run[q].mem[p].oid # run[q].base[p].oid => run[q].base[p].oid = None
    BY <2>1 DEF OidInv, OidsOK
  <2> QED
    BY <2>1, <2>2
<1> QED
  BY <1>1, <1>2, <1>3, RowsChange

-----------------------------------------------------------------------------
(***************************************************************************)
(* A sale is in its project's row, or about to be saved there.             *)
(***************************************************************************)
SaleKept(o) ==
    \/ /\ rows[o.project] # None
       /\ rows[o.project].key = o.key /\ rows[o.project].oid = o.by
    \/ /\ o.by \in Runs /\ run[o.by].saving = o.project
       /\ run[o.by].mem[o.project].key = o.key /\ run[o.by].mem[o.project].oid = o.by

SaleInv == \A o \in official : o.project \notin stale \cup lost => SaleKept(o)

LEMMA InitSales == Init => SaleInv
<1> SUFFICES ASSUME Init, NEW o \in official PROVE SaleKept(o)
  BY DEF SaleInv
<1>1. PICK p \in Projects : /\ rows[p] # None /\ rows[p].oid = Earlier
                            /\ o = [project |-> p, key |-> Earlier, by |-> Earlier]
  BY DEF Init
<1>2. rows[p].key = Earlier
  BY <1>1, ProcessConstants DEF Init
<1> QED
  BY <1>1, <1>2 DEF SaleKept

LEMMA SalesAppear ==
    ASSUME RunsInv, [Next]_vars, NEW o \in official', o \notin official
    PROVE  SaleKept(o)'
<1>1. ASSUME NEW r \in Runs, NEW p \in Projects, InsertOfficial(r, p) PROVE SaleKept(o)'
  <2> DEFINE row == [run[r].mem[p] EXCEPT !.oid = r]
  <2>1. \/ /\ Edited(r, p, row) /\ run[r].mem[p] \in GoodRow
           /\ official' = official \cup {[project |-> p, key |-> run[r].mem[p].key, by |-> r]}
        \/ official' = official
    BY <1>1, InsertOfficialFacts
  <2>2. /\ Edited(r, p, row) /\ run[r].mem[p] \in GoodRow
        /\ o = [project |-> p, key |-> run[r].mem[p].key, by |-> r]
    BY <2>1
  <2>3. row.oid = r /\ row.key = run[r].mem[p].key
    BY <2>2 DEF GoodRow, Rows
  <2> HIDE DEF row
  <2>4. run'[r].mem[p] = row /\ run'[r].saving = p
    BY <2>2 DEF Edited, RunsInv, Types, Context, Copies
  <2> QED
    BY <2>2, <2>3, <2>4 DEF SaleKept
<1>2. ASSUME NEW r \in Runs, Save(r) PROVE official' = official
  BY <1>2, SaveFacts
<1>3. ASSUME NEW r \in Runs, NEW q \in Projects,
             \/ Unlink(r, q) \/ MarkBound(r, q) \/ Link(r, q) \/ CreateKey(r, q)
      PROVE  official' = official
  BY <1>3 DEF Unlink, MarkBound, Link, CreateKey
<1>4. ASSUME NEW r \in Runs,
             \/ Start(r) \/ ListProjects(r) \/ CreateProjects(r) \/ LoadRows(r) \/ InsertRows(r)
             \/ DescribeBilling(r) \/ ReadValid(r) \/ ReadExisting(r) \/ EndLoop(r) \/ GiveUp(r)
      PROVE  official' = official
  BY <1>4 DEF Start, ListProjects, CreateProjects, LoadRows, InsertRows, DescribeBilling,
              ReadValid, ReadExisting, EndLoop, GiveUp
<1>5. Crash => official' = official
  BY DEF Crash
<1>6. ASSUME NEW q \in Projects, SetTokenInvalid(q) PROVE official' = official
  BY <1>6 DEF SetTokenInvalid
<1>7. UNCHANGED vars => official' = official
  BY DEF vars
<1> QED
  BY <1>1, <1>2, <1>3, <1>4, <1>5, <1>6, <1>7 DEF Next

LEMMA NextSales == RunsInv /\ OidInv /\ SaleInv /\ [Next]_vars => SaleInv'
<1> SUFFICES ASSUME RunsInv, OidInv, SaleInv, [Next]_vars, NEW o \in official',
                    o.project \notin stale' \cup lost'
             PROVE  SaleKept(o)'
  BY DEF SaleInv
<1> DEFINE p == o.project
<1>1. CASE o \notin official
  BY <1>1, SalesAppear
<1>2. ASSUME o \in official, rows[p] # None, rows[p].key = o.key, rows[p].oid = o.by
      PROVE  SaleKept(o)'
  <2>1. p \in Projects /\ o.key # None /\ o.by # None
    BY <1>2, ProcessConstants DEF RunsInv, Types, Givers
  <2>2. rows'[p] # None /\ rows'[p].key = o.key /\ rows'[p].oid = o.by
    BY <1>2, <2>1, KeyStays, OidStays
  <2> QED
    BY <2>2 DEF SaleKept
<1>3. ASSUME o \in official, o.by \in Runs, run[o.by].saving = p,
             run[o.by].mem[p].key = o.key, run[o.by].mem[p].oid = o.by
      PROVE  SaleKept(o)'
  <2>1. p \in Projects
    BY <1>3 DEF RunsInv, Types
  <2>2. CASE Save(o.by)
    <3>1. rows'[p] # None /\ rows'[p] = run[o.by].mem[p]
      BY <1>3, <2>1, <2>2, GoodSave
    <3> QED
      BY <1>3, <3>1 DEF SaleKept
  <2>3. CASE ~Save(o.by)
    <3>1. run'[o.by] = run[o.by]
      BY <1>3, <2>1, <2>3, PendingStays
    <3> QED
      BY <1>3, <3>1 DEF SaleKept
  <2> QED
    BY <2>2, <2>3
<1>4. p \notin stale \cup lost
  BY HistoryGrows
<1> QED
  BY <1>1, <1>2, <1>3, <1>4 DEF SaleInv, SaleKept

\* A project is offered twice only by runs one of which undoes the other's save, or
\* after a save that failed.
THEOREM SalesAreRecorded == Spec => []OfficialRecorded
<1>1. Init => RunsInv /\ OidInv /\ SaleInv
  BY InitRuns, InitOids, InitSales
<1>2. RunsInv /\ OidInv /\ SaleInv /\ [Next]_vars => RunsInv' /\ OidInv' /\ SaleInv'
  BY NextRuns, NextOids, NextSales
<1>3. RunsInv /\ SaleInv => OfficialRecorded
  <2> SUFFICES ASSUME RunsInv, SaleInv, NEW o \in official, o.project \notin stale \cup lost
               PROVE  \/ rows[o.project].key = o.key /\ rows[o.project].oid = o.by
                      \/ o.by \in Runs /\ run[o.by].saving = o.project
    BY DEF OfficialRecorded
  <2> QED
    BY DEF SaleInv, SaleKept
<1> QED
  BY <1>1, <1>2, <1>3, PTL DEF Spec

-----------------------------------------------------------------------------
(***************************************************************************)
(* Billing.  Three of a run's moments matter: it has changed the billing   *)
(* at Google and not saved that, it has the change in memory, and it has   *)
(* saved it.  A save that is no exception finds the billing that its run   *)
(* has read; so the billing of a row only advances, and a run whose copy   *)
(* is behind can not save any more.                                        *)
(***************************************************************************)
Fair == Projects \ (stale \cup lost \cup again)

Pending(r, p, b) == run[r].saving = p /\ run[r].mem[p].billing = b

Detached(p)  == rows[p] # None /\ rows[p].billing = Detach
Detaching(p) == \E r \in Runs : Pending(r, p, Detach)
Linking(p)   == \E r \in Runs : Pending(r, p, Bound) /\ run[r].base[p].billing = Unbound

\* The row says that p is linked, or a run has seen it so
SeenLinked(p) ==
    \/ rows[p] # None /\ rows[p].billing = Bound
    \/ \E r \in Runs : \/ p \in run[r].found
                       \/ run[r].mem[p] # None /\ run[r].mem[p].billing = Bound

\* A copy is not ahead of its row, and differs from what was read while it is
\* about to be saved only
CopiesBehind(p) ==
    \A r \in Runs :
        /\ run[r].base[p] # None => run[r].base[p].billing <= rows[p].billing
        /\ run[r].saving # p => run[r].mem[p] = run[r].base[p]

\* What was linked and is not was unlinked by a run that has recorded it or will
GoneIsKnown(p) == p \notin linked /\ SeenLinked(p) => Detached(p) \/ Detaching(p)

\* What is linked and was, or can still be, recorded as detached was linked again
\* by a run whose own save is still to come
BackIsPending(p) ==
    p \in linked =>
        /\ Detached(p) => Linking(p)
        /\ \A r \in Runs : Pending(r, p, Detach) /\ run[r].base[p].billing = rows[p].billing
                             => Linking(p)

BillingInv == \A p \in Fair : CopiesBehind(p) /\ GoneIsKnown(p) /\ BackIsPending(p)

LEMMA InitBilling == Init => BillingInv
<1> SUFFICES ASSUME Init, NEW p \in Projects
             PROVE  CopiesBehind(p) /\ GoneIsKnown(p) /\ BackIsPending(p)
  BY DEF BillingInv, Fair
<1>1. ASSUME NEW r \in Runs
      PROVE  /\ run[r].saving = None /\ run[r].found = {}
             /\ run[r].mem[p] = None /\ run[r].base[p] = None
  BY BlankFacts DEF Init, Stages
<1>2. CopiesBehind(p)
  BY <1>1 DEF CopiesBehind
<1>3. GoneIsKnown(p)
  BY <1>1 DEF GoneIsKnown, SeenLinked, Init
<1>4. BackIsPending(p)
  BY <1>1, ProcessConstants DEF BackIsPending, Pending, Detached, Init
<1> QED
  BY <1>2, <1>3, <1>4

LEMMA FairShrinks ==
    ASSUME RunsInv, [Next]_vars, NEW p, p \in Fair'
    PROVE  p \in Fair /\ p \in Projects /\ p \notin stale' \cup lost' /\ p \notin again'
BY HistoryGrows DEF Fair

LEMMA EditedBilling == ASSUME NEW row \in GoodRow PROVE row.billing \in 0 .. 2
BY DEF GoodRow, Rows, Unbound, Detach

\* The billing of a row advances.
LEMMA BillingForward ==
    ASSUME RunsInv, [Next]_vars, NEW p \in Fair', rows[p] # None
    PROVE  /\ rows[p] \in GoodRow /\ rows'[p] \in GoodRow /\ rows'[p] # None
           /\ rows[p].billing \in 0 .. 2 /\ rows'[p].billing \in 0 .. 2
           /\ rows[p].billing <= rows'[p].billing
<1>1. p \in Projects /\ p \notin stale' \cup lost' /\ p \notin again'
  BY FairShrinks
<1>2. RunsInv'
  BY NextRuns
<1>3. rows[p] \in GoodRow /\ rows[p].billing \in 0 .. 2
  BY <1>1, EditedBilling DEF RunsInv, Types, Copies
<1>4. CASE rows'[p] = rows[p]
  BY <1>3, <1>4
<1>5. CASE rows[p] \in GoodRow /\ rows'[p] = [rows[p] EXCEPT !.token = Invalid]
  <2>1. rows'[p].billing = rows[p].billing /\ rows'[p] \in GoodRow
    BY <1>5 DEF GoodRow, Rows, NoToken, Invalid, Got
  <2> QED
    BY <1>3, <2>1, PastRowsAssumption DEF GoodRow
<1>6. ASSUME NEW q \in Runs, RowSaved(p, q)
      PROVE  /\ rows'[p] \in GoodRow /\ rows'[p] # None /\ rows'[p].billing \in 0 .. 2
             /\ rows[p].billing <= rows'[p].billing
  <2>1. /\ rows'[p] = run[q].mem[p] /\ run[q].mem[p] \in GoodRow /\ rows'[p] # None
        /\ run[q].base[p].billing <= run[q].mem[p].billing
        /\ rows[p].billing = run[q].base[p].billing
    BY <1>1, <1>6, GoodSave DEF RowSaved
  <2>2. rows'[p].billing \in 0 .. 2
    BY <2>1, EditedBilling
  <2> QED
    BY <2>1, <2>2
<1> QED
  BY <1>1, <1>3, <1>4, <1>5, <1>6, RowsChange

LEMMA CopiesStayBehind ==
    ASSUME RunsInv, BillingInv, [Next]_vars, NEW p \in Fair'
    PROVE  CopiesBehind(p)'
<1> SUFFICES ASSUME NEW r \in Runs PROVE
        /\ run'[r].base[p] # None => run'[r].base[p].billing <= rows'[p].billing
        /\ run'[r].saving # p => run'[r].mem[p] = run'[r].base[p]
  BY DEF CopiesBehind
<1>1. p \in Projects /\ p \in Fair /\ p \notin stale' \cup lost'
  BY FairShrinks
<1>2. /\ run[r].base[p] # None => run[r].base[p].billing <= rows[p].billing
      /\ run[r].saving # p => run[r].mem[p] = run[r].base[p]
  BY <1>1 DEF BillingInv, CopiesBehind
<1>3. run[r] \in Context /\ ContextOK(r)
  BY DEF RunsInv, Types
<1>4. run[r].base[p] # None => run[r].base[p].billing <= rows'[p].billing
  <2> SUFFICES ASSUME run[r].base[p] # None PROVE run[r].base[p].billing <= rows'[p].billing
    OBVIOUS
  <2>1. rows[p] # None /\ run[r].base[p] \in GoodRow
    BY <1>1, <1>3 DEF ContextOK, Context, Copies
  <2>2. /\ rows[p].billing \in 0 .. 2 /\ rows'[p].billing \in 0 .. 2
        /\ rows[p].billing <= rows'[p].billing /\ run[r].base[p].billing \in 0 .. 2
    BY <2>1, BillingForward, EditedBilling
  <2> QED
    BY <1>2, <2>2
<1>5. CASE run'[r] = run[r]
  BY <1>2, <1>4, <1>5
<1>6. CASE Blanked(r)
  BY <1>1, <1>6 DEF Blanked
<1>7. CASE Rereads(r)
  <2>1. run'[r].mem = rows /\ run'[r].base = rows /\ rows' = rows
    BY <1>7 DEF Rereads
  <2>2. rows[p] # None => rows[p].billing <= rows[p].billing
    BY BillingForward
  <2> QED
    BY <2>1, <2>2
<1>8. CASE Keeps(r)
  BY <1>1, <1>2, <1>4, <1>8, ProcessConstants DEF Keeps
<1>9. ASSUME NEW q \in Projects, Edits(r, q) PROVE
        /\ run'[r].base[p] # None => run'[r].base[p].billing <= rows'[p].billing
        /\ run'[r].saving # p => run'[r].mem[p] = run'[r].base[p]
  <2>1. PICK row \in GoodRow : Edited(r, q, row)
    BY <1>9 DEF Edits
  <2>2. /\ run'[r].base = run[r].base /\ run[r].saving = None /\ run'[r].saving = q
        /\ run'[r].mem = [run[r].mem EXCEPT ![q] = row]
    BY <2>1 DEF Edited
  <2>3. q # p => run'[r].mem[p] = run[r].mem[p]
    BY <1>1, <1>3, <2>2 DEF Context, Copies
  <2> QED
    BY <1>1, <1>2, <1>4, <2>2, <2>3, ProcessConstants
<1>10. CASE Save(r)
  <2>1. CASE run[r].saving = p
    <3>1. /\ rows'[p] = run[r].mem[p] /\ run'[r].mem = run[r].mem
          /\ run'[r].base[p] = run[r].mem[p] /\ rows[p] # None
      BY <1>1, <1>10, <2>1, GoodSave
    <3>2. rows'[p].billing <= rows'[p].billing
      BY <3>1, BillingForward
    <3> QED
      BY <3>1, <3>2
  <2>2. CASE run[r].saving # p
    <3> DEFINE s == run[r].saving
    <3>1. /\ run'[r].mem = run[r].mem
          /\ \/ run'[r].base = run[r].base
             \/ run'[r].base = [run[r].base EXCEPT ![s] = run[r].mem[s]]
      BY <1>10, SaveFacts
    <3>2. run'[r].base[p] = run[r].base[p]
      BY <1>1, <1>3, <2>2, <3>1 DEF Context, Copies
    <3> QED
      BY <1>2, <1>4, <2>2, <3>1, <3>2
  <2> QED
    BY <2>1, <2>2
<1> QED
  BY <1>5, <1>6, <1>7, <1>8, <1>9, <1>10, Shapes DEF Shape

\* What Unlink and Link leave to be saved.
LEMMA LinksChange ==
    ASSUME RunsInv, [Next]_vars, NEW p \in Projects, p \notin lost'
    PROVE  \/ p \in linked <=> p \in linked'
           \/ /\ p \in linked /\ p \notin linked'
              /\ \E r \in Runs : Pending(r, p, Detach)'
           \/ /\ p \notin linked /\ p \in linked'
              /\ \E r \in Runs : /\ Pending(r, p, Bound)' /\ run[r].saving = None
                                 /\ run'[r].base = run[r].base
                                 /\ run[r].mem[p].billing = Unbound
<1>1. ASSUME NEW r \in Runs, NEW q \in Projects, Unlink(r, q)
      PROVE  \/ p \in linked <=> p \in linked'
             \/ p \in linked /\ p \notin linked' /\ Pending(r, p, Detach)'
  <2> DEFINE row == [run[r].mem[q] EXCEPT !.billing = Detach]
  <2>1. \/ linked' = linked
        \/ linked' = linked \ {q} /\ lost' = lost \cup {q}
        \/ /\ Edited(r, q, row) /\ run[r].mem[q] \in GoodRow /\ linked' = linked \ {q}
    BY <1>1, UnlinkFacts
  <2>2. CASE Edited(r, q, row) /\ run[r].mem[q] \in GoodRow /\ linked' = linked \ {q}
    <3>1. row.billing = Detach
      BY <2>2, BillingRow
    <3> HIDE DEF row
    <3>2. Pending(r, q, Detach)'
      BY <2>2, <3>1 DEF Pending, Edited, RunsInv, Types, Context, Copies
    <3> QED
      BY <2>2, <3>2
  <2> QED
    BY <2>1, <2>2
<1>2. ASSUME NEW r \in Runs, NEW q \in Projects, Link(r, q)
      PROVE  \/ p \in linked <=> p \in linked'
             \/ /\ p \notin linked /\ p \in linked' /\ Pending(r, p, Bound)'
                /\ run[r].saving = None /\ run'[r].base = run[r].base
                /\ run[r].mem[p].billing = Unbound
  <2> DEFINE row == [run[r].mem[q] EXCEPT !.billing = Bound]
  <2>1. /\ run[r].saving = None /\ run[r].mem[q].billing = Unbound
        /\ run[r].mem[q] \in GoodRow
        /\ \/ linked' = linked
           \/ linked' = linked \cup {q} /\ lost' = lost \cup {q}
           \/ Edited(r, q, row) /\ linked' = linked \cup {q}
    BY <1>2, LinkFacts
  <2>2. CASE Edited(r, q, row) /\ linked' = linked \cup {q}
    <3>1. row.billing = Bound
      BY <2>1, BillingRow
    <3> HIDE DEF row
    <3>2. Pending(r, q, Bound)' /\ run'[r].base = run[r].base
      BY <2>2, <3>1 DEF Pending, Edited, RunsInv, Types, Context, Copies
    <3> QED
      BY <2>1, <2>2, <3>2
  <2> QED
    BY <2>1, <2>2
<1>3. ASSUME NEW r \in Runs, Save(r) PROVE linked' = linked
  BY <1>3, SaveFacts
<1>4. ASSUME NEW r \in Runs, NEW q \in Projects,
             CreateKey(r, q) \/ MarkBound(r, q) \/ InsertOfficial(r, q)
      PROVE  linked' = linked
  BY <1>4 DEF CreateKey, MarkBound, InsertOfficial
<1>5. ASSUME NEW r \in Runs,
             \/ Start(r) \/ ListProjects(r) \/ CreateProjects(r) \/ LoadRows(r) \/ InsertRows(r)
             \/ DescribeBilling(r) \/ ReadValid(r) \/ ReadExisting(r) \/ EndLoop(r) \/ GiveUp(r)
      PROVE  linked' = linked
  BY <1>5 DEF Start, ListProjects, CreateProjects, LoadRows, InsertRows, DescribeBilling,
              ReadValid, ReadExisting, EndLoop, GiveUp
<1>6. Crash => linked' = linked
  BY DEF Crash
<1>7. ASSUME NEW q \in Projects, SetTokenInvalid(q) PROVE linked' = linked
  BY <1>7 DEF SetTokenInvalid
<1>8. UNCHANGED vars => linked' = linked
  BY DEF vars
<1> QED
  BY <1>1, <1>2, <1>3, <1>4, <1>5, <1>6, <1>7, <1>8 DEF Next

\* What is detached stays so, and what is about to be will be.
LEMMA DetachedStays ==
    ASSUME RunsInv, [Next]_vars, NEW p \in Fair'
    PROVE  /\ Detached(p) => Detached(p)'
           /\ Detaching(p) => Detached(p)' \/ Detaching(p)'
<1>1. p \in Projects /\ p \notin stale' \cup lost'
  BY FairShrinks
<1>2. Detached(p) => Detached(p)'
  BY BillingForward DEF Detached, Detach
<1>3. ASSUME NEW r \in Runs, Pending(r, p, Detach) PROVE Detached(p)' \/ Detaching(p)'
  <2>1. CASE Save(r)
    BY <1>1, <1>3, <2>1, GoodSave DEF Pending, Detached
  <2>2. CASE ~Save(r)
    BY <1>1, <1>3, <2>2, PendingStays DEF Pending, Detaching
  <2> QED
    BY <2>1, <2>2
<1> QED
  BY <1>2, <1>3 DEF Detaching

\* A link that is about to be saved still is, unless the row was Unbound and is Bound.
LEMMA LinkingStays ==
    ASSUME RunsInv, [Next]_vars, NEW p \in Fair', Linking(p)
    PROVE  \/ Linking(p)'
           \/ /\ rows[p].billing = Unbound /\ rows'[p].billing = Bound
              /\ rows'[p] # None /\ rows[p] # None
<1>1. p \in Projects /\ p \notin stale' \cup lost' /\ p \notin again'
  BY FairShrinks
<1>2. PICK r \in Runs : Pending(r, p, Bound) /\ run[r].base[p].billing = Unbound
  BY DEF Linking
<1>3. CASE Save(r)
  BY <1>1, <1>2, <1>3, GoodSave DEF Pending
<1>4. CASE ~Save(r)
  BY <1>1, <1>2, <1>4, PendingStays DEF Pending, Linking
<1> QED
  BY <1>3, <1>4

LEMMA GoneStaysKnown ==
    ASSUME RunsInv, BillingInv, [Next]_vars, NEW p \in Fair'
    PROVE  GoneIsKnown(p)'
<1> SUFFICES ASSUME p \notin linked', SeenLinked(p)', ~Detached(p), ~Detaching(p)
             PROVE  Detached(p)' \/ Detaching(p)'
  BY DetachedStays DEF GoneIsKnown
<1>1. p \in Projects /\ p \in Fair /\ p \notin stale' \cup lost'
  BY FairShrinks
<1>2. CASE p \in linked
  BY <1>1, <1>2, LinksChange DEF Detaching
<1>3. CASE p \notin linked
  <2>1. ~SeenLinked(p)
    BY <1>1, <1>3 DEF BillingInv, GoneIsKnown
  <2>2. ASSUME rows'[p] # None, rows'[p].billing = Bound PROVE FALSE
    <3>1. CASE rows[p] = None
      BY <1>1, <2>2, <3>1, RowsAppear DEF NewRow, Unbound, Bound
    <3>2. CASE rows[p] # None /\ rows'[p] = rows[p]
      BY <2>1, <2>2, <3>2 DEF SeenLinked
    <3>3. CASE rows[p] # None /\ rows[p] \in GoodRow /\ rows'[p] = [rows[p] EXCEPT !.token = Invalid]
      <4>1. rows'[p].billing = rows[p].billing
        BY <3>3 DEF GoodRow, Rows
      <4> QED
        BY <2>1, <2>2, <3>3, <4>1 DEF SeenLinked
    <3>4. ASSUME NEW q \in Runs, RowSaved(p, q) PROVE FALSE
      <4>1. rows'[p] = run[q].mem[p]
        BY <1>1, <3>4, GoodSave DEF RowSaved
      <4> QED
        BY <2>1, <2>2, <4>1 DEF SeenLinked
    <3> QED
      BY <1>1, <3>1, <3>2, <3>3, <3>4, RowsChange
  <2>3. ASSUME NEW r \in Runs,
               p \in run'[r].found \/ (run'[r].mem[p] # None /\ run'[r].mem[p].billing = Bound)
        PROVE  FALSE
    <3>1. /\ p \notin run[r].found
          /\ run[r].mem[p] # None => run[r].mem[p].billing # Bound
          /\ rows[p] # None => rows[p].billing # Bound
      BY <2>1 DEF SeenLinked
    <3>2. CASE run'[r] = run[r]
      BY <2>3, <3>1, <3>2
    <3>3. CASE Blanked(r)
      BY <1>1, <2>3, <3>3 DEF Blanked
    <3>4. CASE Rereads(r)
      BY <2>3, <3>1, <3>4 DEF Rereads
    <3>5. CASE Keeps(r)
      BY <1>3, <2>3, <3>1, <3>5 DEF Keeps
    <3>6. ASSUME NEW q \in Projects, Edits(r, q) PROVE FALSE
      <4>1. PICK row \in GoodRow :
              /\ Edited(r, q, row) /\ run[r].mem[q] # None
              /\ \/ row.billing = run[r].mem[q].billing
                 \/ row.billing = Detach
                 \/ row.billing = Bound /\ q \in linked' \cup run[r].found
        BY <3>6 DEF Edits
      <4>2. /\ run'[r].found = run[r].found
            /\ run'[r].mem[p] = IF p = q THEN row ELSE run[r].mem[p]
        BY <1>1, <4>1 DEF Edited, RunsInv, Types, Context, Copies
      <4> QED
        BY <2>3, <3>1, <4>1, <4>2 DEF Bound, Detach
    <3>7. CASE Save(r)
      <4>1. run'[r].mem = run[r].mem /\ run'[r].found = run[r].found
        BY <3>7, SaveFacts
      <4> QED
        BY <2>3, <3>1, <4>1
    <3> QED
      BY <3>2, <3>3, <3>4, <3>5, <3>6, <3>7, Shapes DEF Shape
  <2> QED
    BY <2>2, <2>3 DEF SeenLinked
<1> QED
  BY <1>2, <1>3

LEMMA BackStaysPending ==
    ASSUME RunsInv, BillingInv, [Next]_vars, NEW p \in Fair'
    PROVE  BackIsPending(p)'
<1>1. p \in Projects /\ p \in Fair /\ p \notin stale' \cup lost' /\ p \notin again'
  BY FairShrinks
<1>2. CopiesBehind(p) /\ BackIsPending(p)
  BY <1>1 DEF BillingInv
<1>3. CASE p \in linked' /\ p \notin linked
  <2>1. PICK r \in Runs : /\ Pending(r, p, Bound)' /\ run[r].saving = None
                          /\ run'[r].base = run[r].base /\ run[r].mem[p].billing = Unbound
    BY <1>1, <1>3, LinksChange
  <2>2. run[r].mem[p] = run[r].base[p]
    BY <1>1, <1>2, <2>1, ProcessConstants DEF CopiesBehind
  <2>3. Linking(p)'
    BY <2>1, <2>2 DEF Linking
  <2> QED
    BY <2>3 DEF BackIsPending
<1>4. ASSUME p \in linked, Detached(p)' PROVE Linking(p)'
  <2>1. rows'[p] # None /\ rows'[p].billing = Detach
    BY <1>4 DEF Detached
  <2>2. Linking(p)
    <3>1. CASE Detached(p)
      BY <1>2, <1>4, <3>1 DEF BackIsPending
    <3>2. CASE rows[p] = None
      BY <1>1, <2>1, <3>2, RowsAppear DEF NewRow, Unbound, Detach
    <3>3. CASE rows[p] # None /\ rows'[p] = rows[p]
      BY <2>1, <3>1, <3>3 DEF Detached
    <3>4. CASE rows[p] # None /\ rows[p] \in GoodRow /\ rows'[p] = [rows[p] EXCEPT !.token = Invalid]
      <4>1. rows'[p].billing = rows[p].billing
        BY <3>4 DEF GoodRow, Rows
      <4> QED
        BY <2>1, <3>1, <3>4, <4>1 DEF Detached
    <3>5. ASSUME NEW q \in Runs, RowSaved(p, q) PROVE Linking(p)
      <4>1. /\ Pending(q, p, Detach) /\ run[q].base[p].billing = rows[p].billing
        BY <1>1, <2>1, <3>5, GoodSave DEF RowSaved, Pending
      <4> QED
        BY <1>2, <1>4, <4>1 DEF BackIsPending
    <3> QED
      BY <1>1, <3>2, <3>3, <3>4, <3>5, RowsChange
  <2> QED
    BY <2>1, <2>2, LinkingStays DEF Bound, Detach
<1>5. ASSUME p \in linked, p \in linked', NEW r \in Runs, Pending(r, p, Detach)',
             run'[r].base[p].billing = rows'[p].billing
      PROVE  Linking(p)'
  <2>1. run'[r].saving = p /\ run'[r].mem[p].billing = Detach /\ p # None
    BY <1>1, <1>5, ProcessConstants DEF Pending
  <2>2. CASE run'[r] = run[r]
    <3>1. /\ run[r].base[p] # None /\ rows[p] # None /\ run[r].base[p] \in GoodRow
      BY <1>1, <2>1, <2>2, ProcessConstants DEF RunsInv, ContextOK, Types, Context, Copies
    <3>2. /\ rows[p].billing \in 0 .. 2 /\ rows'[p].billing \in 0 .. 2
          /\ rows[p].billing <= rows'[p].billing /\ run[r].base[p].billing \in 0 .. 2
          /\ run[r].base[p].billing <= rows[p].billing
      BY <1>2, <3>1, BillingForward, EditedBilling DEF CopiesBehind
    <3>3. run[r].base[p].billing = rows'[p].billing
      BY <1>5, <2>2
    <3>4. run[r].base[p].billing = rows[p].billing /\ rows[p].billing = rows'[p].billing
      BY <3>2, <3>3
    <3>5. Linking(p)
      BY <1>2, <1>5, <2>1, <2>2, <3>4 DEF BackIsPending, Pending
    <3> QED
      BY <3>4, <3>5, LinkingStays DEF Bound, Unbound
  <2>3. ASSUME NEW q \in Projects, Edits(r, q) PROVE Linking(p)'
    <3>1. PICK row \in GoodRow :
            /\ Edited(r, q, row) /\ rows' = rows
            /\ run[r].mem[q] # None
            /\ \/ row.billing = run[r].mem[q].billing
               \/ row.billing = Detach /\ q \notin linked'
               \/ row.billing = Bound
      BY <2>3 DEF Edits
    <3>2. /\ q = p /\ run'[r].mem[p] = row /\ run'[r].base = run[r].base
          /\ run[r].saving = None
      BY <1>1, <2>1, <3>1 DEF Edited, RunsInv, Types, Context, Copies
    <3>3. run[r].mem[p].billing = Detach
      BY <1>5, <2>1, <3>1, <3>2 DEF Bound, Detach
    <3>4. run[r].base[p].billing = Detach /\ run[r].base[p] # None
      BY <1>2, <2>1, <3>1, <3>2, <3>3 DEF CopiesBehind
    <3>5. rows[p] # None /\ rows[p].billing = Detach
      BY <1>1, <1>5, <3>1, <3>2, <3>4 DEF RunsInv, ContextOK
    <3>6. Linking(p)
      BY <1>2, <1>5, <3>5 DEF BackIsPending, Detached
    <3> QED
      BY <3>5, <3>6, LinkingStays DEF Unbound, Detach
  <2>4. ~Blanked(r) /\ ~Rereads(r) /\ ~Keeps(r)
    BY <2>1 DEF Blanked, Rereads, Keeps
  <2>5. ~Save(r)
    BY <2>1, SaveFacts
  <2> QED
    BY <2>2, <2>3, <2>4, <2>5, Shapes DEF Shape
<1> QED
  BY <1>3, <1>4, <1>5 DEF BackIsPending

\* The billing of gcp_accounts is the one at Google, but for the exceptions listed.
THEOREM BillingIsRecorded == Spec => []BillingAgrees
<1>1. Init => RunsInv /\ BillingInv
  BY InitRuns, InitBilling
<1>2. RunsInv /\ BillingInv /\ [Next]_vars => RunsInv' /\ BillingInv'
  <2> SUFFICES ASSUME RunsInv, BillingInv, [Next]_vars PROVE BillingInv'
    BY NextRuns
  <2>1. ASSUME NEW p \in Fair' PROVE (CopiesBehind(p) /\ GoneIsKnown(p) /\ BackIsPending(p))'
    BY <2>1, CopiesStayBehind, GoneStaysKnown, BackStaysPending
  <2> QED
    BY <2>1 DEF BillingInv
<1>3. BillingInv => BillingAgrees
  <2> SUFFICES ASSUME BillingInv, NEW p \in Fair, rows[p] # None, ~Saving(p)
               PROVE  /\ rows[p].billing = Bound => p \in linked
                      /\ rows[p].billing = Detach => p \notin linked
    BY DEF BillingAgrees, Fair
  <2>1. ~Detaching(p) /\ ~Linking(p)
    BY DEF Detaching, Linking, Pending, Saving
  <2> QED
    BY <2>1 DEF BillingInv, GoneIsKnown, BackIsPending, SeenLinked, Detached, Bound, Detach
<1> QED
  BY <1>1, <1>2, <1>3, PTL DEF Spec
=============================================================================
