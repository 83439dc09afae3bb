----------------------- MODULE PostLoginProcessProofs ------------------------
(***************************************************************************)
(* What holds of the projects of an account for any number of runs and     *)
(* projects, whatever commands and statements fail.                        *)
(***************************************************************************)
EXTENDS PostLoginProcess, TLAPS

(***************************************************************************)
(* Types.  A row without a token has no key.                               *)
(***************************************************************************)
Givers  == Runs \cup {Earlier}
GoodRow == {row \in Rows : row.token < Got => row.key = None}
Copies  == [Projects -> GoodRow \cup {None}]

Context ==
    [stage : Stages, mode : Modes, list : SUBSET Projects, fresh : SUBSET Projects,
     mem : Copies, base : Copies, found : SUBSET Projects, accounts : BOOLEAN,
     bound : SUBSET Projects, fails : Nat, sold : SUBSET Projects,
     tried : SUBSET Projects, saving : Projects \cup {None}]

Types ==
    /\ linked \subseteq exists /\ exists \subseteq Projects
    /\ keys \in [Projects -> SUBSET Givers]
    /\ rows \in Copies
    /\ official \subseteq [project : Projects, key : Givers, by : Givers]
    /\ stale \subseteq Projects /\ lost \subseteq Projects /\ again \subseteq Projects
    /\ run \in [Runs -> Context]

(***************************************************************************)
(* What a run has in memory.                                               *)
(***************************************************************************)
Loops == {"token", "check", "bind", "sync"}

\* The lists of a run grow within one another, and it works on rows there are.
ContextOK(r) ==
    /\ run[r].list \subseteq exists /\ run[r].fresh \subseteq run[r].list
    /\ run[r].found \subseteq run[r].list /\ run[r].bound \subseteq run[r].list
    /\ run[r].fails <= FailLimit + 1
    /\ \A p \in Projects : /\ run[r].mem[p] = None <=> run[r].base[p] = None
                           /\ run[r].base[p] # None => rows[p] # None
    /\ \A p \in run[r].bound : run[r].mem[p] # None
    /\ run[r].saving # None => /\ run[r].stage \in Loops
                               /\ run[r].mem[run[r].saving] # None
                               /\ run[r].stage = "bind" => run[r].saving \in run[r].list
    /\ run[r].stage = "idle" => \A p \in Projects : run[r].mem[p] = None

\* A run only ever advances the billing and the token of a row, gives a key to a
\* row without one, and gives one after a failure only as RetryNeedsABind says.
Advances(r) ==
    \A p \in Projects : run[r].base[p] # None =>
        /\ run[r].base[p].billing <= run[r].mem[p].billing
        /\ run[r].base[p].token <= run[r].mem[p].token
        /\ run[r].mem[p].key # run[r].base[p].key => run[r].base[p].token < Got
        /\ run[r].base[p].token = CreateFail /\ run[r].mem[p].token = Got =>
               run[r].mode # "V2" /\ p \in run[r].bound

RunsInv == Types /\ \A r \in Runs : ContextOK(r) /\ Advances(r)

-----------------------------------------------------------------------------
(***************************************************************************)
(* The ways in which a step changes the contexts.                          *)
(***************************************************************************)
Others(r) == \A q \in Runs \ {r} : run'[q] = run[q]

\* The copies of the rows stay.
SameCopies(r) ==
    /\ Others(r)
    /\ run'[r].mem = run[r].mem /\ run'[r].base = run[r].base /\ run'[r].saving = run[r].saving

\* The run reads the rows.
Reads(r) ==
    /\ Others(r)
    /\ run'[r].mem = rows /\ run'[r].base = rows /\ run[r].saving = None /\ run'[r].saving = None

\* The run ends, or begins its last part.
Dropped(r, s) == Others(r) /\ run[r].saving = None /\ run'[r] = Blank(s)

\* The copy of the row of p is changed, to be saved.
Edited(r, p, row) ==
    /\ Others(r)
    /\ run'[r].mem = [run[r].mem EXCEPT ![p] = row]
    /\ run'[r].base = run[r].base
    /\ run[r].saving = None /\ run'[r].saving = p
    /\ run'[r].tried = run[r].tried \cup {p}
    /\ run'[r].stage = run[r].stage /\ run'[r].mode = run[r].mode
    /\ run'[r].list = run[r].list /\ run'[r].fresh = run[r].fresh
    /\ run'[r].found = run[r].found /\ run'[r].bound = run[r].bound
    /\ run'[r].fails = run[r].fails /\ run'[r].sold = run[r].sold

LEMMA BlankFacts ==
    ASSUME NEW s \in Stages
    PROVE  /\ Blank(s) \in Context
           /\ Blank(s).stage = s /\ Blank(s).saving = None /\ Blank(s).fails = 0
           /\ Blank(s).list = {} /\ Blank(s).fresh = {} /\ Blank(s).found = {}
           /\ Blank(s).bound = {} /\ Blank(s).sold = {} /\ Blank(s).tried = {}
           /\ \A p \in Projects : Blank(s).mem[p] = None /\ Blank(s).base[p] = None
BY DEF Blank, Context, Modes, Copies

LEMMA ToSaveFacts ==
    ASSUME Types, NEW r \in Runs, NEW p \in Projects, NEW row \in GoodRow, run[r].saving = None,
           run' = [run EXCEPT ![r] = ToSave(r, p, row)]
    PROVE  run' \in [Runs -> Context] /\ Edited(r, p, row)
<1> DEFINE c == ToSave(r, p, row)
<1>1. run[r] \in Context /\ run \in [Runs -> Context]
  BY DEF Types
<1>2. [run[r].mem EXCEPT ![p] = row] \in Copies
  BY <1>1 DEF Context, Copies
<1>3. c \in Context
  BY <1>1, <1>2 DEF ToSave, Context
<1>4. /\ c.mem = [run[r].mem EXCEPT ![p] = row] /\ c.base = run[r].base /\ c.saving = p
      /\ c.tried = run[r].tried \cup {p} /\ c.stage = run[r].stage /\ c.mode = run[r].mode
      /\ c.list = run[r].list /\ c.fresh = run[r].fresh /\ c.found = run[r].found
      /\ c.bound = run[r].bound /\ c.fails = run[r].fails /\ c.sold = run[r].sold
  BY <1>1 DEF ToSave, Context
<1>5. run'[r] = c /\ Others(r) /\ run' \in [Runs -> Context]
  BY <1>1, <1>3 DEF Others
<1> QED
  BY <1>4, <1>5 DEF Edited

LEMMA TriedFacts ==
    ASSUME Types, NEW r \in Runs, NEW p \in Projects, NEW n \in Nat,
           run' = [run EXCEPT ![r] = [Tried(r, p) EXCEPT !.fails = n]]
    PROVE  /\ run' \in [Runs -> Context] /\ SameCopies(r)
           /\ run'[r].tried = run[r].tried \cup {p} /\ run'[r].fails = n
           /\ run'[r].stage = run[r].stage /\ run'[r].mode = run[r].mode
           /\ run'[r].list = run[r].list /\ run'[r].fresh = run[r].fresh
           /\ run'[r].found = run[r].found /\ run'[r].bound = run[r].bound
           /\ run'[r].sold = run[r].sold
<1>1. run[r] \in Context /\ run \in [Runs -> Context]
  BY DEF Types
<1>2. [Tried(r, p) EXCEPT !.fails = n] \in Context
  BY <1>1 DEF Tried, Context
<1>3. run' \in [Runs -> Context] /\ run'[r] = [Tried(r, p) EXCEPT !.fails = n] /\ Others(r)
  BY <1>1, <1>2 DEF Others
<1> QED
  BY <1>1, <1>3 DEF SameCopies, Tried, Context

\* The projects a loop works on have rows, but for those whose billing is checked.
LEMMA WorkHasRows ==
    ASSUME RunsInv, NEW r \in Runs, NEW p \in Projects, NEW stage \in {"token", "bind", "sync"},
           p \in Left(r, stage)
    PROVE  /\ run[r].saving = None /\ run[r].stage = stage /\ p \notin run[r].tried
           /\ run[r].mem[p] \in GoodRow /\ run[r].mem[p] # None
<1>1. run[r].saving = None /\ run[r].stage = stage /\ p \notin run[r].tried
  BY DEF Left
<1>2. run[r].mem[p] # None
  BY DEF Left, TokenWork, BindWork, SyncWork, RunsInv, ContextOK
<1> QED
  BY <1>1, <1>2 DEF RunsInv, Types, Context, Copies

-----------------------------------------------------------------------------
(***************************************************************************)
(* The runs keep their invariant.                                          *)
(***************************************************************************)
LEMMA InitRuns == Init => RunsInv
<1> SUFFICES ASSUME Init PROVE RunsInv
  OBVIOUS
<1> USE ProcessConstants, PastRowsAssumption DEF Init
<1>1. rows \in Copies
  BY DEF Copies, GoodRow
<1>2. run \in [Runs -> Context] /\ \A r \in Runs : run[r] = Blank("idle")
  BY BlankFacts DEF Stages
<1>3. keys \in [Projects -> SUBSET Givers]
  <2>1. \A p \in Projects : rows[p] # None => rows[p].key \in Givers \cup {None}
    BY DEF Givers
  <2> QED
    BY <2>1
<1>4. Types
  BY <1>1, <1>2, <1>3 DEF Types, Givers
<1>5. \A r \in Runs : ContextOK(r) /\ Advances(r)
  BY <1>2, BlankFacts DEF ContextOK, Advances, Stages
<1> QED
  BY <1>4, <1>5 DEF RunsInv

\* A row stays where there is one, and the account's projects stay.
RowsStay == exists \subseteq exists' /\ \A p \in Projects : rows[p] # None => rows'[p] # None

LEMMA OthersKeep ==
    ASSUME RunsInv, NEW r \in Runs, Others(r), RowsStay, NEW q \in Runs \ {r}
    PROVE  ContextOK(q)' /\ Advances(q)'
<1>1. run'[q] = run[q] /\ ContextOK(q) /\ Advances(q)
  BY DEF Others, RunsInv
<1>2. ContextOK(q)'
  BY <1>1 DEF ContextOK, RowsStay
<1>3. Advances(q)'
  BY <1>1 DEF Advances
<1> QED
  BY <1>2, <1>3

\* A run that is set to Blank.
LEMMA DroppedKeeps ==
    ASSUME RunsInv, NEW r \in Runs, NEW s \in Stages, run' = [run EXCEPT ![r] = Blank(s)], RowsStay
    PROVE  run' \in [Runs -> Context] /\ \A q \in Runs : ContextOK(q)' /\ Advances(q)'
<1> USE ProcessConstants DEF RunsInv, Types
<1>1. run' \in [Runs -> Context] /\ Others(r) /\ run'[r] = Blank(s)
  BY BlankFacts DEF Others
<1>2. ContextOK(r)' /\ Advances(r)'
  BY <1>1, BlankFacts DEF ContextOK, Advances
<1> QED
  BY <1>1, <1>2, OthersKeep

\* A run that reads the rows.
LEMMA ReadsKeep ==
    ASSUME RunsInv, NEW r \in Runs, Reads(r), UNCHANGED <<rows, exists>>,
           run'[r].stage \in Stages \ {"idle"},
           run'[r].list = run[r].list, run'[r].fresh = run[r].fresh, run'[r].found = run[r].found,
           run'[r].bound = run[r].bound, run'[r].fails = run[r].fails
    PROVE  \A q \in Runs : ContextOK(q)' /\ Advances(q)'
<1> USE DEF RunsInv
<1>1. ContextOK(r)'
  BY DEF Reads, ContextOK, Types, Context
<1>2. Advances(r)'
  <2> SUFFICES ASSUME NEW p \in Projects, rows[p] # None
               PROVE  rows[p].billing <= rows[p].billing /\ rows[p].token <= rows[p].token
    BY DEF Reads, Advances, CreateFail, Got
  <2>1. rows[p].billing \in 0 .. 2 /\ rows[p].token \in 0 .. 3
    BY DEF Types, Copies, GoodRow, Rows, Unbound, Detach, NoToken, Invalid
  <2> QED
    BY <2>1
<1> QED
  BY <1>1, <1>2, OthersKeep DEF Reads, RowsStay

\* A run that keeps its copies.
LEMMA SameCopiesKeep ==
    ASSUME RunsInv, NEW r \in Runs, SameCopies(r), RowsStay,
           run'[r].list \subseteq exists', run'[r].fresh \subseteq run'[r].list,
           run'[r].found \subseteq run'[r].list, run'[r].bound = run[r].bound,
           run[r].list \subseteq run'[r].list, run'[r].fails <= FailLimit + 1,
           run'[r].stage # "idle", run[r].saving # None => run'[r].stage = run[r].stage,
           run'[r].mode = run[r].mode \/ run[r].stage = "idle"
    PROVE  \A q \in Runs : ContextOK(q)' /\ Advances(q)'
<1> USE DEF RunsInv
<1>1. ContextOK(r)'
  BY DEF SameCopies, ContextOK, RowsStay
<1>2. Advances(r)'
  BY DEF SameCopies, Advances, ContextOK
<1> QED
  BY <1>1, <1>2, OthersKeep DEF SameCopies

\* A run that changes the copy of a row.
LEMMA EditedKeeps ==
    ASSUME RunsInv, NEW r \in Runs, NEW p \in Projects, NEW row \in GoodRow,
           run[r].mem[p] # None, Edited(r, p, row), UNCHANGED <<rows, exists>>,
           run[r].stage \in Loops, run[r].stage = "bind" => p \in run[r].list,
           run[r].mem[p].billing <= row.billing, run[r].mem[p].token <= row.token,
           row.key # run[r].mem[p].key => run[r].mem[p].token < Got,
           row.token # run[r].mem[p].token /\ row.token = Got =>
               \/ run[r].mem[p].token = NoToken
               \/ run[r].mode # "V2" /\ p \in run[r].bound
    PROVE  \A q \in Runs : ContextOK(q)' /\ Advances(q)'
<1> USE PastRowsAssumption DEF RunsInv
<1>1. /\ \A q \in Projects : run'[r].mem[q] = IF q = p THEN row ELSE run[r].mem[q]
      /\ row # None
  BY DEF Edited, Types, Context, Copies, GoodRow
<1>2. ContextOK(r)'
  BY <1>1 DEF Edited, ContextOK
<1>3. Advances(r)'
  <2> SUFFICES ASSUME NEW q \in Projects, run[r].base[q] # None PROVE
        /\ run[r].base[q].billing <= run'[r].mem[q].billing
        /\ run[r].base[q].token <= run'[r].mem[q].token
        /\ run'[r].mem[q].key # run[r].base[q].key => run[r].base[q].token < Got
        /\ run[r].base[q].token = CreateFail /\ run'[r].mem[q].token = Got =>
               run[r].mode # "V2" /\ q \in run[r].bound
    BY DEF Edited, Advances
  <2>1. CASE q # p
    BY <1>1, <2>1 DEF Advances
  <2>2. CASE q = p
    <3>1. /\ run[r].base[p] \in GoodRow /\ run[r].mem[p] \in GoodRow
      BY <2>2 DEF Types, Context, Copies
    <3>2. /\ run[r].base[p].billing \in 0 .. 2 /\ run[r].base[p].token \in 0 .. 3
          /\ run[r].mem[p].billing \in 0 .. 2 /\ run[r].mem[p].token \in 0 .. 3
          /\ row.billing \in 0 .. 2 /\ row.token \in 0 .. 3
      BY <3>1 DEF GoodRow, Rows, Unbound, Detach, NoToken, Invalid
    <3>3. /\ run[r].base[p].billing <= run[r].mem[p].billing
          /\ run[r].base[p].token <= run[r].mem[p].token
          /\ run[r].mem[p].key # run[r].base[p].key => run[r].base[p].token < Got
          /\ run[r].base[p].token = CreateFail /\ run[r].mem[p].token = Got =>
               run[r].mode # "V2" /\ p \in run[r].bound
      BY <2>2 DEF Advances
    <3> QED
      BY <1>1, <2>2, <3>2, <3>3 DEF CreateFail, Got, NoToken
  <2> QED
    BY <2>1, <2>2
<1> QED
  BY <1>2, <1>3, OthersKeep DEF Edited, RowsStay

-----------------------------------------------------------------------------
(***************************************************************************)
(* The actions, and the way each changes the contexts.                     *)
(***************************************************************************)

\* Before the loops, and between them.
Moves(r) ==
    \/ Start(r) \/ ListProjects(r) \/ CreateProjects(r) \/ DescribeBilling(r) \/ ReadExisting(r)

LEMMA MovesFacts ==
    ASSUME RunsInv, NEW r \in Runs, Moves(r)
    PROVE  /\ run' \in [Runs -> Context] /\ SameCopies(r) /\ run[r].saving = None
           /\ run'[r].list \subseteq exists' /\ run'[r].fresh \subseteq run'[r].list
           /\ run'[r].found \subseteq run'[r].list /\ run'[r].bound = run[r].bound
           /\ run[r].list \subseteq run'[r].list /\ run'[r].fails = run[r].fails
           /\ run'[r].stage # "idle" /\ run'[r].stage # "ended"
           /\ run'[r].mode = run[r].mode \/ run[r].stage = "idle"
           /\ run'[r].found \subseteq run[r].found \cup linked
           /\ exists \subseteq exists' /\ exists' \subseteq Projects
           /\ UNCHANGED <<linked, keys, rows, official, stale, lost, again>>
           /\ run'[r].tried = run[r].tried
           /\ \/ run'[r].stage = "sync" /\ run'[r].sold = {o.project : o \in official}
              \/ run'[r].stage # "sync"
<1>1. run[r] \in Context /\ ContextOK(r) /\ run \in [Runs -> Context]
  BY DEF RunsInv, Types
<1>2. run[r].saving = None
  BY <1>1 DEF Moves, Start, ListProjects, CreateProjects, DescribeBilling, ReadExisting,
              ContextOK, Loops
<1>3. exists \subseteq Projects /\ linked \subseteq exists
  BY DEF RunsInv, Types
<1> USE DEF Context, SameCopies, Others
<1>4. CASE Start(r)
  <2>1. PICK m \in Modes : run' = [run EXCEPT ![r].stage = "list", ![r].mode = m]
    BY <1>4 DEF Start
  <2> QED
    BY <1>1, <1>2, <1>3, <1>4, <2>1 DEF Start, ContextOK, Stages
<1>5. CASE ListProjects(r)
  BY <1>1, <1>2, <1>3, <1>5 DEF ListProjects, ContextOK, Stages
<1>6. CASE CreateProjects(r)
  <2>1. PICK new \in SUBSET (Projects \ exists) :
          /\ exists' = exists \cup new
          /\ run' = [run EXCEPT ![r].stage = "load", ![r].list = @ \cup new, ![r].fresh = new]
    BY <1>6 DEF CreateProjects
  <2>2. /\ run[r].list \cup new \in SUBSET Projects /\ new \in SUBSET Projects
        /\ run[r].found \subseteq run[r].list /\ run[r].list \subseteq exists
    BY <1>1, <1>3 DEF ContextOK
  <2>3. run' = [run EXCEPT ![r] = [run[r] EXCEPT !.stage = "load", !.list = @ \cup new, !.fresh = new]]
    BY <1>1, <2>1
  <2>4. run' \in [Runs -> Context] /\ SameCopies(r)
    BY <1>1, <1>2, <2>2, <2>3 DEF Stages
  <2>5. /\ run'[r].list = run[r].list \cup new /\ run'[r].fresh = new
        /\ run'[r].found = run[r].found /\ run'[r].bound = run[r].bound
        /\ run'[r].fails = run[r].fails /\ run'[r].stage = "load"
        /\ run'[r].mode = run[r].mode /\ run'[r].tried = run[r].tried
    BY <1>1, <2>3
  <2>6. /\ exists \subseteq exists' /\ exists' \subseteq Projects
        /\ UNCHANGED <<linked, keys, rows, official, stale, lost, again>>
    BY <1>3, <1>6, <2>1 DEF CreateProjects
  <2> HIDE DEF Context, SameCopies
  <2> QED
    BY <1>2, <2>1, <2>2, <2>4, <2>5, <2>6
<1>7. CASE DescribeBilling(r)
  <2>1. PICK found \in SUBSET (linked \cap run[r].list), accounts \in BOOLEAN :
          run' = [run EXCEPT ![r].stage = "check", ![r].found = found, ![r].accounts = accounts]
    BY <1>7 DEF DescribeBilling
  <2>2. found \subseteq linked /\ found \subseteq run[r].list /\ found \in SUBSET Projects
    BY <1>3
  <2> QED
    BY ZenonT(40), <1>1, <1>2, <1>3, <1>7, <2>1, <2>2 DEF DescribeBilling, ContextOK, Stages
<1>8. CASE ReadExisting(r)
  <2>1. {o.project : o \in official} \subseteq Projects
    BY DEF RunsInv, Types
  <2> QED
    BY <1>1, <1>2, <1>3, <1>8, <2>1 DEF ReadExisting, ContextOK, Stages
<1> QED
  BY <1>4, <1>5, <1>6, <1>7, <1>8 DEF Moves

LEMMA MovesKeep == ASSUME RunsInv, NEW r \in Runs, Moves(r) PROVE RunsInv'
<1>1. \A q \in Runs : ContextOK(q)' /\ Advances(q)'
  BY MovesFacts, SameCopiesKeep DEF RunsInv, ContextOK, RowsStay
<1>2. Types'
  BY MovesFacts DEF RunsInv, Types
<1> QED
  BY <1>1, <1>2 DEF RunsInv

\* LoadRows and ReadValid.
LEMMA ReadFacts ==
    ASSUME RunsInv, NEW r \in Runs, LoadRows(r) \/ ReadValid(r)
    PROVE  /\ run' \in [Runs -> Context] /\ Reads(r)
           /\ run'[r].stage \in {"insert", "token", "describe", "existing"}
           /\ run'[r].list = run[r].list /\ run'[r].fresh = run[r].fresh
           /\ run'[r].found = run[r].found /\ run'[r].bound = run[r].bound
           /\ run'[r].fails = run[r].fails
           /\ UNCHANGED <<exists, linked, keys, rows, official, stale, lost, again>>
<1>1. run[r] \in Context /\ ContextOK(r) /\ run \in [Runs -> Context] /\ rows \in Copies
  BY DEF RunsInv, Types
<1>2. run[r].saving = None
  BY <1>1 DEF LoadRows, ReadValid, ContextOK, Loops
<1>3. PICK stage \in {"insert", "token", "describe", "existing"} :
        run' = [run EXCEPT ![r].stage = stage, ![r].mem = rows, ![r].base = rows]
  BY DEF LoadRows, ReadValid, AfterSetup
<1>4. stage \in Stages
  BY DEF Stages
<1>5. UNCHANGED <<exists, linked, keys, rows, official, stale, lost, again>>
  BY DEF LoadRows, ReadValid
<1> QED
  BY <1>1, <1>2, <1>3, <1>4, <1>5 DEF Context, Reads, Others

LEMMA ReadsKeepInv == ASSUME RunsInv, NEW r \in Runs, LoadRows(r) \/ ReadValid(r) PROVE RunsInv'
<1>1. \A q \in Runs : ContextOK(q)' /\ Advances(q)'
  BY ReadFacts, ReadsKeep DEF Stages
<1>2. Types'
  BY ReadFacts DEF RunsInv, Types
<1> QED
  BY <1>1, <1>2 DEF RunsInv

LEMMA InsertRowsFacts ==
    ASSUME RunsInv, NEW r \in Runs, InsertRows(r)
    PROVE  /\ run' \in [Runs -> Context] /\ SameCopies(r) /\ run[r].saving = None
           /\ run'[r].stage \in {"reload", "token", "describe"}
           /\ run'[r].mode = run[r].mode
           /\ run'[r].list = run[r].list /\ run'[r].fresh = run[r].fresh
           /\ run'[r].found = run[r].found /\ run'[r].bound = run[r].bound
           /\ run'[r].fails = run[r].fails
           /\ rows' \in Copies
           /\ \A p \in Projects : rows'[p] = rows[p] \/ (rows[p] = None /\ rows'[p] = NewRow)
           /\ UNCHANGED <<exists, linked, keys, official, stale, lost, again>>
<1>1. run[r] \in Context /\ ContextOK(r) /\ run \in [Runs -> Context] /\ rows \in Copies
  BY DEF RunsInv, Types
<1>2. run[r].saving = None
  BY <1>1 DEF InsertRows, ContextOK, Loops
<1>3. PICK stage \in {"reload", "token", "describe"} : run' = [run EXCEPT ![r].stage = stage]
  BY DEF InsertRows, AfterSetup
<1>4. stage \in Stages
  BY DEF Stages
<1>5. NewRow \in GoodRow
  BY DEF NewRow, GoodRow, Rows, Keys, Unbound, Detach, NoToken, Invalid
<1>6. rows' \in Copies /\ \A p \in Projects : rows'[p] = rows[p] \/ (rows[p] = None /\ rows'[p] = NewRow)
  BY <1>1, <1>5 DEF InsertRows, Copies
<1>7. UNCHANGED <<exists, linked, keys, official, stale, lost, again>>
  BY DEF InsertRows
<1> QED
  BY <1>1, <1>2, <1>3, <1>4, <1>6, <1>7 DEF Context, SameCopies, Others

LEMMA NewRowIsRow == NewRow \in GoodRow /\ NewRow # None
<1>1. NewRow \in GoodRow
  BY DEF NewRow, GoodRow, Rows, Keys, Unbound, Detach, NoToken, Invalid
<1> QED
  BY <1>1, PastRowsAssumption DEF GoodRow

LEMMA InsertRowsKeep == ASSUME RunsInv, NEW r \in Runs, InsertRows(r) PROVE RunsInv'
<1>1. \A q \in Runs : ContextOK(q)' /\ Advances(q)'
  <2>1. RowsStay
    BY InsertRowsFacts, NewRowIsRow DEF RowsStay
  <2> QED
    BY <2>1, InsertRowsFacts, SameCopiesKeep DEF RunsInv, ContextOK
<1>2. Types'
  BY InsertRowsFacts DEF RunsInv, Types
<1> QED
  BY <1>1, <1>2 DEF RunsInv

\* The end of a loop.
LEMMA EndLoopFacts ==
    ASSUME RunsInv, NEW r \in Runs, EndLoop(r)
    PROVE  /\ run' \in [Runs -> Context] /\ run[r].saving = None
           /\ UNCHANGED <<exists, linked, keys, rows, official, stale, lost, again>>
           /\ \/ /\ Dropped(r, "valid") /\ run' = [run EXCEPT ![r] = Blank("valid")]
                 /\ run[r].stage # "sync"
              \/ Dropped(r, "ended") /\ run' = [run EXCEPT ![r] = Blank("ended")]
              \/ /\ SameCopies(r) /\ run'[r].stage \in {"bind", "token", "describe"}
                 /\ run[r].stage # "sync"
                 /\ run'[r].mode = run[r].mode
                 /\ run'[r].list = run[r].list /\ run'[r].fresh = run[r].fresh
                 /\ run'[r].found = {} /\ run'[r].bound = run[r].bound
                 /\ run'[r].fails = 0
<1>1. run[r] \in Context /\ ContextOK(r) /\ run \in [Runs -> Context]
  BY DEF RunsInv, Types
<1>2. run[r].stage \in {"token", "check", "bind", "sync"} /\ run[r].saving = None
  BY DEF EndLoop
<1> DEFINE next == After(run[r].mode, run[r].stage)
<1>3. /\ next \in {"bind", "valid", "token", "describe", "ended"}
      /\ run[r].stage = "sync" => next = "ended"
  BY <1>2 DEF After
<1>4. UNCHANGED <<exists, linked, keys, rows, official, stale, lost, again>>
  BY DEF EndLoop
<1>5. CASE next \in {"valid", "ended"}
  <2>1. run' = [run EXCEPT ![r] = Blank(next)] /\ next \in Stages
    BY <1>5 DEF EndLoop, Stages
  <2>2. run' \in [Runs -> Context] /\ Dropped(r, next)
    BY <1>1, <1>2, <2>1, BlankFacts DEF Dropped, Others
  <2> QED
    BY <1>2, <1>3, <1>4, <1>5, <2>1, <2>2
<1>6. CASE next \notin {"valid", "ended"}
  <2>1. PICK a \in BOOLEAN :
          run' = [run EXCEPT ![r] = [run[r] EXCEPT !.stage = next, !.tried = {}, !.found = {},
                                                   !.fails = 0, !.accounts = a]]
    <3>1. (run[r].accounts /\ run[r].stage = "check") \in BOOLEAN
      OBVIOUS
    <3>2. run' = [run EXCEPT ![r] =
                    [run[r] EXCEPT !.stage = next, !.tried = {}, !.found = {}, !.fails = 0,
                                   !.accounts = @ /\ run[r].stage = "check"]]
      BY <1>6 DEF EndLoop
    <3> QED
      BY <1>1, <3>1, <3>2
  <2>2. next \in Stages /\ next \in {"bind", "token", "describe"}
    BY <1>3, <1>6 DEF Stages
  <2>3. [run[r] EXCEPT !.stage = next, !.tried = {}, !.found = {}, !.fails = 0, !.accounts = a]
          \in Context
    BY <1>1, <2>2 DEF Context
  <2>4. /\ run' \in [Runs -> Context] /\ Others(r)
        /\ run'[r] = [run[r] EXCEPT !.stage = next, !.tried = {}, !.found = {},
                                    !.fails = 0, !.accounts = a]
    BY <1>1, <2>1, <2>3 DEF Others
  <2> QED
    BY <1>1, <1>2, <1>3, <1>4, <2>2, <2>4 DEF Context, SameCopies
<1> QED
  BY <1>5, <1>6

LEMMA EndLoopKeeps == ASSUME RunsInv, NEW r \in Runs, EndLoop(r) PROVE RunsInv'
<1>1. Types' /\ RowsStay
  BY EndLoopFacts DEF RunsInv, Types, RowsStay
<1>2. \A q \in Runs : ContextOK(q)' /\ Advances(q)'
  <2>1. /\ "valid" \in Stages /\ "ended" \in Stages
    BY DEF Stages
  <2>2. ASSUME SameCopies(r), run'[r].stage \in {"bind", "token", "describe"},
               run'[r].mode = run[r].mode, run[r].saving = None,
               run'[r].list = run[r].list, run'[r].fresh = run[r].fresh,
               run'[r].found = {}, run'[r].bound = run[r].bound,
               run'[r].fails = 0
        PROVE  \A q \in Runs : ContextOK(q)' /\ Advances(q)'
    <3>1. 0 <= FailLimit + 1
      BY ProcessConstants
    <3>2. run[r].list \subseteq exists' /\ run[r].fresh \subseteq run[r].list
      BY <1>1 DEF RunsInv, ContextOK, RowsStay
    <3> QED
      BY <1>1, <2>2, <3>1, <3>2, SameCopiesKeep
  <2> QED
    BY <1>1, <2>1, <2>2, EndLoopFacts, DroppedKeeps
<1> QED
  BY <1>1, <1>2 DEF RunsInv

\* The rows a loop leaves in memory are rows.
LEMMA EditedRows ==
    ASSUME NEW row \in GoodRow, NEW r \in Runs
    PROVE  /\ row.token < Got => [row EXCEPT !.token = Got, !.key = r] \in GoodRow
           /\ row.token < Got => [row EXCEPT !.token = CreateFail] \in GoodRow
           /\ [row EXCEPT !.billing = Bound] \in GoodRow
           /\ [row EXCEPT !.billing = Detach] \in GoodRow
           /\ [row EXCEPT !.token = Invalid] \in GoodRow
           /\ [row EXCEPT !.oid = r] \in GoodRow
           /\ row.billing \in 0 .. 2 /\ row.token \in 0 .. 3 /\ row.oid \in Keys
           /\ row.key \in Keys /\ row # None
<1>1. /\ Got \in NoToken .. Invalid /\ CreateFail \in NoToken .. Invalid
      /\ Invalid \in NoToken .. Invalid
      /\ Bound \in Unbound .. Detach /\ Detach \in Unbound .. Detach
      /\ r \in Keys /\ ~(Got < Got) /\ ~(Invalid < Got)
      /\ Unbound .. Detach = 0 .. 2 /\ NoToken .. Invalid = 0 .. 3
  BY DEF Got, CreateFail, Invalid, NoToken, Bound, Unbound, Detach, Keys
<1>2. row \in Rows /\ (row.token < Got => row.key = None)
  BY DEF GoodRow
<1>3. row.token < Got => [row EXCEPT !.token = Got, !.key = r] \in GoodRow
  BY <1>1, <1>2 DEF GoodRow, Rows
<1>4. row.token < Got => [row EXCEPT !.token = CreateFail] \in GoodRow
  BY <1>1, <1>2 DEF GoodRow, Rows
<1>5. [row EXCEPT !.billing = Bound] \in GoodRow /\ [row EXCEPT !.billing = Detach] \in GoodRow
  BY <1>1, <1>2 DEF GoodRow, Rows
<1>6. [row EXCEPT !.token = Invalid] \in GoodRow
  BY <1>1, <1>2 DEF GoodRow, Rows
<1>7. [row EXCEPT !.oid = r] \in GoodRow
  BY <1>1, <1>2 DEF GoodRow, Rows
<1>8. /\ row.billing \in 0 .. 2 /\ row.token \in 0 .. 3 /\ row.oid \in Keys /\ row.key \in Keys
      /\ row # None
  <2>1. row.billing \in Unbound .. Detach /\ row.token \in NoToken .. Invalid
    BY <1>2 DEF Rows
  <2>2. row.oid \in Keys /\ row.key \in Keys /\ row # None
    BY <1>2, PastRowsAssumption DEF Rows
  <2> QED
    BY <1>1, <2>1, <2>2
<1> QED
  BY <1>3, <1>4, <1>5, <1>6, <1>7, <1>8

\* A key is created, or not.
LEMMA CreateKeyFacts ==
    ASSUME RunsInv, NEW r \in Runs, NEW p \in Projects, CreateKey(r, p)
    PROVE  /\ run[r].stage = "token" /\ run[r].saving = None
           /\ run[r].mem[p] \in GoodRow /\ run[r].mem[p] # None
           /\ run[r].mem[p].token < Got
           /\ run[r].mem[p].token = NoToken \/ (run[r].mode # "V2" /\ p \in run[r].bound)
           /\ UNCHANGED <<exists, linked, rows, official, stale, again>>
           /\ run' \in [Runs -> Context]
           /\ \/ /\ Edited(r, p, [run[r].mem[p] EXCEPT !.token = Got, !.key = r])
                 /\ keys' = [keys EXCEPT ![p] = keys[p] \cup {r}] /\ lost' = lost
              \/ /\ Edited(r, p, [run[r].mem[p] EXCEPT !.token = CreateFail])
                 /\ \/ keys' = keys /\ lost' = lost
                    \/ keys' = [keys EXCEPT ![p] = keys[p] \cup {r}] /\ lost' = lost \cup {p}
<1>1. p \in Left(r, "token")
  BY DEF CreateKey
<1>2. /\ run[r].stage = "token" /\ run[r].saving = None
      /\ run[r].mem[p] \in GoodRow /\ run[r].mem[p] # None
  BY <1>1, WorkHasRows
<1>3. p \in TokenWork(r)
  BY <1>1 DEF Left
<1>4. /\ run[r].mem[p].token < Got
      /\ run[r].mem[p].token = NoToken \/ (run[r].mode # "V2" /\ p \in run[r].bound)
  BY <1>3 DEF TokenWork, NoToken, Got
<1> DEFINE ok   == [run[r].mem[p] EXCEPT !.token = Got, !.key = r]
           fail == [run[r].mem[p] EXCEPT !.token = CreateFail]
<1>5. ok \in GoodRow /\ fail \in GoodRow
  BY <1>2, <1>4, EditedRows
<1>6. PICK reply \in GenerateTokenForProject(r, p) :
        /\ keys' = [keys EXCEPT ![p] = reply.now]
        /\ run' = [run EXCEPT ![r] = ToSave(r, p, IF reply.ok THEN ok ELSE fail)]
        /\ lost' = IF ~reply.ok /\ keys' # keys THEN lost \cup {p} ELSE lost
  BY DEF CreateKey
<1>7. \/ reply.ok = TRUE /\ reply.now = keys[p] \cup {r}
      \/ reply.ok = FALSE /\ reply.now = keys[p]
      \/ reply.ok = FALSE /\ reply.now = keys[p] \cup {r}
  BY DEF GenerateTokenForProject, Replies
<1>8. keys \in [Projects -> SUBSET Givers]
  BY DEF RunsInv, Types
<1>9. CASE reply.ok = TRUE /\ reply.now = keys[p] \cup {r}
  <2>1. run' = [run EXCEPT ![r] = ToSave(r, p, ok)]
    BY <1>6, <1>9
  <2>2. run' \in [Runs -> Context] /\ Edited(r, p, ok)
    BY <1>2, <1>5, <2>1, ToSaveFacts DEF RunsInv
  <2>3. keys' = [keys EXCEPT ![p] = keys[p] \cup {r}] /\ lost' = lost
    BY <1>6, <1>9
  <2> QED
    BY <1>2, <1>4, <2>2, <2>3 DEF CreateKey
<1>10. CASE reply.ok = FALSE
  <2>1. run' = [run EXCEPT ![r] = ToSave(r, p, fail)]
    BY <1>6, <1>10
  <2>2. run' \in [Runs -> Context] /\ Edited(r, p, fail)
    BY <1>2, <1>5, <2>1, ToSaveFacts DEF RunsInv
  <2>3. \/ keys' = keys /\ lost' = lost
        \/ keys' = [keys EXCEPT ![p] = keys[p] \cup {r}] /\ lost' = lost \cup {p}
    <3>1. /\ keys' = [keys EXCEPT ![p] = reply.now]
          /\ lost' = IF keys' # keys THEN lost \cup {p} ELSE lost
      BY <1>6, <1>10
    <3>2. CASE reply.now = keys[p]
      BY <1>8, <3>1, <3>2
    <3>3. CASE reply.now = keys[p] \cup {r}
      BY <3>1, <3>3
    <3> QED
      BY <1>7, <1>10, <3>2, <3>3
  <2> QED
    BY <1>2, <1>4, <2>2, <2>3 DEF CreateKey
<1> QED
  BY <1>7, <1>9, <1>10

LEMMA CreateKeyKeeps ==
    ASSUME RunsInv, NEW r \in Runs, NEW p \in Projects, CreateKey(r, p)
    PROVE  RunsInv'
<1>1. /\ run[r].mem[p] \in GoodRow /\ run[r].mem[p] # None /\ run[r].mem[p].token < Got
      /\ run[r].stage = "token"
      /\ run[r].mem[p].token = NoToken \/ (run[r].mode # "V2" /\ p \in run[r].bound)
      /\ rows' = rows /\ exists' = exists /\ linked' = linked /\ official' = official
      /\ run' \in [Runs -> Context] /\ stale' = stale /\ again' = again
  BY CreateKeyFacts
<1>0. run[r].mem[p].token \in 0 .. 3 /\ run[r].mem[p].billing \in 0 .. 2
  BY <1>1, EditedRows
<1> DEFINE ok   == [run[r].mem[p] EXCEPT !.token = Got, !.key = r]
           fail == [run[r].mem[p] EXCEPT !.token = CreateFail]
<1>2. /\ ok.billing = run[r].mem[p].billing /\ ok.token = Got /\ ok.key = r
      /\ fail.billing = run[r].mem[p].billing /\ fail.token = CreateFail
      /\ fail.key = run[r].mem[p].key /\ ok \in GoodRow /\ fail \in GoodRow
  <2>1. ok \in GoodRow /\ fail \in GoodRow
    BY <1>1, EditedRows
  <2>2. ok.billing = run[r].mem[p].billing /\ ok.token = Got /\ ok.key = r
    BY <1>1 DEF GoodRow, Rows
  <2>3. /\ fail.billing = run[r].mem[p].billing /\ fail.token = CreateFail
        /\ fail.key = run[r].mem[p].key
    BY <1>1 DEF GoodRow, Rows
  <2> HIDE DEF ok, fail
  <2> QED
    BY <2>1, <2>2, <2>3
<1>5. lost' \subseteq Projects /\ keys' \in [Projects -> SUBSET Givers]
  <2>1. lost \subseteq Projects /\ keys \in [Projects -> SUBSET Givers] /\ r \in Givers
    BY DEF RunsInv, Types, Givers
  <2>2. /\ keys' = keys \/ keys' = [keys EXCEPT ![p] = keys[p] \cup {r}]
        /\ lost' = lost \/ lost' = lost \cup {p}
    BY CreateKeyFacts
  <2>3. keys' \in [Projects -> SUBSET Givers]
    BY <2>1, <2>2
  <2> QED
    BY <2>1, <2>2, <2>3
<1>3. CASE Edited(r, p, ok)
  <2>1. \A q \in Runs : ContextOK(q)' /\ Advances(q)'
    <3> HIDE DEF ok
    <3> QED
      BY <1>0, <1>1, <1>2, <1>3, EditedKeeps DEF Got, Loops
  <2> QED
    BY <1>1, <1>5, <2>1 DEF RunsInv, Types
<1>4. CASE Edited(r, p, fail)
  <2>1. \A q \in Runs : ContextOK(q)' /\ Advances(q)'
    <3> HIDE DEF fail
    <3> QED
      BY <1>0, <1>1, <1>2, <1>4, EditedKeeps DEF CreateFail, Got, Loops
  <2> QED
    BY <1>1, <1>5, <2>1 DEF RunsInv, Types
<1> QED
  BY ZenonT(40), <1>3, <1>4, CreateKeyFacts

\* The run goes on to the next project of its loop, leaving this one.
Skipped(r, p) ==
    /\ SameCopies(r) /\ run[r].saving = None
    /\ run'[r].tried = run[r].tried \cup {p}
    /\ run'[r].stage = run[r].stage /\ run'[r].mode = run[r].mode
    /\ run'[r].list = run[r].list /\ run'[r].fresh = run[r].fresh
    /\ run'[r].found = run[r].found /\ run'[r].bound = run[r].bound
    /\ run'[r].sold = run[r].sold /\ run'[r].fails <= FailLimit + 1

LEMMA SkippedFacts ==
    ASSUME RunsInv, NEW r \in Runs, NEW p \in Projects, run[r].saving = None,
           run' = [run EXCEPT ![r] = Tried(r, p)]
    PROVE  run' \in [Runs -> Context] /\ Skipped(r, p)
<1>1. run[r] \in Context /\ run \in [Runs -> Context] /\ ContextOK(r)
  BY DEF RunsInv, Types
<1>2. Tried(r, p) \in Context
  BY <1>1 DEF Tried, Context
<1>3. run' \in [Runs -> Context] /\ run'[r] = Tried(r, p) /\ Others(r)
  BY <1>1, <1>2 DEF Others
<1> QED
  BY <1>1, <1>3 DEF Skipped, SameCopies, Tried, Context, ContextOK

LEMMA SkippedFailing ==
    ASSUME RunsInv, NEW r \in Runs, NEW p \in Projects, NEW n \in Nat, run[r].saving = None,
           n <= FailLimit + 1, run' = [run EXCEPT ![r] = [Tried(r, p) EXCEPT !.fails = n]]
    PROVE  run' \in [Runs -> Context] /\ Skipped(r, p)
BY TriedFacts DEF RunsInv, Skipped

LEMMA SkippedKeeps ==
    ASSUME RunsInv, NEW r \in Runs, NEW p \in Projects, Skipped(r, p), run[r].stage \in Loops,
           UNCHANGED <<rows, exists>>
    PROVE  \A q \in Runs : ContextOK(q)' /\ Advances(q)'
<1>1. RowsStay /\ run[r].list \subseteq exists /\ run[r].fresh \subseteq run[r].list
      /\ run[r].found \subseteq run[r].list
  BY DEF RowsStay, RunsInv, ContextOK
<1>2. run[r].stage # "idle"
  BY DEF Loops
<1> QED
  BY <1>1, <1>2, SameCopiesKeep DEF Skipped

\* A link is cut, or not.
LEMMA UnlinkFacts ==
    ASSUME RunsInv, NEW r \in Runs, NEW p \in Projects, Unlink(r, p)
    PROVE  /\ run[r].stage = "check" /\ run[r].saving = None
           /\ UNCHANGED <<exists, keys, rows, official, stale, again>>
           /\ run' \in [Runs -> Context]
           /\ \/ /\ Skipped(r, p)
                 /\ \/ linked' = linked /\ lost' = lost
                    \/ linked' = linked \ {p} /\ lost' = lost \cup {p}
              \/ /\ Dropped(r, "ended") /\ run' = [run EXCEPT ![r] = Blank("ended")]
                 /\ \/ linked' = linked /\ lost' = lost
                    \/ linked' = linked \ {p} /\ lost' = lost \cup {p}
              \/ /\ Edited(r, p, [run[r].mem[p] EXCEPT !.billing = Detach])
                 /\ run[r].mem[p] \in GoodRow /\ run[r].mem[p] # None
                 /\ linked' = linked \ {p} /\ lost' = lost
<1>1. run[r] \in Context /\ run \in [Runs -> Context]
  BY DEF RunsInv, Types
<1>2. run[r].stage = "check" /\ run[r].saving = None
  BY DEF Unlink, Left
<1>3. UNCHANGED <<exists, keys, rows, official, stale, again>>
  BY DEF Unlink
<1> DEFINE row == [run[r].mem[p] EXCEPT !.billing = Detach]
<1>4. PICK reply \in UnbindProjectBilling(p) :
        /\ linked' = reply.now
        /\ run' = [run EXCEPT ![r] =
              IF ~reply.ok THEN Tried(r, p)
              ELSE IF run[r].mem[p] = None THEN Blank("ended") ELSE ToSave(r, p, row)]
        /\ lost' = IF linked' # linked /\ (~reply.ok \/ run[r].mem[p] = None)
                   THEN lost \cup {p} ELSE lost
  BY DEF Unlink
<1>5. \/ reply.ok = TRUE /\ reply.now = linked \ {p}
      \/ reply.ok = FALSE /\ reply.now = linked
      \/ reply.ok = FALSE /\ reply.now = linked \ {p}
  BY DEF UnbindProjectBilling, Replies
<1>6. CASE reply.ok = FALSE
  <2>1. run' = [run EXCEPT ![r] = Tried(r, p)]
    BY <1>4, <1>6
  <2>2. run' \in [Runs -> Context] /\ Skipped(r, p)
    BY <1>2, <2>1, SkippedFacts
  <2>3. \/ linked' = linked /\ lost' = lost
        \/ linked' = linked \ {p} /\ lost' = lost \cup {p}
    BY <1>4, <1>5, <1>6
  <2> QED
    BY <1>2, <1>3, <2>2, <2>3
<1>7. CASE reply.ok = TRUE /\ run[r].mem[p] = None
  <2>1. run' = [run EXCEPT ![r] = Blank("ended")]
    BY <1>4, <1>7
  <2>2. run' \in [Runs -> Context] /\ Dropped(r, "ended")
    BY <1>1, <1>2, <2>1, BlankFacts DEF Dropped, Others, Stages
  <2>3. \/ linked' = linked /\ lost' = lost
        \/ linked' = linked \ {p} /\ lost' = lost \cup {p}
    BY <1>4, <1>5, <1>7
  <2> QED
    BY <1>2, <1>3, <2>1, <2>2, <2>3
<1>8. CASE reply.ok = TRUE /\ run[r].mem[p] # None
  <2>1. run' = [run EXCEPT ![r] = ToSave(r, p, row)]
    BY <1>4, <1>8
  <2>2. run[r].mem[p] \in GoodRow
    BY <1>1, <1>8 DEF Context, Copies
  <2>3. run' \in [Runs -> Context] /\ Edited(r, p, row)
    BY <1>2, <2>1, <2>2, EditedRows, ToSaveFacts DEF RunsInv
  <2>4. linked' = linked \ {p} /\ lost' = lost
    BY <1>4, <1>5, <1>8
  <2> QED
    BY <1>2, <1>3, <1>8, <2>2, <2>3, <2>4
<1> QED
  BY <1>5, <1>6, <1>7, <1>8

\* A row whose billing or oid is changed.
LEMMA BillingEdited ==
    ASSUME RunsInv, NEW r \in Runs, NEW p \in Projects, NEW row \in GoodRow,
           run[r].mem[p] \in GoodRow, run[r].mem[p] # None,
           Edited(r, p, row), UNCHANGED <<rows, exists>>, run[r].stage \in Loops,
           run[r].stage = "bind" => p \in run[r].list,
           run[r].mem[p].billing <= row.billing, row.token = run[r].mem[p].token,
           row.key = run[r].mem[p].key
    PROVE  \A q \in Runs : ContextOK(q)' /\ Advances(q)'
<1>1. row.token \in 0 .. 3
  BY EditedRows
<1>2. run[r].mem[p].token <= row.token
  BY <1>1
<1> QED
  BY <1>2, EditedKeeps

LEMMA UnlinkKeeps ==
    ASSUME RunsInv, NEW r \in Runs, NEW p \in Projects, Unlink(r, p)
    PROVE  RunsInv'
<1>1. /\ run[r].stage = "check" /\ UNCHANGED <<rows, exists, keys, official, stale, again>>
      /\ run' \in [Runs -> Context]
      /\ linked' = linked \/ linked' = linked \ {p}
      /\ lost' = lost \/ lost' = lost \cup {p}
      /\ "ended" \in Stages /\ "check" \in Loops
  BY UnlinkFacts DEF Stages, Loops
<1>2. Types' /\ RowsStay
  BY <1>1 DEF RunsInv, Types, RowsStay
<1> DEFINE row == [run[r].mem[p] EXCEPT !.billing = Detach]
<1>3. ASSUME Edited(r, p, row), run[r].mem[p] \in GoodRow, run[r].mem[p] # None
      PROVE  \A q \in Runs : ContextOK(q)' /\ Advances(q)'
  <2>1. /\ row \in GoodRow /\ row.billing = 2 /\ row.token = run[r].mem[p].token
        /\ row.key = run[r].mem[p].key /\ run[r].mem[p].billing \in 0 .. 2
    BY <1>3, EditedRows DEF GoodRow, Rows, Detach
  <2> HIDE DEF row
  <2> QED
    BY <1>1, <1>3, <2>1, BillingEdited
<1>4. ASSUME Skipped(r, p) PROVE \A q \in Runs : ContextOK(q)' /\ Advances(q)'
  BY <1>1, <1>4, SkippedKeeps
<1>5. ASSUME run' = [run EXCEPT ![r] = Blank("ended")]
      PROVE  \A q \in Runs : ContextOK(q)' /\ Advances(q)'
  BY <1>1, <1>2, <1>5, DroppedKeeps
<1>6. \/ Skipped(r, p)
      \/ run' = [run EXCEPT ![r] = Blank("ended")]
      \/ Edited(r, p, row) /\ run[r].mem[p] \in GoodRow /\ run[r].mem[p] # None
  BY UnlinkFacts
<1>7. \A q \in Runs : ContextOK(q)' /\ Advances(q)'
  BY <1>3, <1>4, <1>5, <1>6
<1> QED
  BY <1>2, <1>7 DEF RunsInv

\* What a loop changes in a row but its token.
LEMMA BillingRow ==
    ASSUME NEW row \in GoodRow, NEW b \in {Bound, Detach}
    PROVE  LET new == [row EXCEPT !.billing = b]
           IN  new \in GoodRow /\ new.billing = b /\ new.token = row.token
               /\ new.key = row.key /\ new.oid = row.oid /\ row.billing \in 0 .. 2
<1>1. /\ row \in Rows /\ b \in Unbound .. Detach /\ row.billing \in 0 .. 2
  BY DEF GoodRow, Rows, Bound, Detach, Unbound
<1>2. [row EXCEPT !.billing = b] \in GoodRow
  BY <1>1 DEF GoodRow, Rows
<1> QED
  BY <1>1, <1>2 DEF Rows

\* A project found linked is marked, or the run dies of a missing row.
LEMMA MarkBoundFacts ==
    ASSUME RunsInv, NEW r \in Runs, NEW p \in Projects, MarkBound(r, p)
    PROVE  /\ run[r].stage = "check" /\ run[r].saving = None /\ p \in run[r].found
           /\ UNCHANGED <<exists, linked, keys, rows, official, stale, lost, again>>
           /\ run' \in [Runs -> Context]
           /\ \/ Dropped(r, "ended") /\ run' = [run EXCEPT ![r] = Blank("ended")]
              \/ /\ Edited(r, p, [run[r].mem[p] EXCEPT !.billing = Bound])
                 /\ run[r].mem[p] \in GoodRow /\ run[r].mem[p] # None
                 /\ run[r].mem[p].billing = Unbound
<1>1. run[r].stage = "check" /\ run[r].saving = None
  BY DEF MarkBound, Left
<1>2. run[r].mode # "V3unbind" /\ run[r].mode \in Modes
  BY DEF MarkBound, RunsInv, Types, Context
<1>3. p \in run[r].found /\ (run[r].mem[p] = None \/ run[r].mem[p].billing = Unbound)
  BY <1>2 DEF MarkBound, Left, CheckWork, Modes
<1>4. UNCHANGED <<exists, linked, keys, rows, official, stale, lost, again>>
  BY DEF MarkBound
<1>5. CASE run[r].mem[p] = None
  <2>1. run' = [run EXCEPT ![r] = Blank("ended")] /\ "ended" \in Stages
    BY <1>5 DEF MarkBound, Stages
  <2>2. run' \in [Runs -> Context] /\ Dropped(r, "ended")
    BY <1>1, <2>1, BlankFacts DEF Dropped, Others, RunsInv, Types
  <2> QED
    BY <1>1, <1>3, <1>4, <2>1, <2>2
<1>6. CASE run[r].mem[p] # None
  <2>1. run' = [run EXCEPT ![r] = ToSave(r, p, [run[r].mem[p] EXCEPT !.billing = Bound])]
    BY <1>6 DEF MarkBound
  <2>2. run[r].mem[p] \in GoodRow
    BY <1>6 DEF RunsInv, Types, Context, Copies
  <2>3. [run[r].mem[p] EXCEPT !.billing = Bound] \in GoodRow
    BY <2>2, EditedRows
  <2>4. run' \in [Runs -> Context] /\ Edited(r, p, [run[r].mem[p] EXCEPT !.billing = Bound])
    BY <1>1, <2>1, <2>3, ToSaveFacts DEF RunsInv
  <2> QED
    BY <1>1, <1>3, <1>4, <1>6, <2>2, <2>4
<1> QED
  BY <1>5, <1>6

LEMMA MarkBoundKeeps ==
    ASSUME RunsInv, NEW r \in Runs, NEW p \in Projects, MarkBound(r, p)
    PROVE  RunsInv'
<1>1. /\ run[r].stage = "check" /\ UNCHANGED <<exists, linked, keys, rows, official, stale, lost, again>>
      /\ run' \in [Runs -> Context] /\ "ended" \in Stages /\ "check" \in Loops
  BY MarkBoundFacts DEF Stages, Loops
<1>2. Types' /\ RowsStay
  BY <1>1 DEF RunsInv, Types, RowsStay
<1> DEFINE row == [run[r].mem[p] EXCEPT !.billing = Bound]
<1>3. ASSUME Edited(r, p, row), run[r].mem[p] \in GoodRow, run[r].mem[p] # None,
             run[r].mem[p].billing = Unbound
      PROVE  \A q \in Runs : ContextOK(q)' /\ Advances(q)'
  <2>0. /\ row \in GoodRow /\ row.billing = Bound /\ run[r].mem[p].billing = Unbound
        /\ row.token = run[r].mem[p].token /\ row.key = run[r].mem[p].key
    BY <1>3, BillingRow
  <2>1. run[r].mem[p].billing <= row.billing
    BY <2>0 DEF Bound, Unbound
  <2> HIDE DEF row
  <2> QED
    BY <1>1, <1>3, <2>0, <2>1, BillingEdited
<1>4. ASSUME run' = [run EXCEPT ![r] = Blank("ended")]
      PROVE  \A q \in Runs : ContextOK(q)' /\ Advances(q)'
  BY <1>1, <1>2, <1>4, DroppedKeeps
<1>5. \/ run' = [run EXCEPT ![r] = Blank("ended")]
      \/ /\ Edited(r, p, row) /\ run[r].mem[p] \in GoodRow /\ run[r].mem[p] # None
         /\ run[r].mem[p].billing = Unbound
  BY MarkBoundFacts
<1>6. \A q \in Runs : ContextOK(q)' /\ Advances(q)'
  BY <1>3, <1>4, <1>5
<1> QED
  BY <1>2, <1>6 DEF RunsInv

\* A project is linked, or not.
LEMMA LinkFacts ==
    ASSUME RunsInv, NEW r \in Runs, NEW p \in Projects, Link(r, p)
    PROVE  /\ run[r].stage = "bind" /\ run[r].saving = None /\ p \in run[r].list
           /\ run[r].mem[p] \in GoodRow /\ run[r].mem[p] # None
           /\ run[r].mem[p].billing = Unbound
           /\ UNCHANGED <<exists, keys, rows, official, stale, again>>
           /\ run' \in [Runs -> Context]
           /\ \/ /\ Skipped(r, p)
                 /\ \/ linked' = linked /\ lost' = lost
                    \/ linked' = linked \cup {p} /\ lost' = lost \cup {p}
              \/ /\ Edited(r, p, [run[r].mem[p] EXCEPT !.billing = Bound])
                 /\ linked' = linked \cup {p} /\ lost' = lost
<1>1. p \in Left(r, "bind")
  BY DEF Link
<1>2. /\ run[r].stage = "bind" /\ run[r].saving = None
      /\ run[r].mem[p] \in GoodRow /\ run[r].mem[p] # None
  BY <1>1, WorkHasRows
<1>3. p \in BindWork(r)
  BY <1>1 DEF Left
<1>4. /\ p \in run[r].list /\ run[r].mem[p].billing = Unbound
      /\ run[r].fails <= FailLimit
  BY <1>3 DEF BindWork
<1> DEFINE row == [run[r].mem[p] EXCEPT !.billing = Bound]
<1>5. PICK reply \in BindProjectToBilling(p) :
        /\ linked' = reply.now
        /\ run' = [run EXCEPT ![r] =
              IF reply.ok THEN ToSave(r, p, row)
              ELSE [Tried(r, p) EXCEPT !.fails = IF run[r].mode = "V2" THEN 0 ELSE @ + 1]]
        /\ lost' = IF ~reply.ok /\ linked' # linked THEN lost \cup {p} ELSE lost
  BY DEF Link
<1>6. \/ reply.ok = TRUE /\ reply.now = linked \cup {p}
      \/ reply.ok = FALSE /\ reply.now = linked
      \/ reply.ok = FALSE /\ reply.now = linked \cup {p}
  BY DEF BindProjectToBilling, Replies
<1>7. UNCHANGED <<exists, keys, rows, official, stale, again>>
  BY DEF Link
<1>8. CASE reply.ok = TRUE
  <2>1. run' = [run EXCEPT ![r] = ToSave(r, p, row)] /\ row \in GoodRow
    BY <1>2, <1>5, <1>8, EditedRows
  <2>2. run' \in [Runs -> Context] /\ Edited(r, p, row)
    BY <1>2, <2>1, ToSaveFacts DEF RunsInv
  <2>3. linked' = linked \cup {p} /\ lost' = lost
    BY <1>5, <1>6, <1>8
  <2> QED
    BY <1>2, <1>4, <1>7, <2>2, <2>3
<1>9. CASE reply.ok = FALSE
  <2>1. run[r].fails \in Nat /\ run[r] \in Context
    BY DEF RunsInv, Types, Context
  <2>2. PICK n \in Nat : /\ n <= FailLimit + 1
                         /\ run' = [run EXCEPT ![r] = [Tried(r, p) EXCEPT !.fails = n]]
    <3>1. Tried(r, p).fails = run[r].fails
      BY <2>1 DEF Tried, Context
    <3> DEFINE n == IF run[r].mode = "V2" THEN 0 ELSE run[r].fails + 1
    <3>2. run' = [run EXCEPT ![r] = [Tried(r, p) EXCEPT !.fails = n]]
      BY <1>5, <1>9, <3>1
    <3>3. n \in Nat /\ n <= FailLimit + 1
      BY <1>4, <2>1, ProcessConstants
    <3> HIDE DEF n
    <3> QED
      BY <3>2, <3>3
  <2>3. run' \in [Runs -> Context] /\ Skipped(r, p)
    BY <1>2, <2>2, SkippedFailing
  <2>4. \/ linked' = linked /\ lost' = lost
        \/ linked' = linked \cup {p} /\ lost' = lost \cup {p}
    BY <1>5, <1>6, <1>9
  <2> QED
    BY <1>2, <1>4, <1>7, <2>3, <2>4
<1> QED
  BY <1>6, <1>8, <1>9

LEMMA LinkKeeps ==
    ASSUME RunsInv, NEW r \in Runs, NEW p \in Projects, Link(r, p)
    PROVE  RunsInv'
<1>1. /\ run[r].stage = "bind" /\ UNCHANGED <<exists, keys, rows, official, stale, again>>
      /\ run' \in [Runs -> Context] /\ "bind" \in Loops /\ p \in run[r].list
      /\ run[r].mem[p] \in GoodRow /\ run[r].mem[p] # None /\ run[r].mem[p].billing = Unbound
      /\ linked' = linked \/ linked' = linked \cup {p}
      /\ lost' = lost \/ lost' = lost \cup {p}
  BY LinkFacts DEF Loops
<1>2. Types' /\ RowsStay
  <2>1. p \in exists /\ exists \subseteq Projects /\ linked \subseteq exists
    BY <1>1 DEF RunsInv, ContextOK, Types
  <2> QED
    BY <1>1, <2>1 DEF RunsInv, Types, RowsStay
<1> DEFINE row == [run[r].mem[p] EXCEPT !.billing = Bound]
<1>3. ASSUME Edited(r, p, row) PROVE \A q \in Runs : ContextOK(q)' /\ Advances(q)'
  <2>0. /\ row \in GoodRow /\ row.billing = Bound /\ run[r].mem[p].billing = Unbound
        /\ row.token = run[r].mem[p].token /\ row.key = run[r].mem[p].key
    BY <1>1, BillingRow
  <2>1. run[r].mem[p].billing <= row.billing
    BY <2>0 DEF Bound, Unbound
  <2> HIDE DEF row
  <2> QED
    BY <1>1, <1>3, <2>0, <2>1, BillingEdited
<1>4. ASSUME Skipped(r, p) PROVE \A q \in Runs : ContextOK(q)' /\ Advances(q)'
  BY <1>1, <1>4, SkippedKeeps
<1>5. Skipped(r, p) \/ Edited(r, p, row)
  BY LinkFacts
<1>6. \A q \in Runs : ContextOK(q)' /\ Advances(q)'
  BY <1>3, <1>4, <1>5
<1> QED
  BY <1>2, <1>6 DEF RunsInv

\* A key is put on sale, or not.
LEMMA InsertOfficialFacts ==
    ASSUME RunsInv, NEW r \in Runs, NEW p \in Projects, InsertOfficial(r, p)
    PROVE  /\ run[r].stage = "sync" /\ run[r].saving = None /\ p \notin run[r].tried
           /\ p \notin run[r].sold
           /\ run[r].mem[p] \in GoodRow /\ run[r].mem[p] # None
           /\ run[r].mem[p].token = Got /\ run[r].mem[p].key \in Givers
           /\ UNCHANGED <<exists, linked, keys, rows, stale, lost, again>>
           /\ run' \in [Runs -> Context]
           /\ \/ Skipped(r, p) /\ official' = official
              \/ /\ Edited(r, p, [run[r].mem[p] EXCEPT !.oid = r])
                 /\ official' = official \cup {[project |-> p, key |-> run[r].mem[p].key, by |-> r]}
<1>1. p \in Left(r, "sync")
  BY DEF InsertOfficial
<1>2. /\ run[r].stage = "sync" /\ run[r].saving = None /\ p \notin run[r].tried
      /\ run[r].mem[p] \in GoodRow /\ run[r].mem[p] # None
  BY <1>1, WorkHasRows
<1>3. p \in SyncWork(r)
  BY <1>1 DEF Left
<1>4. run[r].mem[p].token = Got /\ run[r].mem[p].key # None /\ p \notin run[r].sold
  BY <1>3 DEF SyncWork
<1>5. run[r].mem[p].key \in Givers
  BY <1>2, <1>4 DEF GoodRow, Rows, Keys, Givers
<1> DEFINE row == [run[r].mem[p] EXCEPT !.oid = r]
<1>6. row \in GoodRow
  BY <1>2, EditedRows
<1>7. UNCHANGED <<exists, linked, keys, rows, stale, lost, again>>
  BY DEF InsertOfficial
<1>8. \/ /\ official' = official \cup {[project |-> p, key |-> run[r].mem[p].key, by |-> r]}
         /\ run' = [run EXCEPT ![r] = ToSave(r, p, row)]
      \/ run' = [run EXCEPT ![r] = Tried(r, p)] /\ official' = official
  BY DEF InsertOfficial
<1>9. run' = [run EXCEPT ![r] = ToSave(r, p, row)] =>
        run' \in [Runs -> Context] /\ Edited(r, p, row)
  BY <1>2, <1>6, ToSaveFacts DEF RunsInv
<1>10. run' = [run EXCEPT ![r] = Tried(r, p)] => run' \in [Runs -> Context] /\ Skipped(r, p)
  BY <1>2, SkippedFacts
<1> QED
  BY <1>2, <1>4, <1>5, <1>7, <1>8, <1>9, <1>10

LEMMA InsertOfficialKeeps ==
    ASSUME RunsInv, NEW r \in Runs, NEW p \in Projects, InsertOfficial(r, p)
    PROVE  RunsInv'
<1>1. /\ run[r].stage = "sync" /\ UNCHANGED <<exists, linked, keys, rows, stale, lost, again>>
      /\ run' \in [Runs -> Context] /\ "sync" \in Loops /\ run[r].mem[p].key \in Givers
      /\ run[r].mem[p] \in GoodRow /\ run[r].mem[p] # None
  BY InsertOfficialFacts DEF Loops
<1>2. Types' /\ RowsStay
  <2>1. \/ official' = official
        \/ official' = official \cup {[project |-> p, key |-> run[r].mem[p].key, by |-> r]}
    BY InsertOfficialFacts
  <2>2. official \subseteq [project : Projects, key : Givers, by : Givers] /\ r \in Givers
    BY DEF RunsInv, Types, Givers
  <2>3. official' \subseteq [project : Projects, key : Givers, by : Givers]
    BY <1>1, <2>1, <2>2
  <2> QED
    BY <1>1, <2>3 DEF RunsInv, Types, RowsStay
<1> DEFINE row == [run[r].mem[p] EXCEPT !.oid = r]
<1>3. ASSUME Edited(r, p, row) PROVE \A q \in Runs : ContextOK(q)' /\ Advances(q)'
  <2>1. /\ row \in GoodRow /\ row.billing = run[r].mem[p].billing
        /\ row.token = run[r].mem[p].token /\ row.key = run[r].mem[p].key
    BY <1>1, EditedRows DEF GoodRow, Rows
  <2>0. run[r].mem[p].billing \in 0 .. 2
    BY <1>1, EditedRows
  <2>2. run[r].mem[p].billing <= row.billing
    BY <2>0, <2>1
  <2> HIDE DEF row
  <2> QED
    BY <1>1, <1>3, <2>1, <2>2, BillingEdited
<1>4. ASSUME Skipped(r, p) PROVE \A q \in Runs : ContextOK(q)' /\ Advances(q)'
  BY <1>1, <1>4, SkippedKeeps
<1>5. Skipped(r, p) \/ Edited(r, p, row)
  BY InsertOfficialFacts
<1>6. \A q \in Runs : ContextOK(q)' /\ Advances(q)'
  BY <1>3, <1>4, <1>5
<1> QED
  BY <1>2, <1>6 DEF RunsInv

\* The copy of a row is written, or the statement fails.
LEMMA SaveFacts ==
    ASSUME RunsInv, NEW r \in Runs, NEW p, p = run[r].saving, Save(r)
    PROVE  /\ p \in Projects
           /\ run[r].mem[p] \in GoodRow /\ run[r].base[p] \in GoodRow /\ rows[p] \in GoodRow
           /\ run[r].mem[p] # None /\ run[r].base[p] # None /\ rows[p] # None
           /\ run[r].stage \in Loops
           /\ UNCHANGED <<exists, linked, keys, official>>
           /\ run' \in [Runs -> Context] /\ Others(r)
           /\ run'[r].saving = None /\ run'[r].mem = run[r].mem
           /\ run'[r].tried = run[r].tried /\ run'[r].sold = run[r].sold
           /\ run'[r].stage = run[r].stage /\ run'[r].mode = run[r].mode
           /\ run'[r].list = run[r].list /\ run'[r].fresh = run[r].fresh
           /\ run'[r].found = run[r].found /\ run'[r].fails = run[r].fails
           /\ run[r].bound \subseteq run'[r].bound
           /\ \/ /\ rows' = [rows EXCEPT ![p] = run[r].mem[p]] /\ lost' = lost
                 /\ run'[r].base = [run[r].base EXCEPT ![p] = run[r].mem[p]]
                 /\ run'[r].bound \subseteq
                      run[r].bound \cup IF run[r].stage = "bind" THEN {p} ELSE {}
                 /\ stale' = IF Overwrites(run[r].mem[p], run[r].base[p], rows[p])
                             THEN stale \cup {p} ELSE stale
                 /\ again' = IF Repeats(run[r].mem[p], run[r].base[p], rows[p])
                             THEN again \cup {p} ELSE again
              \/ /\ rows' = rows /\ stale' = stale /\ again' = again /\ lost' = lost \cup {p}
                 /\ run'[r].base = run[r].base /\ run'[r].bound = run[r].bound
<1> DEFINE Good ==
         /\ rows' = [rows EXCEPT ![p] = run[r].mem[p]] /\ lost' = lost
         /\ stale' = IF Overwrites(run[r].mem[p], run[r].base[p], rows[p])
                     THEN stale \cup {p} ELSE stale
         /\ again' = IF Repeats(run[r].mem[p], run[r].base[p], rows[p])
                     THEN again \cup {p} ELSE again
         /\ run' = [run EXCEPT ![r].saving = None, ![r].base[p] = run[r].mem[p],
                       ![r].bound = IF run[r].stage = "bind" THEN @ \cup {p} ELSE @]
       Bad ==
         /\ rows' = rows /\ stale' = stale /\ again' = again /\ lost' = lost \cup {p}
         /\ run' = [run EXCEPT ![r].saving = None]
<1>1. run[r] \in Context /\ ContextOK(r) /\ run \in [Runs -> Context] /\ rows \in Copies
  BY DEF RunsInv, Types
<1>2. p # None
  BY DEF Save
<1>3. p \in Projects
  BY <1>1, <1>2 DEF Context
<1>4. /\ run[r].mem[p] # None /\ run[r].base[p] # None /\ rows[p] # None
      /\ run[r].stage \in Loops
  BY <1>1, <1>2, <1>3 DEF ContextOK
<1>5. run[r].mem[p] \in GoodRow /\ run[r].base[p] \in GoodRow /\ rows[p] \in GoodRow
  BY <1>1, <1>3, <1>4 DEF Context, Copies
<1>6. UNCHANGED <<exists, linked, keys, official>>
  BY DEF Save
<1>7. CASE Good
  <2> DEFINE b == [run[r].base EXCEPT ![p] = run[r].mem[p]]
             d == IF run[r].stage = "bind" THEN run[r].bound \cup {p} ELSE run[r].bound
             c == [run[r] EXCEPT !.saving = None, !.base = b, !.bound = d]
  <2>1. b \in Copies /\ d \in SUBSET Projects
    BY <1>1, <1>3, <1>5 DEF Context, Copies
  <2>2. run' = [run EXCEPT ![r] = c]
    BY <1>1, <1>7 DEF Context
  <2> HIDE DEF b
  <2>3. /\ c \in Context /\ c.saving = None /\ c.mem = run[r].mem /\ c.tried = run[r].tried
        /\ c.sold = run[r].sold /\ c.stage = run[r].stage /\ c.mode = run[r].mode
        /\ c.list = run[r].list /\ c.fresh = run[r].fresh /\ c.found = run[r].found
        /\ c.fails = run[r].fails /\ c.base = b /\ c.bound = d
    <3> HIDE DEF d
    <3> QED
      BY <1>1, <2>1 DEF Context
  <2> HIDE DEF c
  <2>4. run' \in [Runs -> Context] /\ run'[r] = c /\ Others(r)
    BY <1>1, <2>2, <2>3 DEF Others
  <2>5. /\ run[r].bound \subseteq d
        /\ d \subseteq run[r].bound \cup IF run[r].stage = "bind" THEN {p} ELSE {}
    OBVIOUS
  <2> HIDE DEF d
  <2>6. run'[r].base = [run[r].base EXCEPT ![p] = run[r].mem[p]]
    BY <2>3, <2>4 DEF b
  <2> QED
    BY <1>3, <1>4, <1>5, <1>6, <1>7, <2>3, <2>4, <2>5, <2>6
<1>8. CASE Bad
  <2>1. run' \in [Runs -> Context] /\ Others(r)
    BY <1>1, <1>8 DEF Context, Others
  <2>2. run'[r] = [run[r] EXCEPT !.saving = None]
    BY <1>1, <1>8
  <2> QED
    BY <1>1, <1>3, <1>4, <1>5, <1>6, <1>8, <2>1, <2>2 DEF Context
<1>9. Good \/ Bad
  BY Zenon DEF Save
<1> HIDE DEF Good, Bad
<1> QED
  BY <1>7, <1>8, <1>9

LEMMA SaveKeeps == ASSUME RunsInv, NEW r \in Runs, Save(r) PROVE RunsInv'
<1> DEFINE p == run[r].saving
<1>1. /\ p \in Projects
      /\ run[r].mem[p] \in GoodRow /\ run[r].base[p] \in GoodRow /\ rows[p] \in GoodRow
      /\ run[r].mem[p] # None /\ run[r].base[p] # None /\ rows[p] # None
      /\ UNCHANGED <<exists, linked, keys, official>>
      /\ run' \in [Runs -> Context] /\ Others(r)
  <2> SUFFICES ASSUME NEW s, s = run[r].saving
               PROVE  /\ s \in Projects
                      /\ run[r].mem[s] \in GoodRow /\ run[r].base[s] \in GoodRow
                      /\ rows[s] \in GoodRow
                      /\ run[r].mem[s] # None /\ run[r].base[s] # None /\ rows[s] # None
                      /\ UNCHANGED <<exists, linked, keys, official>>
                      /\ run' \in [Runs -> Context] /\ Others(r)
    OBVIOUS
  <2>1. /\ s \in Projects /\ run[r].mem[s] \in GoodRow /\ run[r].base[s] \in GoodRow
        /\ rows[s] \in GoodRow
    BY SaveFacts
  <2>2. run[r].mem[s] # None /\ run[r].base[s] # None /\ rows[s] # None
    BY ZenonT(40), SaveFacts
  <2>3. UNCHANGED <<exists, linked, keys, official>>
    BY SaveFacts
  <2>4. run' \in [Runs -> Context] /\ Others(r)
    BY SaveFacts
  <2> QED
    BY <2>1, <2>2, <2>3, <2>4
<1>0. \/ /\ rows' = [rows EXCEPT ![p] = run[r].mem[p]] /\ lost' = lost
         /\ stale' = IF Overwrites(run[r].mem[p], run[r].base[p], rows[p])
                     THEN stale \cup {p} ELSE stale
         /\ again' = IF Repeats(run[r].mem[p], run[r].base[p], rows[p])
                     THEN again \cup {p} ELSE again
      \/ rows' = rows /\ stale' = stale /\ again' = again /\ lost' = lost \cup {p}
  BY Zenon DEF Save
<1>2. Types'
  <2>1. /\ stale' = stale \/ stale' = stale \cup {p}
        /\ again' = again \/ again' = again \cup {p}
        /\ lost' = lost \/ lost' = lost \cup {p}
        /\ rows' = rows \/ rows' = [rows EXCEPT ![p] = run[r].mem[p]]
    BY <1>0
  <2>2. rows' \in Copies
    BY <1>1, <2>1 DEF RunsInv, Types, Copies
  <2> QED
    BY <1>1, <2>1, <2>2 DEF RunsInv, Types
<1>3. RowsStay
  <2>1. rows' = rows \/ rows' = [rows EXCEPT ![p] = run[r].mem[p]]
    BY <1>0
  <2> QED
    BY <1>1, <2>1 DEF RowsStay, RunsInv, Types, Copies
<1>4. run[r] \in Context /\ ContextOK(r) /\ Advances(r)
  BY DEF RunsInv, Types
<1>5. /\ run'[r].saving = None /\ run'[r].mem = run[r].mem
      /\ run'[r].stage = run[r].stage /\ run'[r].mode = run[r].mode
      /\ run'[r].list = run[r].list /\ run'[r].fresh = run[r].fresh
      /\ run'[r].found = run[r].found /\ run'[r].fails = run[r].fails
      /\ run[r].bound \subseteq run'[r].bound /\ run[r].stage \in Loops
      /\ run'[r].bound \subseteq run[r].bound \cup IF run[r].stage = "bind" THEN {p} ELSE {}
      /\ \/ run'[r].base = run[r].base
         \/ run'[r].base = [run[r].base EXCEPT ![p] = run[r].mem[p]]
  BY SaveFacts
<1> HIDE DEF p
<1>6. \A q \in Projects : \/ run'[r].base[q] = run[r].base[q]
                          \/ q = p /\ run'[r].base[q] = run[r].mem[p]
  BY <1>1, <1>4, <1>5 DEF Context, Copies
<1>7. ContextOK(r)'
  <2>1. \A q \in Projects : run'[r].mem[q] = None <=> run'[r].base[q] = None
    BY <1>1, <1>4, <1>5, <1>6 DEF ContextOK
  <2>2. \A q \in Projects : run'[r].base[q] # None => rows'[q] # None
    BY <1>1, <1>3, <1>4, <1>6 DEF ContextOK, RowsStay
  <2>3. run'[r].bound \subseteq run[r].list /\ \A q \in run'[r].bound : run[r].mem[q] # None
    <3>1. p # None /\ p = run[r].saving
      BY <1>1, ProcessConstants DEF p
    <3> QED
      BY <1>1, <1>4, <1>5, <3>1 DEF ContextOK
  <2>4. run'[r].stage # "idle"
    BY <1>5 DEF Loops
  <2> QED
    BY <1>1, <1>4, <1>5, <2>1, <2>2, <2>3, <2>4 DEF ContextOK
<1>8. Advances(r)'
  <2> SUFFICES ASSUME NEW q \in Projects, run'[r].base[q] # None PROVE
        /\ run'[r].base[q].billing <= run[r].mem[q].billing
        /\ run'[r].base[q].token <= run[r].mem[q].token
        /\ run[r].mem[q].key # run'[r].base[q].key => run'[r].base[q].token < Got
        /\ run'[r].base[q].token = CreateFail /\ run[r].mem[q].token = Got =>
               run[r].mode # "V2" /\ q \in run'[r].bound
    BY <1>5 DEF Advances
  <2>1. CASE run'[r].base[q] = run[r].base[q]
    BY <1>4, <1>5, <2>1 DEF Advances
  <2>2. CASE q = p /\ run'[r].base[q] = run[r].mem[p]
    <3>1. run[r].mem[p].billing \in 0 .. 2 /\ run[r].mem[p].token \in 0 .. 3
      BY <1>1, EditedRows
    <3> QED
      BY <2>2, <3>1 DEF CreateFail, Got
  <2> QED
    BY <1>6, <2>1, <2>2
<1> QED
  BY <1>1, <1>2, <1>3, <1>7, <1>8, OthersKeep DEF RunsInv

\* What ends a run, and the requests that run no loop.
LEMMA GiveUpFacts ==
    ASSUME RunsInv, NEW r \in Runs, GiveUp(r)
    PROVE  /\ Dropped(r, "ended") /\ run' = [run EXCEPT ![r] = Blank("ended")]
           /\ run' \in [Runs -> Context]
           /\ UNCHANGED <<exists, linked, keys, rows, official, stale, lost, again>>
<1>1. run[r] \in Context /\ ContextOK(r) /\ run \in [Runs -> Context] /\ "ended" \in Stages
  BY DEF RunsInv, Types, Stages
<1>2. run[r].saving = None
  BY <1>1 DEF GiveUp, ContextOK, Loops
<1>3. /\ run' = [run EXCEPT ![r] = Blank("ended")]
      /\ UNCHANGED <<exists, linked, keys, rows, official, stale, lost, again>>
  BY DEF GiveUp
<1> QED
  BY <1>1, <1>2, <1>3, BlankFacts DEF Dropped, Others

LEMMA GiveUpKeeps == ASSUME RunsInv, NEW r \in Runs, GiveUp(r) PROVE RunsInv'
<1>1. /\ run' = [run EXCEPT ![r] = Blank("ended")] /\ run' \in [Runs -> Context]
      /\ UNCHANGED <<exists, linked, keys, rows, official, stale, lost, again>>
  BY GiveUpFacts
<1>2. RowsStay /\ "ended" \in Stages
  BY <1>1 DEF RowsStay, Stages
<1>3. \A q \in Runs : ContextOK(q)' /\ Advances(q)'
  BY <1>1, <1>2, DroppedKeeps
<1> QED
  BY <1>1, <1>3 DEF RunsInv, Types

LEMMA CrashFacts ==
    ASSUME RunsInv, Crash
    PROVE  /\ run' \in [Runs -> Context]
           /\ \A q \in Runs : (run'[q] = run[q] /\ ~Active(q)) \/ run'[q] = Blank("ended")
           /\ \A q \in Runs : ~Active(q) => run[q].saving = None
           /\ UNCHANGED <<exists, linked, keys, rows, official, stale, again>>
           /\ lost' = lost \cup {p \in Projects : Saving(p)}
<1>1. Blank("ended") \in Context /\ run \in [Runs -> Context]
  BY BlankFacts DEF RunsInv, Types, Stages
<1>2. run' = [r \in Runs |-> IF Active(r) THEN Blank("ended") ELSE run[r]]
  BY DEF Crash
<1>3. run' \in [Runs -> Context]
  BY <1>1, <1>2
<1>4. \A q \in Runs : (run'[q] = run[q] /\ ~Active(q)) \/ run'[q] = Blank("ended")
  BY <1>2
<1>5. \A q \in Runs : ~Active(q) => run[q].saving = None
  BY DEF Active, RunsInv, ContextOK, Loops
<1>6. /\ UNCHANGED <<exists, linked, keys, rows, official, stale, again>>
      /\ lost' = lost \cup {p \in Projects : Saving(p)}
  BY DEF Crash
<1> QED
  BY <1>3, <1>4, <1>5, <1>6

LEMMA CrashKeeps == ASSUME RunsInv, Crash PROVE RunsInv'
<1>1. /\ run' \in [Runs -> Context] /\ lost' \subseteq Projects
      /\ \A q \in Runs : run'[q] = run[q] \/ run'[q] = Blank("ended")
      /\ UNCHANGED <<exists, linked, keys, rows, official, stale, again>>
  BY CrashFacts DEF RunsInv, Types
<1>2. ASSUME NEW q \in Runs PROVE ContextOK(q)' /\ Advances(q)'
  <2>1. CASE run'[q] = run[q]
    BY <1>1, <2>1 DEF RunsInv, ContextOK, Advances
  <2>2. CASE run'[q] = Blank("ended")
    BY <2>2, BlankFacts, ProcessConstants DEF ContextOK, Advances, Stages
  <2> QED
    BY <1>1, <2>1, <2>2
<1> QED
  BY <1>1, <1>2 DEF RunsInv, Types

LEMMA SetTokenInvalidFacts ==
    ASSUME RunsInv, NEW p \in Projects, SetTokenInvalid(p)
    PROVE  /\ rows[p] \in GoodRow /\ rows[p] # None
           /\ rows' = [rows EXCEPT ![p] = [rows[p] EXCEPT !.token = Invalid]]
           /\ [rows[p] EXCEPT !.token = Invalid] \in GoodRow /\ rows' \in Copies
           /\ UNCHANGED <<exists, linked, keys, official, run, stale, lost, again>>
<1>1. rows[p] \in GoodRow /\ rows[p] # None /\ rows \in Copies
  BY DEF SetTokenInvalid, RunsInv, Types, Copies
<1>2. [rows[p] EXCEPT !.token = Invalid] \in GoodRow
  BY <1>1 DEF GoodRow, Rows, NoToken, Invalid, Got
<1>3. /\ rows' = [rows EXCEPT ![p] = [rows[p] EXCEPT !.token = Invalid]]
      /\ UNCHANGED <<exists, linked, keys, official, run, stale, lost, again>>
  BY <1>1 DEF SetTokenInvalid, Copies
<1> QED
  BY <1>1, <1>2, <1>3 DEF Copies

LEMMA SetTokenInvalidKeeps ==
    ASSUME RunsInv, NEW p \in Projects, SetTokenInvalid(p)
    PROVE  RunsInv'
<1>1. /\ rows' = [rows EXCEPT ![p] = [rows[p] EXCEPT !.token = Invalid]] /\ rows' \in Copies
      /\ [rows[p] EXCEPT !.token = Invalid] # None
      /\ UNCHANGED <<exists, linked, keys, official, run, stale, lost, again>>
  BY SetTokenInvalidFacts, PastRowsAssumption DEF GoodRow
<1>2. RowsStay
  BY <1>1 DEF RowsStay, RunsInv, Types, Copies
<1>3. \A q \in Runs : ContextOK(q)' /\ Advances(q)'
  BY <1>1, <1>2 DEF RunsInv, ContextOK, Advances, RowsStay
<1> QED
  BY <1>1, <1>3 DEF RunsInv, Types

-----------------------------------------------------------------------------
(***************************************************************************)
(* The theorems about the runs.                                            *)
(***************************************************************************)
LEMMA NextRuns == RunsInv /\ [Next]_vars => RunsInv'
<1> SUFFICES ASSUME RunsInv, [Next]_vars PROVE RunsInv'
  OBVIOUS
<1>1. CASE UNCHANGED vars
  BY <1>1 DEF vars, RunsInv, Types, ContextOK, Advances
<1>2. ASSUME NEW r \in Runs, Moves(r) PROVE RunsInv'
  BY <1>2, MovesKeep
<1>3. ASSUME NEW r \in Runs, LoadRows(r) \/ ReadValid(r) PROVE RunsInv'
  BY <1>3, ReadsKeepInv
<1>4. ASSUME NEW r \in Runs, InsertRows(r) PROVE RunsInv'
  BY <1>4, InsertRowsKeep
<1>5. ASSUME NEW r \in Runs, Save(r) PROVE RunsInv'
  BY <1>5, SaveKeeps
<1>6. ASSUME NEW r \in Runs, EndLoop(r) PROVE RunsInv'
  BY <1>6, EndLoopKeeps
<1>7. ASSUME NEW r \in Runs, GiveUp(r) PROVE RunsInv'
  BY <1>7, GiveUpKeeps
<1>8. ASSUME NEW r \in Runs, NEW p \in Projects, CreateKey(r, p) PROVE RunsInv'
  BY <1>8, CreateKeyKeeps
<1>9. ASSUME NEW r \in Runs, NEW p \in Projects, Unlink(r, p) PROVE RunsInv'
  BY <1>9, UnlinkKeeps
<1>10. ASSUME NEW r \in Runs, NEW p \in Projects, MarkBound(r, p) PROVE RunsInv'
  BY <1>10, MarkBoundKeeps
<1>11. ASSUME NEW r \in Runs, NEW p \in Projects, Link(r, p) PROVE RunsInv'
  BY <1>11, LinkKeeps
<1>12. ASSUME NEW r \in Runs, NEW p \in Projects, InsertOfficial(r, p) PROVE RunsInv'
  BY <1>12, InsertOfficialKeeps
<1>13. CASE Crash
  BY <1>13, CrashKeeps
<1>14. ASSUME NEW p \in Projects, SetTokenInvalid(p) PROVE RunsInv'
  BY <1>14, SetTokenInvalidKeeps
<1> QED
  BY <1>1, <1>2, <1>3, <1>4, <1>5, <1>6, <1>7, <1>8, <1>9, <1>10, <1>11, <1>12, <1>13, <1>14
  DEF Next, Moves

\* What a run holds in memory follows from rows it has read or written, and advances them.
THEOREM RunsKeepTheirRows == Spec => []RunsInv
<1> QED
  BY InitRuns, NextRuns, PTL DEF Spec

\* The types of the model, among them that a row a run is about to save is there.
THEOREM PostLoginTypeCorrect == Spec => []TypeOK
<1>1. RunsInv => TypeOK
  <2> SUFFICES ASSUME RunsInv PROVE TypeOK
    OBVIOUS
  <2>1. Copies \subseteq [Projects -> Rows \cup {None}]
    BY DEF Copies, GoodRow
  <2>2. keys \in [Projects -> SUBSET (Keys \ {None})] /\ official \subseteq Official
    <3>1. Givers \subseteq Keys \ {None}
      BY ProcessConstants DEF Givers, Keys
    <3> QED
      BY <3>1 DEF RunsInv, Types, Official, Keys, Givers
  <2>3. ASSUME NEW r \in Runs PROVE
        /\ run[r].stage \in Stages /\ run[r].mode \in Modes
        /\ run[r].list \subseteq exists /\ run[r].fresh \subseteq run[r].list
        /\ run[r].found \subseteq run[r].list /\ run[r].bound \subseteq run[r].list
        /\ run[r].mem \in [Projects -> Rows \cup {None}]
        /\ run[r].base \in [Projects -> Rows \cup {None}]
        /\ run[r].fails \in 0 .. FailLimit + 1
        /\ run[r].saving \in Projects \cup {None}
        /\ run[r].saving # None => /\ run[r].mem[run[r].saving] # None
                                   /\ run[r].base[run[r].saving] # None
                                   /\ rows[run[r].saving] # None
    <3>1. run[r] \in Context /\ ContextOK(r)
      BY DEF RunsInv, Types
    <3>2. run[r].fails \in Nat /\ run[r].fails <= FailLimit + 1
      BY <3>1 DEF Context, ContextOK
    <3>3. run[r].fails \in 0 .. FailLimit + 1
      BY <3>2, ProcessConstants
    <3> QED
      BY <2>1, <3>1, <3>3 DEF Context, ContextOK
  <2> QED
    BY <2>1, <2>2, <2>3 DEF TypeOK, RunsInv, Types
<1> QED
  BY <1>1, RunsKeepTheirRows, PTL

\* A row changes when its token is set invalid, and when a run saves its copy.
RowSaved(p, r) ==
    /\ run[r].saving = p /\ Save(r)
    /\ rows' = [rows EXCEPT ![p] = run[r].mem[p]]
    /\ stale' = IF Overwrites(run[r].mem[p], run[r].base[p], rows[p])
                THEN stale \cup {p} ELSE stale

LEMMA RowsChange ==
    ASSUME RunsInv, [Next]_vars, NEW p \in Projects, rows[p] # None
    PROVE  \/ rows'[p] = rows[p]
           \/ /\ rows[p] \in GoodRow
              /\ rows'[p] = [rows[p] EXCEPT !.token = Invalid]
           \/ \E r \in Runs : RowSaved(p, r)
<1>1. CASE UNCHANGED vars
  BY <1>1 DEF vars
<1>2. ASSUME NEW r \in Runs, Moves(r) PROVE rows'[p] = rows[p]
  BY <1>2, MovesFacts
<1>3. ASSUME NEW r \in Runs, LoadRows(r) \/ ReadValid(r) PROVE rows'[p] = rows[p]
  BY <1>3, ReadFacts
<1>4. ASSUME NEW r \in Runs, InsertRows(r) PROVE rows'[p] = rows[p]
  BY <1>4, InsertRowsFacts
<1>5. ASSUME NEW r \in Runs, Save(r)
      PROVE  rows'[p] = rows[p] \/ RowSaved(p, r)
  <2> DEFINE s == run[r].saving
  <2>1. s \in Projects
    BY <1>5, SaveFacts
  <2>2. \/ /\ rows' = [rows EXCEPT ![s] = run[r].mem[s]]
           /\ stale' = IF Overwrites(run[r].mem[s], run[r].base[s], rows[s])
                       THEN stale \cup {s} ELSE stale
        \/ rows' = rows
    BY ZenonT(40), <1>5, SaveFacts
  <2>3. CASE s = p
    BY <1>5, <2>2, <2>3 DEF RowSaved
  <2>4. CASE s # p
    BY <2>2, <2>4 DEF RunsInv, Types, Copies
  <2> QED
    BY <2>3, <2>4
<1>6. ASSUME NEW r \in Runs, EndLoop(r) PROVE rows'[p] = rows[p]
  BY <1>6, EndLoopFacts
<1>7. ASSUME NEW r \in Runs, GiveUp(r) PROVE rows'[p] = rows[p]
  BY <1>7, GiveUpFacts
<1>8. ASSUME NEW r \in Runs, NEW q \in Projects,
             \/ CreateKey(r, q) \/ Unlink(r, q) \/ MarkBound(r, q) \/ Link(r, q)
             \/ InsertOfficial(r, q)
      PROVE  rows'[p] = rows[p]
  BY <1>8 DEF CreateKey, Unlink, MarkBound, Link, InsertOfficial
<1>9. CASE Crash
  BY <1>9, CrashFacts
<1>10. ASSUME NEW q \in Projects, SetTokenInvalid(q)
       PROVE  \/ rows'[p] = rows[p]
              \/ rows[p] \in GoodRow /\ rows'[p] = [rows[p] EXCEPT !.token = Invalid]
  BY <1>10, SetTokenInvalidFacts DEF RunsInv, Types, Copies
<1> QED
  BY <1>1, <1>2, <1>3, <1>4, <1>5, <1>6, <1>7, <1>8, <1>9, <1>10 DEF Next, Moves

\* What a save that undoes no change does to a row.
LEMMA SavedForward ==
    ASSUME RunsInv, NEW p \in Projects, p \notin stale', NEW r \in Runs, RowSaved(p, r)
    PROVE  /\ rows[p].billing = Detach => rows'[p].billing = Detach
           /\ rows[p].token = Invalid => rows'[p].token = Invalid
           /\ rows[p].token = CreateFail /\ rows'[p].token = Got =>
                  run[r].mode # "V2" /\ p \in run[r].bound
<1>1. /\ run[r].mem[p] \in GoodRow /\ run[r].base[p] \in GoodRow /\ rows[p] \in GoodRow
      /\ run[r].base[p] # None
  BY SaveFacts DEF RowSaved
<1>2. rows'[p] = run[r].mem[p]
  BY DEF RowSaved, RunsInv, Types, Copies
<1>3. ~Overwrites(run[r].mem[p], run[r].base[p], rows[p])
  BY DEF RowSaved
<1>4. /\ rows[p].billing = run[r].base[p].billing \/ run[r].mem[p].billing = rows[p].billing
      /\ rows[p].token = run[r].base[p].token \/ run[r].mem[p].token = rows[p].token
  BY <1>1, <1>3 DEF Overwrites, GoodRow, Rows
<1>5. /\ run[r].base[p].billing <= run[r].mem[p].billing
      /\ run[r].base[p].token <= run[r].mem[p].token
      /\ run[r].base[p].token = CreateFail /\ run[r].mem[p].token = Got =>
               run[r].mode # "V2" /\ p \in run[r].bound
  BY <1>1 DEF RunsInv, Advances
<1>6. /\ run[r].mem[p].billing \in 0 .. 2 /\ run[r].mem[p].token \in 0 .. 3
      /\ run[r].base[p].billing \in 0 .. 2 /\ run[r].base[p].token \in 0 .. 3
  BY <1>1, EditedRows
<1> QED
  BY <1>2, <1>4, <1>5, <1>6 DEF Detach, Invalid, CreateFail, Got

\* Only a lost update brings a detached project or an invalid token back.
THEOREM FinalStatesStay == Spec => FinalStates
<1>1. RunsInv /\ [Next]_vars =>
        [\A p \in Projects : rows[p] # None /\ p \notin stale' =>
          /\ rows[p].billing = Detach => rows'[p].billing = Detach
          /\ rows[p].token = Invalid => rows'[p].token = Invalid]_vars
  <2> SUFFICES ASSUME RunsInv, [Next]_vars, NEW p \in Projects, rows[p] # None, p \notin stale'
               PROVE  /\ rows[p].billing = Detach => rows'[p].billing = Detach
                      /\ rows[p].token = Invalid => rows'[p].token = Invalid
    OBVIOUS
  <2>1. CASE rows'[p] = rows[p]
    BY <2>1
  <2>2. CASE rows[p] \in GoodRow /\ rows'[p] = [rows[p] EXCEPT !.token = Invalid]
    BY <2>2 DEF GoodRow, Rows
  <2>3. CASE \E r \in Runs : RowSaved(p, r)
    BY <2>3, SavedForward
  <2> QED
    BY <2>1, <2>2, <2>3, RowsChange
<1> QED
  BY <1>1, RunsKeepTheirRows, PTL DEF Spec, FinalStates

\* After a key could not be created, one comes only after some run of V3 bound the project.
THEOREM RetriesFollowABind == Spec => RetryNeedsABind
<1>1. RunsInv /\ [Next]_vars =>
        [\A p \in Projects :
          rows[p] # None /\ p \notin stale' /\ rows[p].token = CreateFail /\ rows'[p].token = Got
            => \E r \in Runs : run[r].mode # "V2" /\ p \in run[r].bound]_vars
  <2> SUFFICES ASSUME RunsInv, [Next]_vars, NEW p \in Projects, rows[p] # None, p \notin stale',
                      rows[p].token = CreateFail, rows'[p].token = Got
               PROVE  \E r \in Runs : run[r].mode # "V2" /\ p \in run[r].bound
    OBVIOUS
  <2>1. CASE rows'[p] = rows[p]
    BY <2>1 DEF CreateFail, Got
  <2>2. CASE rows[p] \in GoodRow /\ rows'[p] = [rows[p] EXCEPT !.token = Invalid]
    BY <2>2 DEF GoodRow, Rows, Invalid, Got
  <2>3. CASE \E r \in Runs : RowSaved(p, r)
    BY <2>3, SavedForward
  <2> QED
    BY <2>1, <2>2, <2>3, RowsChange
<1> QED
  BY <1>1, RunsKeepTheirRows, PTL DEF Spec, RetryNeedsABind
=============================================================================
