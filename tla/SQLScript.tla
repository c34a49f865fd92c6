----------------------------- MODULE SQLScript -----------------------------
(***************************************************************************)
(* nucleon/database/management.py: the scripts that the commands syncdb    *)
(* and resetdb derive from database.sql, and SQLScript.execute(), which    *)
(* commits each of its statements separately.                              *)
(*                                                                         *)
(* Several commands run one after the other or at once, each a process of  *)
(* its own.  Covered: statements that fail, and commands that are cut off  *)
(* after any statement (killed, or disconnected: conn.rollback() raises in *)
(* the except clause).  PostgreSQL is modelled as far as the scripts use   *)
(* it: names, DROP ... CASCADE, and rows counted per INSERT statement.     *)
(***************************************************************************)
EXTENDS Integers, Sequences, FiniteSets, SequencesExt

CONSTANTS
    Script,    \* database.sql as a sequence of statements, see Statements
    Commands,  \* the runs of syncdb and resetdb
    Faults     \* a subset of {"fail", "crash"}

(***************************************************************************)
(* kind   "table", "type", "sequence" or "index" for a CREATE of that kind *)
(*        "insert" for INSERT INTO the table name                          *)
(*        "view" for a CREATE that no regular expression knows             *)
(* name   what it creates, or the table                                    *)
(* needs  the names it does not survive the loss of, at least not whole:   *)
(*        the types, sequences and tables it refers to, and for an index,  *)
(*        or a view, also those of the columns that it uses                *)
(***************************************************************************)
Statements == ToSet(Script)
Tracked    == {"table", "type", "sequence", "index"}
Names      == {s.name : s \in Statements}
Inserts    == {s \in Statements : s.kind = "insert"}
Creates    == Statements \ Inserts
Named(kinds) == {s.name : s \in {t \in Statements : t.kind \in kinds}}

ASSUME ScriptAssumption ==
    /\ IsFiniteSet(Commands)
    /\ Faults \subseteq {"fail", "crash"}
    /\ Script \in Seq(Statements)
    /\ IsInjective(Script)
    /\ \A s \in Statements : s.kind \in Tracked \cup {"insert", "view"}
    /\ \A s, t \in Creates : s.name = t.name => s = t
    \* database.sql creates what a statement refers to before the statement.
    /\ \A i \in DOMAIN Script :
          Script[i].needs \subseteq {Script[j].name : j \in 1 .. i - 1}
    \* It fills the tables that it has created.
    /\ \A i \in DOMAIN Script : Script[i].kind = "insert" =>
          \E j \in 1 .. i - 1 : Script[j].kind = "table" /\ Script[j].name = Script[i].name
    \* What goes with a name takes along what needs it; types stand by themselves.
    /\ \A s \in Statements, t \in Creates :
          t.kind # "table" /\ t.name \in s.needs => t.needs \subseteq s.needs
    /\ \A s \in Statements : s.kind = "type" => s.needs = {}

VARIABLES
    objects,  \* the names that exist in the database
    intact,   \* those that no CASCADE has taken a column or constraint from
    rows,     \* how many times the rows of each INSERT are in its table
    mode,     \* each command's kind: "none", "sync" or "reset"
    stage,    \* the catalogue query a sync is at, then "run", "done" or "cut"
    seen,     \* what the catalogue queries have returned
    todo,     \* what is left to execute of its script, see Places
    met,      \* history: the commands that ran at the same time
    flawed    \* history: the commands one of whose statements failed for no
              \* reason to be found in the model

vars == <<objects, intact, rows, mode, stage, seen, todo, met, flawed>>

Stages == <<"table", "type", "sequence", "index", "run">>
Nothing == [k \in Tracked |-> {}]
Active == {c \in Commands : stage[c] \notin {"none", "done", "cut"}}

Init ==
    /\ objects = {}
    /\ intact = {}
    /\ rows = [s \in Inserts |-> 0]
    /\ mode = [c \in Commands |-> "none"]
    /\ stage = [c \in Commands |-> "none"]
    /\ seen = [c \in Commands |-> Nothing]
    /\ todo = [c \in Commands |-> {}]
    /\ met = [c \in Commands |-> {}]
    /\ flawed = {}

-----------------------------------------------------------------------------
\* A script that is made keeps the order of database.sql, so that it is the set of
\* the places it has: 2 * i is statement i, 2 * i - 1 a DROP before it.
Places == UNION {{2 * i - 1, 2 * i} : i \in DOMAIN Script}

DropOf(s) == [kind |-> "drop", name |-> s.name, needs |-> {}]

StatementAt(place) ==
    IF place % 2 = 0 THEN Script[place \div 2] ELSE DropOf(Script[(place + 1) \div 2])

\* Mutant of SyncScript: INSERTs are kept whether or not their table exists.
SyncScriptInserts(found) ==
    {2 * i : i \in {j \in DOMAIN Script :
        LET s == Script[j]
        IN  s.kind = "insert" \/ (s.kind \in Tracked /\ s.name \notin found[s.kind])}}

\* Mutant of SyncScript: indexes are looked for among the tables' names, so that
\* the index of an existing table is not created.
SyncScriptTables(found) ==
    {2 * i : i \in {j \in DOMAIN Script :
        LET s == Script[j]
        IN  /\ s.kind # "view"
            /\ IF s.kind \in {"insert", "index"}
               THEN (s.needs \cup {s.name}) \cap found["table"] = {}
               ELSE s.name \notin found[s.kind]}}

\* make_sync_script(): what creates a name that was not found, and the INSERTs
\* into tables that were not found; nothing else.
SyncScript(found) ==
    {2 * i : i \in {j \in DOMAIN Script :
        LET s == Script[j]
        IN  \/ s.kind = "insert" /\ s.name \notin found["table"]
            \/ s.kind \in Tracked /\ s.name \notin found[s.kind]}}

\* Mutant of ResetScript: tables are not dropped.
ResetScriptKeeps ==
    {2 * i : i \in DOMAIN Script}
        \cup {2 * i - 1 : i \in {j \in DOMAIN Script : Script[j].kind \in {"type", "sequence"}}}

\* make_reinitialize_script(): each CREATE is preceded by a DROP, except those of
\* indexes, which go with their tables.
Dropped == {i \in DOMAIN Script : Script[i].kind \in {"table", "type", "sequence"}}
ResetScript == {2 * i : i \in DOMAIN Script} \cup {2 * i - 1 : i \in Dropped}

-----------------------------------------------------------------------------
\* syncdb or resetdb starts, beside the commands that are active.
Begin(c, kind) ==
    /\ stage[c] = "none"
    /\ mode' = [mode EXCEPT ![c] = kind]
    /\ IF kind = "sync"
       THEN /\ stage' = [stage EXCEPT ![c] = "table"]
            /\ UNCHANGED todo
       ELSE /\ stage' = [stage EXCEPT ![c] = "run"]
            /\ todo' = [todo EXCEPT ![c] = ResetScript]
    /\ met' = [d \in Commands |-> IF d = c THEN Active
                                  ELSE IF d \in Active THEN met[d] \cup {c} ELSE met[d]]
    /\ UNCHANGED <<objects, intact, rows, seen, flawed>>

\* One of the four catalogue queries, each in a transaction of its own; with the
\* last one the script is made.
ReadCatalogue(c) ==
    \E i \in 1 .. 4 :
       /\ stage[c] = Stages[i]
       /\ stage' = [stage EXCEPT ![c] = Stages[i + 1]]
       /\ LET found == [seen[c] EXCEPT ![Stages[i]] = objects \cap Named({Stages[i]})]
          IN  IF i < 4
              THEN /\ seen' = [seen EXCEPT ![c] = found]
                   /\ UNCHANGED todo
              ELSE /\ seen' = [seen EXCEPT ![c] = Nothing]
                   /\ todo' = [todo EXCEPT ![c] = SyncScript(found)]
       /\ UNCHANGED <<objects, intact, rows, mode, met, flawed>>

\* What the statement needs exists, and what it creates does not.
Possible(s) ==
    CASE s.kind = "drop"   -> TRUE
      [] s.kind = "insert" -> s.name \in objects
      [] OTHER             -> s.name \notin objects /\ s.needs \subseteq objects

\* CREATE succeeds.
Create(s) ==
    /\ s.kind \in Tracked \cup {"view"}
    /\ Possible(s)
    /\ objects' = objects \cup {s.name}
    /\ intact' = intact \cup {s.name}
    /\ UNCHANGED rows

\* INSERT succeeds.
Insert(s) ==
    /\ s.kind = "insert"
    /\ Possible(s)
    /\ rows' = [rows EXCEPT ![s] = @ + 1]
    /\ UNCHANGED <<objects, intact>>

\* DROP ... IF EXISTS ... CASCADE: the rows, indexes and views of a table go with
\* it, and tables that refer to the name lose a constraint or a column.
Drop(s) ==
    /\ s.kind = "drop"
    /\ IF s.name \notin objects
       THEN UNCHANGED <<objects, intact, rows>>
       ELSE LET users == {t \in Creates : s.name \in t.needs}
                gone  == {s.name} \cup {t.name : t \in {u \in users : u.kind # "table"}}
            IN  /\ objects' = objects \ gone
                /\ intact' = intact \ (gone \cup {t.name : t \in users})
                /\ rows' = [r \in Inserts |-> IF r.name = s.name THEN 0 ELSE rows[r]]

Succeed(s) == Create(s) \/ Insert(s) \/ Drop(s)

\* What the statement refers to has lost a column or a constraint.
Damaged(s) ==
    CASE s.kind = "drop"   -> FALSE
      [] s.kind = "insert" -> s.name \in objects \ intact
      [] OTHER             -> s.needs \cap (objects \ intact) # {}

\* The statement raises; one that meets a damaged table may, be it an INSERT or the
\* CREATE of an index on the column that has gone.
Raises(c, s) ==
    /\ \/ (~ Possible(s) \/ Damaged(s)) /\ UNCHANGED flawed
       \/ "fail" \in Faults /\ flawed' = flawed \cup {c}
    /\ UNCHANGED <<objects, intact, rows>>

\* The place of the first statement that is left.
First(c, place) == \A other \in todo[c] : place <= other

\* Mutant of Execute: an exception ends the loop.
ExecuteUntilError(c) ==
    /\ stage[c] = "run"
    /\ \E place \in todo[c] :
          /\ First(c, place)
          /\ \/ /\ Succeed(StatementAt(place))
                /\ todo' = [todo EXCEPT ![c] = @ \ {place}]
                /\ UNCHANGED <<flawed, stage>>
             \/ /\ Raises(c, StatementAt(place))
                /\ stage' = [stage EXCEPT ![c] = "done"]
                /\ UNCHANGED todo
    /\ UNCHANGED <<mode, seen, met>>

\* The body of execute()'s loop: the statement and its commit, or the except
\* clause and its rollback; either way the next statement follows.
Execute(c) ==
    /\ stage[c] = "run"
    /\ \E place \in todo[c] :
          /\ First(c, place)
          /\ \/ Succeed(StatementAt(place)) /\ UNCHANGED flawed
             \/ Raises(c, StatementAt(place))
          /\ todo' = [todo EXCEPT ![c] = @ \ {place}]
    /\ UNCHANGED <<mode, stage, seen, met>>

\* The script is at its end.
Finish(c) ==
    /\ stage[c] = "run"
    /\ todo[c] = {}
    /\ stage' = [stage EXCEPT ![c] = "done"]
    /\ UNCHANGED <<objects, intact, rows, mode, seen, todo, met, flawed>>

\* The command is cut off; what it has executed is committed.
Crash(c) ==
    /\ "crash" \in Faults
    /\ c \in Active
    /\ stage' = [stage EXCEPT ![c] = "cut"]
    /\ todo' = [todo EXCEPT ![c] = {}]
    /\ seen' = [seen EXCEPT ![c] = Nothing]
    /\ UNCHANGED <<objects, intact, rows, mode, met, flawed>>

Next == \E c \in Commands :
    \/ Begin(c, "sync") \/ Begin(c, "reset")
    \/ ReadCatalogue(c) \/ Execute(c) \/ Finish(c) \/ Crash(c)

Spec == Init /\ [][Next]_vars

-----------------------------------------------------------------------------
\* The values the variables take; there are rows in tables only.
TypeOK ==
    /\ objects \subseteq Names
    /\ intact \subseteq objects
    /\ rows \in [Inserts -> 0 .. Cardinality(Commands)]
    /\ mode \in [Commands -> {"none", "sync", "reset"}]
    /\ stage \in [Commands -> ToSet(Stages) \cup {"none", "done", "cut"}]
    /\ seen \in [Commands -> [Tracked -> SUBSET Names]]
    /\ todo \in [Commands -> SUBSET Places]
    /\ met \in [Commands -> SUBSET Commands]
    /\ flawed \subseteq Commands
    /\ \A s \in Inserts : rows[s] > 0 => s.name \in objects
    /\ \A c \in Commands : stage[c] = "done" => todo[c] = {}

\* The command ends and none of its statements failed for no reason of its own.
Succeeds(c) == stage[c] = "run" /\ stage'[c] = "done" /\ c \notin flawed'

\* A resetdb that ran alone leaves exactly what database.sql describes, each row
\* once, whatever it found: the half of another reset or sync, tables without
\* the columns whose type was dropped, or nothing.
ResetRestores ==
    [][\A c \in Commands : Succeeds(c) /\ mode[c] = "reset" /\ met[c] = {} =>
          /\ intact = Names
          /\ \A s \in Inserts : rows[s] = 1]_vars

\* A part of database.sql that a sync can complete: it refers to nothing but itself,
\* what is there of it is intact, and there is what no regular expression knows.
Whole(part) ==
    /\ \A s \in Creates : s.name \in part => s.needs \subseteq part
    /\ part \cap objects \subseteq intact
    /\ part \ Named(Tracked) \subseteq objects

\* docs/commands.rst, syncdb "creates any database tables listed in database.sql
\* that do not already exist": they, and their types, sequences and indexes, all
\* exist when it is done, although its four queries are not atomic and other
\* syncs run beside it, and whatever was cut off before.  A table that exists
\* without the columns a cut-off reset took from it is not mended: what refers to
\* such a table may not be created either.
SyncCompletes ==
    [][\A c \in Commands :
          Succeeds(c) /\ mode[c] = "sync" /\ (\A d \in met[c] : mode[d] = "sync")
          => \A part \in SUBSET Names : Whole(part) => part \subseteq objects]_vars

\* As long as no two commands overlap and no DROP fails, no initial row is there
\* twice, however often commands are repeated after they were cut off.
RowsOnce ==
    (\A c \in Commands : met[c] = {} /\ (c \in flawed => mode[c] = "sync"))
    => \A s \in Inserts : rows[s] <= 1
=============================================================================
