-------------------------- MODULE SQLScriptProofs --------------------------
(***************************************************************************)
(* Proofs about SQLScript, for any database.sql, any number of commands    *)
(* and all faults.                                                         *)
(***************************************************************************)
EXTENDS SQLScript, FiniteSetTheorems, TLAPS

Position  == DOMAIN Script
IsInsert(i) == Script[i].kind = "insert"

\* Which commands have, or will have, nothing more to do with statement i.
Past(i) == {c \in Commands : stage[c] \in {"run", "done", "cut"} /\ 2 * i \notin todo[c]}

\* A statement is executed at most once by each command.
Counted == \A i \in Position : IsInsert(i) => rows[Script[i]] <= Cardinality(Past(i))

\* Only tables can be damaged: what else a CASCADE meets is gone.
Damage == \A t \in Creates : t.kind # "table" /\ t.name \in objects => t.name \in intact

\* Of two commands that are active each has met the other.
Overlap == \A c, d \in Active : c # d => d \in met[c]

\* A sync executes no CREATE that no regular expression knows.
SyncPlaces == {2 * i : i \in {j \in Position : Script[j].kind # "view"}}

\* What a command has to do at which stage; what is left of a script is its end.
Scripted ==
    \A c \in Commands :
       /\ mode[c] = "none" <=> stage[c] = "none"
       /\ mode[c] = "none" => met[c] = {} /\ c \notin flawed
       /\ \A d \in met[c] : mode[d] # "none"
       /\ todo[c] # {} => stage[c] = "run"
       /\ stage[c] \in {"table", "type", "sequence", "index"} => mode[c] = "sync"
       /\ stage[c] \notin {"type", "sequence", "index"} => seen[c] = Nothing
       /\ mode[c] = "sync" => todo[c] \subseteq SyncPlaces
       /\ mode[c] = "reset" /\ stage[c] = "run" =>
             /\ todo[c] \subseteq ResetScript
             /\ \A p \in todo[c], q \in ResetScript : p <= q => q \in todo[c]

\* The rows of an INSERT are gone, once a reset has dropped the table and before it
\* executes the INSERT.
Emptied(c, i) ==
    IsInsert(i) /\ 2 * i \in todo[c] =>
       \A j \in Position :
          /\ Script[j].kind = "table" /\ Script[j].name = Script[i].name
          /\ 2 * j - 1 \notin todo[c]
          => rows[Script[i]] = 0

\* How far a reset has come that runs alone.
Resetting(c) ==
    \A i \in Position :
       /\ 2 * i \notin todo[c] =>
             IF IsInsert(i) THEN rows[Script[i]] = 1 ELSE Script[i].name \in intact
       /\ i \in Dropped /\ 2 * i \in todo[c] /\ 2 * i - 1 \notin todo[c] =>
             Script[i].name \notin objects
       /\ Emptied(c, i)

Resets ==
    \A c \in Commands :
       /\ mode[c] = "reset" /\ stage[c] = "run"
       /\ met[c] = {} /\ c \notin flawed
       => Resetting(c)

\* How far a sync has come beside which there are only syncs: what it has found is
\* there, and so is what it has executed the statement of, as far as a part of
\* database.sql goes that it can complete.
Syncing(c) ==
    /\ \A i \in Position :
          Script[i].kind \in Tracked /\ Script[i].name \in seen[c][Script[i].kind]
          => Script[i].name \in objects
    /\ stage[c] = "run" => \A part \in SUBSET Names : Whole(part) =>
          \A i \in Position : Script[i].kind \in Tracked /\ Script[i].name \in part
             => Script[i].name \in objects \/ 2 * i \in todo[c]

Syncs ==
    \A c \in Commands :
       /\ mode[c] = "sync"
       /\ \A d \in met[c] : mode[d] = "sync"
       /\ c \notin flawed
       => Syncing(c)

\* Commands that never overlap: whoever is going to execute an INSERT finds none of
\* its rows.
OneByOne == \A c \in Commands : met[c] = {} /\ (c \in flawed => mode[c] = "sync")

Fresh ==
    OneByOne =>
       \A i \in Position : IsInsert(i) =>
          /\ rows[Script[i]] <= 1
          /\ \A c \in Commands :
                /\ mode[c] = "sync" /\ 2 * i \in todo[c] => rows[Script[i]] = 0
                /\ mode[c] = "reset" => Emptied(c, i)
                /\ /\ stage[c] \in {"type", "sequence", "index"}
                   /\ Script[i].name \notin seen[c]["table"]
                   => rows[Script[i]] = 0

ScriptInv ==
    TypeOK /\ Counted /\ Damage /\ Overlap /\ Scripted /\ Resets /\ Syncs /\ Fresh

-----------------------------------------------------------------------------
\* The statements of database.sql.
LEMMA Positions ==
  ASSUME NEW i \in Position
  PROVE  /\ i \in Nat \ {0}
         /\ Script[i] \in Statements
         /\ Script[i].kind \in Tracked \cup {"insert", "view"}
         /\ IsInsert(i) <=> Script[i] \in Inserts
         /\ ~ IsInsert(i) <=> Script[i] \in Creates
         /\ Script[i].name \in Names
<1>1. DOMAIN Script = 1 .. Len(Script) /\ Len(Script) \in Nat
  BY ScriptAssumption
<1>2. Script[i] \in Statements
  BY DEF Position, Statements, ToSet
<1>3. QED
  BY <1>1, <1>2, ScriptAssumption DEF Position, IsInsert, Inserts, Creates, Names

LEMMA StatementsAt ==
  ASSUME NEW s \in Statements
  PROVE  \E i \in Position : s = Script[i]
BY DEF Statements, ToSet, Position

LEMMA Injective ==
  ASSUME NEW i \in Position, NEW j \in Position, Script[i] = Script[j]
  PROVE  i = j
BY ScriptAssumption DEF IsInjective, Position

\* Names are given once.
LEMMA Unique ==
  ASSUME NEW i \in Position, NEW j \in Position, ~ IsInsert(i), ~ IsInsert(j),
         Script[i].name = Script[j].name
  PROVE  i = j
<1>1. Script[i] = Script[j]
  BY Positions, ScriptAssumption
<1>2. QED
  BY <1>1, Injective

\* An INSERT comes after the CREATE of its table.
LEMMA Filled ==
  ASSUME NEW i \in Position, IsInsert(i)
  PROVE  /\ \E j \in Position : /\ j < i /\ Script[j].kind = "table"
                                /\ Script[j].name = Script[i].name
         /\ \A j \in Position : ~ IsInsert(j) /\ Script[j].name = Script[i].name
               => j < i /\ Script[j].kind = "table"
<1>1. PICK j \in 1 .. i - 1 : Script[j].kind = "table" /\ Script[j].name = Script[i].name
  BY ScriptAssumption DEF Position, IsInsert
<1>2. j \in Position /\ j < i /\ ~ IsInsert(j)
  <2>1. Position = 1 .. Len(Script) /\ Len(Script) \in Nat
    BY ScriptAssumption DEF Position
  <2>2. j \in Position /\ j < i
    BY <2>1
  <2>3. QED
    BY <1>1, <2>2 DEF IsInsert
<1>3. \A k \in Position : ~ IsInsert(k) /\ Script[k].name = Script[i].name => k = j
  BY <1>1, <1>2, Unique
<1>4. QED
  BY <1>1, <1>2, <1>3

\* So does whatever needs a name.
LEMMA Earlier ==
  ASSUME NEW i \in Position, NEW j \in Position, ~ IsInsert(j),
         Script[j].name \in Script[i].needs
  PROVE  j < i
<1>1. PICK k \in 1 .. i - 1 : Script[k].name = Script[j].name
  BY ScriptAssumption DEF Position
<1>2. k \in Position /\ k < i /\ k \in Nat /\ i \in Nat /\ j \in Nat
  BY Positions, ScriptAssumption DEF Position
<1>3. CASE ~ IsInsert(k)
  BY <1>1, <1>2, <1>3, Unique
<1>4. CASE IsInsert(k)
  <2>1. j < k
    BY <1>1, <1>2, <1>4, Filled
  <2>2. QED
    BY <1>2, <2>1
<1>5. QED
  BY <1>3, <1>4

\* What a script has at its places.
LEMMA AtPlaces ==
  ASSUME NEW i \in Position
  PROVE  /\ StatementAt(2 * i) = Script[i]
         /\ StatementAt(2 * i - 1) = DropOf(Script[i])
         /\ 2 * i \in Places /\ 2 * i - 1 \in Places
         /\ 2 * i \in Nat /\ 2 * i - 1 \in Nat
<1>1. i \in Nat \ {0}
  BY Positions
<1>2. (2 * i) % 2 = 0 /\ (2 * i) \div 2 = i /\ (2 * i - 1) % 2 = 1
  BY <1>1
<1>3. 2 * i - 1 + 1 = 2 * i
  BY <1>1
<1>4. StatementAt(2 * i) = Script[i]
  BY <1>2 DEF StatementAt
<1>5. StatementAt(2 * i - 1) = DropOf(Script[i])
  BY <1>2, <1>3 DEF StatementAt
<1>6. 2 * i \in Places /\ 2 * i - 1 \in Places
  BY DEF Places, Position
<1>7. QED
  BY <1>1, <1>4, <1>5, <1>6

LEMMA InPlaces ==
  ASSUME NEW place \in Places
  PROVE  \E i \in Position : place = 2 * i \/ place = 2 * i - 1
BY DEF Places, Position

LEMMA Apart ==
  ASSUME NEW i \in Position, NEW j \in Position
  PROVE  /\ 2 * i # 2 * j - 1
         /\ 2 * i = 2 * j => i = j
         /\ 2 * i - 1 = 2 * j - 1 => i = j
         /\ i < j => 2 * i - 1 < 2 * j /\ 2 * i < 2 * j /\ 2 * i < 2 * j - 1
<1>1. i \in Nat /\ j \in Nat
  BY Positions
<1>2. QED
  BY <1>1

LEMMA Distinct ==
  /\ "drop" \notin Tracked /\ "insert" \notin Tracked /\ "view" \notin Tracked
  /\ "table" \in Tracked /\ "drop" # "insert" /\ "drop" # "view" /\ "insert" # "view"
BY DEF Tracked

-----------------------------------------------------------------------------
(***************************************************************************)
(* What the statements do to the database.                                 *)
(***************************************************************************)
LEMMA CreateEffect ==
  ASSUME TypeOK, NEW i \in Position, Create(Script[i])
  PROVE  /\ ~ IsInsert(i)
         /\ objects' = objects \cup {Script[i].name}
         /\ intact' = intact \cup {Script[i].name}
         /\ rows' = rows
BY Distinct DEF Create, IsInsert

LEMMA InsertEffect ==
  ASSUME TypeOK, NEW i \in Position, Insert(Script[i])
  PROVE  /\ IsInsert(i)
         /\ Script[i].name \in objects
         /\ objects' = objects /\ intact' = intact
         /\ rows'[Script[i]] = rows[Script[i]] + 1
         /\ \A s \in Inserts \ {Script[i]} : rows'[s] = rows[s]
         /\ rows' = [rows EXCEPT ![Script[i]] = rows[Script[i]] + 1]
<1>1. IsInsert(i) /\ Script[i] \in Inserts
  BY Positions DEF Insert, IsInsert
<1>2. Script[i].name \in objects
  BY Distinct DEF Insert, Possible
<1>3. QED
  BY <1>1, <1>2 DEF Insert, TypeOK

LEMMA DropEffect ==
  ASSUME TypeOK, NEW i \in Position, ~ IsInsert(i), Drop(DropOf(Script[i]))
  PROVE  /\ Script[i].name \notin objects'
         /\ objects' \subseteq objects /\ intact' \subseteq objects'
         /\ rows' \in [Inserts -> 0 .. Cardinality(Commands)]
         /\ \A s \in Inserts :
               rows'[s] = IF s.name = Script[i].name THEN 0 ELSE rows[s]
         /\ \A j \in Position \ {i} :
               ~ IsInsert(j) /\ (Script[j].kind = "table" \/ Script[i].name \notin Script[j].needs)
               => (Script[j].name \in objects => Script[j].name \in objects')
         /\ \A j \in Position \ {i} :
               ~ IsInsert(j) /\ Script[i].name \notin Script[j].needs
               => (Script[j].name \in intact => Script[j].name \in intact')
         /\ \A j \in Position :
               /\ ~ IsInsert(j) /\ Script[j].kind # "table"
               /\ Script[j].name \in objects' /\ Script[j].name \in intact
               => Script[j].name \in intact'
<1> DEFINE name  == Script[i].name
           users == {t \in Creates : name \in t.needs}
           gone  == {name} \cup {t.name : t \in {u \in users : u.kind # "table"}}
<1>1. DropOf(Script[i]).name = name
  BY DEF DropOf
<1>2. CASE name \notin objects
  <2>1. UNCHANGED <<objects, intact, rows>>
    BY <1>1, <1>2 DEF Drop
  <2>2. \A s \in Inserts : s.name = name => rows[s] = 0
    BY <1>2 DEF TypeOK
  <2>3. QED
    BY <1>2, <2>1, <2>2 DEF TypeOK
<1>3. CASE name \in objects
  <2>1. /\ objects' = objects \ gone
        /\ intact' = intact \ (gone \cup {t.name : t \in users})
        /\ rows' = [r \in Inserts |-> IF r.name = name THEN 0 ELSE rows[r]]
    BY <1>1, <1>3 DEF Drop
  <2>2. intact' \subseteq objects' /\ name \notin objects' /\ objects' \subseteq objects
    BY <2>1 DEF TypeOK
  <2>3. rows' \in [Inserts -> 0 .. Cardinality(Commands)]
    <3>1. Cardinality(Commands) \in Nat
      BY ScriptAssumption, FS_CardinalityType
    <3>2. QED
      BY <2>1, <3>1 DEF TypeOK
  \* A name that is affected is that of the statement that has it.
  <2>4. ASSUME NEW j \in Position, ~ IsInsert(j), NEW t \in Creates, t.name = Script[j].name
        PROVE  t = Script[j]
    BY <2>4, Positions, ScriptAssumption
  <2>5. ASSUME NEW j \in Position \ {i}, ~ IsInsert(j), Script[j].name \in gone
        PROVE  Script[j].kind # "table" /\ name \in Script[j].needs
    BY <2>4, <2>5, Unique
  <2>6. ASSUME NEW j \in Position \ {i}, ~ IsInsert(j),
               Script[j].name \in {t.name : t \in users}
        PROVE  name \in Script[j].needs
    BY <2>4, <2>6
  <2>7. ASSUME NEW j \in Position, ~ IsInsert(j), Script[j].kind # "table",
               Script[j].name \in {t.name : t \in users}
        PROVE  Script[j].name \in gone
    BY <2>4, <2>7
  <2>8. /\ \A s \in Inserts : rows'[s] = IF s.name = name THEN 0 ELSE rows[s]
        /\ \A j \in Position \ {i} :
              ~ IsInsert(j) /\ (Script[j].kind = "table" \/ name \notin Script[j].needs)
              => (Script[j].name \in objects => Script[j].name \in objects')
    <3> HIDE DEF gone, users
    <3>1. QED
      BY <2>1, <2>5
  <2>9. \A j \in Position \ {i} :
           ~ IsInsert(j) /\ name \notin Script[j].needs
           => (Script[j].name \in intact => Script[j].name \in intact')
    <3> HIDE DEF gone, users
    <3>1. QED
      BY <2>1, <2>5, <2>6
  <2>10. \A j \in Position :
            /\ ~ IsInsert(j) /\ Script[j].kind # "table"
            /\ Script[j].name \in objects' /\ Script[j].name \in intact
            => Script[j].name \in intact'
    <3> HIDE DEF gone, users
    <3>1. QED
      BY <2>1, <2>7
  <2>11. QED
    BY <2>2, <2>3, <2>8, <2>9, <2>10
<1>4. QED
  BY <1>2, <1>3

-----------------------------------------------------------------------------
(***************************************************************************)
(* Execute: one statement of a script.                                     *)
(***************************************************************************)
\* What is left after a place.
Takes(c, place) ==
    /\ place \in todo[c]
    /\ First(c, place)
    /\ todo' = [todo EXCEPT ![c] = todo[c] \ {place}]

LEMMA ExecuteCases ==
  ASSUME ScriptInv, NEW c \in Commands, Execute(c)
  PROVE  /\ stage[c] = "run" /\ mode[c] \in {"sync", "reset"}
         /\ UNCHANGED <<mode, stage, seen, met>>
         /\ \E i \in Position :
               \/ /\ Takes(c, 2 * i)
                  /\ \/ Create(Script[i]) /\ UNCHANGED flawed
                     \/ Insert(Script[i]) /\ UNCHANGED flawed
                     \/ Raises(c, Script[i])
               \/ /\ Takes(c, 2 * i - 1) /\ mode[c] = "reset"
                  /\ i \in Dropped /\ ~ IsInsert(i) /\ 2 * i \in todo[c]
                  /\ \/ Drop(DropOf(Script[i])) /\ UNCHANGED flawed
                     \/ UNCHANGED <<objects, intact, rows>> /\ flawed' = flawed \cup {c}
<1>1. /\ stage[c] = "run" /\ UNCHANGED <<mode, stage, seen, met>>
      /\ TypeOK /\ Scripted
  BY DEF Execute, ScriptInv
<1>2. mode[c] \in {"sync", "reset"}
  BY <1>1 DEF TypeOK, Scripted
<1>3. PICK place \in todo[c] :
         /\ Takes(c, place)
         /\ \/ Succeed(StatementAt(place)) /\ UNCHANGED flawed
            \/ Raises(c, StatementAt(place))
  BY DEF Execute, Takes
<1>4. PICK i \in Position : place = 2 * i \/ place = 2 * i - 1
  <2>1. place \in Places
    BY <1>1 DEF TypeOK
  <2>2. QED
    BY <2>1, InPlaces
<1>5. CASE place = 2 * i
  <2>1. StatementAt(place) = Script[i]
    BY <1>5, AtPlaces
  <2>2. ~ Drop(Script[i])
    BY Positions, Distinct DEF Drop
  <2>3. QED
    BY <1>1, <1>2, <1>3, <1>5, <2>1, <2>2 DEF Succeed
<1>6. CASE place = 2 * i - 1
  <2>1. StatementAt(place) = DropOf(Script[i])
    BY <1>6, AtPlaces
  <2>2. DropOf(Script[i]).kind = "drop"
    BY DEF DropOf
  <2>3. ~ Create(DropOf(Script[i])) /\ ~ Insert(DropOf(Script[i])) 
        /\ Possible(DropOf(Script[i])) /\ ~ Damaged(DropOf(Script[i]))
    BY <2>2, Distinct DEF Create, Insert, Possible, Damaged
  <2>4. mode[c] = "reset" /\ i \in Dropped /\ 2 * i \in todo[c]
    <3>1. \A j \in Position : place # 2 * j
      BY <1>6, Apart
    <3>2. mode[c] = "reset"
      BY <1>1, <1>2, <3>1 DEF Scripted, SyncPlaces
    <3>3. place \in ResetScript
      BY <1>1, <3>2 DEF Scripted
    <3>4. PICK j \in Dropped : place = 2 * j - 1
      BY <3>1, <3>3 DEF ResetScript, Position
    <3>5. j = i
      BY <1>6, <3>4, Apart DEF Dropped, Position
    <3>6. 2 * i \in ResetScript /\ place <= 2 * i
      BY <1>6, Positions DEF ResetScript, Position
    <3>7. QED
      BY <1>1, <3>2, <3>4, <3>5, <3>6 DEF Scripted
  <2>5. ~ IsInsert(i)
    BY <2>4 DEF Dropped, IsInsert
  <2>6. \/ Drop(DropOf(Script[i])) /\ UNCHANGED flawed
        \/ UNCHANGED <<objects, intact, rows>> /\ flawed' = flawed \cup {c}
    BY <1>3, <2>1, <2>2, <2>3, Distinct DEF Succeed, Raises
  <2>7. QED
    BY <1>1, <1>2, <1>3, <1>6, <2>4, <2>5, <2>6
<1>7. QED
  BY <1>4, <1>5, <1>6

LEMMA TakesEffect ==
  ASSUME TypeOK, NEW c \in Commands, NEW place, Takes(c, place)
  PROVE  /\ todo' \in [Commands -> SUBSET Places]
         /\ todo'[c] = todo[c] \ {place}
         /\ \A d \in Commands \ {c} : todo'[d] = todo[d]
BY DEF TypeOK, Takes

LEMMA PastFacts ==
  ASSUME NEW i
  PROVE  /\ IsFiniteSet(Past(i)) /\ Cardinality(Past(i)) \in Nat
         /\ Cardinality(Past(i)) <= Cardinality(Commands)
         /\ Cardinality(Commands) \in Nat
<1>1. Past(i) \subseteq Commands /\ IsFiniteSet(Commands)
  BY ScriptAssumption DEF Past
<1>2. QED
  BY <1>1, FS_Subset, FS_CardinalityType

\* More commands have done with a statement.
LEMMA PastGrows ==
  ASSUME NEW i, Past(i) \subseteq Past(i)'
  PROVE  Cardinality(Past(i)) <= Cardinality(Past(i)')
<1>1. IsFiniteSet(Past(i)')
  <2>1. Past(i)' \subseteq Commands
    BY DEF Past
  <2>2. QED
    BY <2>1, ScriptAssumption, FS_Subset
<1>2. QED
  BY <1>1, FS_Subset

LEMMA ExecutePast ==
  ASSUME TypeOK, NEW c \in Commands, stage[c] = "run", UNCHANGED stage,
         NEW place, Takes(c, place)
  PROVE  /\ \A i \in Position : Past(i) \subseteq Past(i)'
         /\ \A i \in Position : place = 2 * i =>
               Cardinality(Past(i)') = Cardinality(Past(i)) + 1
<1>1. \A i \in Position : Past(i) \subseteq Past(i)'
  BY TakesEffect DEF Past
<1>2. ASSUME NEW i \in Position, place = 2 * i
      PROVE  Cardinality(Past(i)') = Cardinality(Past(i)) + 1
  <2>1. c \notin Past(i) /\ Past(i)' = Past(i) \cup {c}
    BY <1>2, TakesEffect DEF Past, Takes
  <2>2. QED
    BY <2>1, PastFacts, FS_AddElement
<1>3. QED
  BY <1>1, <1>2

\* The counts and the types.
LEMMA ExecuteTypes ==
  ASSUME ScriptInv, NEW c \in Commands, Execute(c)
  PROVE  TypeOK' /\ Counted' /\ Damage'
<1>1. TypeOK /\ Counted /\ Damage
  BY DEF ScriptInv
<1>2. /\ stage[c] = "run" /\ UNCHANGED <<mode, stage, seen, met>>
  BY ExecuteCases
<1>3. PICK i \in Position :
         \/ /\ Takes(c, 2 * i)
            /\ \/ Create(Script[i]) /\ UNCHANGED flawed
               \/ Insert(Script[i]) /\ UNCHANGED flawed
               \/ Raises(c, Script[i])
         \/ /\ Takes(c, 2 * i - 1) /\ ~ IsInsert(i)
            /\ \/ Drop(DropOf(Script[i])) /\ UNCHANGED flawed
               \/ UNCHANGED <<objects, intact, rows>> /\ flawed' = flawed \cup {c}
  BY ExecuteCases
<1>4. PICK place : Takes(c, place)
  BY <1>3
<1>5. /\ \A j \in Position : Past(j) \subseteq Past(j)'
      /\ \A j \in Position : Cardinality(Past(j)) <= Cardinality(Past(j)')
      /\ \A j \in Position : /\ Cardinality(Past(j)) \in Nat
                             /\ Cardinality(Past(j)') \in Nat
                             /\ Cardinality(Past(j)') <= Cardinality(Commands)
      /\ Cardinality(Commands) \in Nat
  <2>1. \A j \in Position : Past(j) \subseteq Past(j)'
    BY <1>1, <1>2, <1>4, ExecutePast
  <2>2. ASSUME NEW j \in Position
        PROVE  Cardinality(Past(j)') \in Nat /\ Cardinality(Past(j)') <= Cardinality(Commands)
    <3>1. Past(j)' \subseteq Commands
      BY DEF Past
    <3>2. QED
      BY <3>1, ScriptAssumption, FS_Subset, FS_CardinalityType
  <2>3. QED
    BY <2>1, <2>2, PastGrows, PastFacts
<1>6. /\ todo' \in [Commands -> SUBSET Places]
      /\ \A d \in Commands : stage'[d] = "done" => todo'[d] = {}
  BY <1>1, <1>2, <1>4, TakesEffect DEF TypeOK
<1>7. ASSUME flawed' \subseteq Commands, objects' \subseteq Names, intact' \subseteq objects',
             rows' \in [Inserts -> 0 .. Cardinality(Commands)],
             \A s \in Inserts : rows'[s] > 0 => s.name \in objects'
      PROVE  TypeOK'
  BY <1>1, <1>2, <1>6, <1>7 DEF TypeOK
<1>8. \A j \in Position : IsInsert(j) => rows[Script[j]] \in Nat
  BY <1>1, Positions DEF TypeOK
<1>9. CASE UNCHANGED <<objects, intact, rows>> /\ flawed' \subseteq Commands
  <2>1. TypeOK' /\ Damage'
    BY <1>1, <1>7, <1>9 DEF TypeOK, Damage
  <2>2. Counted'
    BY <1>1, <1>5, <1>8, <1>9 DEF Counted
  <2>3. QED
    BY <2>1, <2>2
<1>10. CASE Create(Script[i]) /\ UNCHANGED flawed
  <2>1. /\ objects' = objects \cup {Script[i].name} /\ intact' = intact \cup {Script[i].name}
        /\ rows' = rows /\ Script[i].name \in Names
    BY <1>1, <1>10, CreateEffect, Positions
  <2>2. TypeOK'
    BY <1>1, <1>7, <1>10, <2>1 DEF TypeOK
  <2>3. Damage'
    BY <1>1, <2>1 DEF Damage
  <2>4. Counted'
    BY <1>1, <1>5, <1>8, <2>1 DEF Counted
  <2>5. QED
    BY <2>2, <2>3, <2>4
<1>11. CASE Takes(c, 2 * i) /\ Insert(Script[i]) /\ UNCHANGED flawed
  <2>1. /\ IsInsert(i) /\ Script[i].name \in objects
        /\ objects' = objects /\ intact' = intact
        /\ rows'[Script[i]] = rows[Script[i]] + 1
        /\ \A s \in Inserts \ {Script[i]} : rows'[s] = rows[s]
        /\ rows' = [rows EXCEPT ![Script[i]] = rows[Script[i]] + 1]
    BY <1>1, <1>11, InsertEffect
  <2>2. Cardinality(Past(i)') = Cardinality(Past(i)) + 1
    BY <1>1, <1>2, <1>11, ExecutePast
  <2>3. rows[Script[i]] \in Nat /\ rows[Script[i]] + 1 <= Cardinality(Past(i)')
    BY <1>1, <1>5, <1>8, <2>1, <2>2 DEF Counted
  <2>4. rows[Script[i]] + 1 \in 0 .. Cardinality(Commands)
    BY <1>5, <2>3
  <2>5. rows' \in [Inserts -> 0 .. Cardinality(Commands)]
    BY <1>1, <2>1, <2>4 DEF TypeOK
  <2>6. TypeOK'
    BY <1>1, <1>7, <1>11, <2>1, <2>5 DEF TypeOK
  <2>7. Counted'
    <3>1. ASSUME NEW j \in Position, IsInsert(j), j # i
          PROVE  rows'[Script[j]] = rows[Script[j]]
      BY <2>1, <3>1, Positions, Injective
    <3>2. QED
      BY <1>1, <1>5, <1>8, <2>1, <2>3, <3>1 DEF Counted
  <2>8. QED
    BY <1>1, <2>1, <2>6, <2>7 DEF Damage
<1>12. CASE ~ IsInsert(i) /\ Drop(DropOf(Script[i])) /\ UNCHANGED flawed
  <2>1. /\ objects' \subseteq objects /\ intact' \subseteq objects'
        /\ rows' \in [Inserts -> 0 .. Cardinality(Commands)]
        /\ \A s \in Inserts : rows'[s] = IF s.name = Script[i].name THEN 0 ELSE rows[s]
        /\ \A j \in Position \ {i} :
              ~ IsInsert(j) /\ Script[j].kind = "table"
              => (Script[j].name \in objects => Script[j].name \in objects')
        /\ \A j \in Position :
              /\ ~ IsInsert(j) /\ Script[j].kind # "table"
              /\ Script[j].name \in objects' /\ Script[j].name \in intact
              => Script[j].name \in intact'
    BY <1>1, <1>12, DropEffect
  <2>2. ASSUME NEW s \in Inserts, rows'[s] > 0
        PROVE  s.name \in objects'
    <3>1. s.name # Script[i].name /\ rows'[s] = rows[s] /\ s.name \in objects
      BY <1>1, <2>1, <2>2 DEF TypeOK
    <3>2. PICK k \in Position : s = Script[k]
      BY StatementsAt DEF Inserts
    <3>3. PICK j \in Position : Script[j].kind = "table" /\ Script[j].name = s.name
      BY <3>2, Positions, Filled
    <3>4. ~ IsInsert(j) /\ j # i
      BY <3>1, <3>3 DEF IsInsert
    <3>5. QED
      BY <2>1, <3>1, <3>3, <3>4
  <2>3. TypeOK'
    BY <1>1, <1>7, <1>12, <2>1, <2>2 DEF TypeOK
  <2>4. Damage'
    <3>1. ASSUME NEW t \in Creates, t.kind # "table", t.name \in objects'
          PROVE  t.name \in intact'
      <4>1. PICK j \in Position : t = Script[j]
        BY StatementsAt DEF Creates
      <4>2. ~ IsInsert(j) /\ t.name \in intact
        BY <1>1, <2>1, <3>1, <4>1, Positions DEF Damage
      <4>3. QED
        BY <2>1, <3>1, <4>1, <4>2
    <3>2. QED
      BY <3>1 DEF Damage
  <2>5. Counted'
    <3>1. ASSUME NEW j \in Position, IsInsert(j)
          PROVE  rows'[Script[j]] <= Cardinality(Past(j)')
      <4>1. Script[j] \in Inserts
        BY <3>1, Positions
      <4>2. rows'[Script[j]] = 0 \/ rows'[Script[j]] = rows[Script[j]]
        BY <2>1, <4>1
      <4>3. rows[Script[j]] \in Nat /\ rows[Script[j]] <= Cardinality(Past(j))
        BY <1>1, <1>8, <3>1 DEF Counted
      <4>4. QED
        BY <1>5, <4>2, <4>3
    <3>2. QED
      BY <3>1 DEF Counted
  <2>6. QED
    BY <2>3, <2>4, <2>5
<1>13. QED
  <2>1. Raises(c, Script[i]) => UNCHANGED <<objects, intact, rows>> /\ flawed' \subseteq Commands
    BY <1>1 DEF Raises, TypeOK
  <2>2. flawed' = flawed \cup {c} => flawed' \subseteq Commands
    BY <1>1 DEF TypeOK
  <2>3. QED
    BY <1>3, <1>9, <1>10, <1>11, <1>12, <2>1, <2>2

\* Who is active and what they have met stays; a script gets shorter at its start.
LEMMA ExecuteOrder ==
  ASSUME ScriptInv, NEW c \in Commands, Execute(c)
  PROVE  Overlap' /\ Scripted'
<1>1. /\ stage[c] = "run" /\ UNCHANGED <<mode, stage, seen, met>>
  BY ExecuteCases
<1>2. PICK place \in todo[c] : Takes(c, place)
  BY ExecuteCases DEF Takes
<1>3. /\ todo'[c] = todo[c] \ {place}
      /\ \A d \in Commands \ {c} : todo'[d] = todo[d]
  BY <1>2, TakesEffect DEF ScriptInv
<1>4. flawed' \subseteq flawed \cup {c}
  BY ExecuteCases DEF Raises
<1>5. mode[c] # "none"
  BY <1>1 DEF ScriptInv, Scripted
<1>6. Overlap'
  BY <1>1 DEF ScriptInv, Overlap, Active
<1>7. ASSUME mode[c] = "reset"
      PROVE  \A p \in todo'[c], q \in ResetScript : p <= q => q \in todo'[c]
  <2>1. ASSUME NEW p \in todo'[c], NEW q \in ResetScript, p <= q
        PROVE  q \in todo'[c]
    <3>1. p \in todo[c] /\ p # place /\ place <= p
      BY <1>2, <1>3, <2>1 DEF Takes, First
    <3>2. p \in Int /\ place \in Int
      <4>1. todo[c] \subseteq Places
        BY DEF ScriptInv, TypeOK
      <4>2. \A x \in Places : x \in Int
        BY InPlaces, Positions
      <4>3. QED
        BY <3>1, <4>1, <4>2
    <3>3. q # place
      BY <2>1, <3>1, <3>2
    <3>4. q \in todo[c]
      BY <1>1, <1>7, <2>1, <3>1 DEF ScriptInv, Scripted
    <3>5. QED
      BY <1>3, <3>3, <3>4
  <2>2. QED
    BY <2>1
<1>8. Scripted'
  BY <1>1, <1>3, <1>4, <1>5, <1>7 DEF ScriptInv, Scripted
<1>9. QED
  BY <1>6, <1>8

\* A command that executes has been met by all that are active.
LEMMA ExecutorMet ==
  ASSUME ScriptInv, NEW c \in Commands, stage[c] = "run",
         NEW d \in Commands, d # c, stage[d] \notin {"none", "done", "cut"}
  PROVE  c \in met[d] /\ d \in met[c]
BY DEF ScriptInv, Overlap, Active

\* Before the place that a command takes it has nothing left.
LEMMA TakenInOrder ==
  ASSUME ScriptInv, NEW c \in Commands, mode[c] = "reset", stage[c] = "run",
         NEW i \in Position, NEW j \in Position
  PROVE  /\ Takes(c, 2 * i) /\ j < i => 2 * j \notin todo[c] /\ 2 * j - 1 \notin todo[c]
         /\ Takes(c, 2 * i) => 2 * i - 1 \notin todo[c]
         /\ Takes(c, 2 * i - 1) /\ 2 * j \notin todo[c] => j < i
<1>1. i \in Nat /\ j \in Nat
  BY Positions
<1>2. ASSUME Takes(c, 2 * i), j < i
      PROVE  2 * j \notin todo[c] /\ 2 * j - 1 \notin todo[c]
  BY <1>1, <1>2 DEF Takes, First
<1>3. ASSUME Takes(c, 2 * i)
      PROVE  2 * i - 1 \notin todo[c]
  BY <1>1, <1>3 DEF Takes, First
<1>4. ASSUME Takes(c, 2 * i - 1), 2 * j \notin todo[c]
      PROVE  j < i
  <2>1. 2 * j \in ResetScript
    BY DEF ResetScript, Position
  <2>2. 2 * i - 1 \in todo[c]
    BY <1>4 DEF Takes
  <2>3. ~ (2 * i - 1 <= 2 * j)
    BY <1>4, <2>1, <2>2 DEF ScriptInv, Scripted
  <2>4. QED
    BY <1>1, <2>3
<1>5. QED
  BY <1>2, <1>3, <1>4

\* How the rows that a reset has removed stay away until it brings them back.
LEMMA EmptiedByStatement ==
  ASSUME ScriptInv, NEW c \in Commands, NEW i \in Position, NEW k \in Position,
         Takes(c, 2 * i), Emptied(c, k),
         IsInsert(k) /\ k # i => rows'[Script[k]] = rows[Script[k]]
  PROVE  Emptied(c, k)'
<1>1. todo'[c] = todo[c] \ {2 * i}
  BY TakesEffect DEF ScriptInv
<1>2. \A j \in Position : 2 * j - 1 \notin todo'[c] => 2 * j - 1 \notin todo[c]
  BY <1>1, Apart
<1>3. 2 * k \in todo'[c] => 2 * k \in todo[c] /\ k # i
  BY <1>1
<1>4. QED
  BY <1>2, <1>3 DEF Emptied

LEMMA EmptiedByDrop ==
  ASSUME ScriptInv, NEW c \in Commands, NEW i \in Position, NEW k \in Position,
         ~ IsInsert(i), Takes(c, 2 * i - 1), Drop(DropOf(Script[i])), Emptied(c, k)
  PROVE  Emptied(c, k)'
<1>1. todo'[c] = todo[c] \ {2 * i - 1}
  BY TakesEffect DEF ScriptInv
<1>2. SUFFICES ASSUME IsInsert(k), 2 * k \in todo'[c],
                      NEW j \in Position, Script[j].kind = "table",
                      Script[j].name = Script[k].name, 2 * j - 1 \notin todo'[c]
               PROVE  rows'[Script[k]] = 0
  BY DEF Emptied
<1>3. /\ Script[k] \in Inserts
      /\ rows'[Script[k]] = IF Script[k].name = Script[i].name THEN 0 ELSE rows[Script[k]]
  BY <1>2, Positions, DropEffect DEF ScriptInv
<1>4. CASE Script[k].name = Script[i].name
  BY <1>3, <1>4
<1>5. CASE Script[k].name # Script[i].name
  <2>1. 2 * j - 1 \notin todo[c]
    <3>1. j # i
      BY <1>2, <1>5
    <3>2. QED
      BY <1>1, <1>2, <3>1, Apart
  <2>2. 2 * k \in todo[c]
    BY <1>1, <1>2
  <2>3. QED
    BY <1>2, <1>3, <1>5, <2>1, <2>2 DEF Emptied
<1>6. QED
  BY <1>4, <1>5

\* An INSERT of a reset puts its rows into an empty table.
LEMMA EmptyBeforeInsert ==
  ASSUME ScriptInv, NEW c \in Commands, mode[c] = "reset", stage[c] = "run",
         NEW i \in Position, IsInsert(i), Takes(c, 2 * i), Emptied(c, i)
  PROVE  rows[Script[i]] = 0
<1>1. PICK j \in Position : /\ j < i /\ Script[j].kind = "table"
                            /\ Script[j].name = Script[i].name
  BY Filled
<1>2. 2 * j - 1 \notin todo[c] /\ 2 * i \in todo[c]
  BY <1>1, TakenInOrder DEF Takes
<1>3. QED
  BY <1>1, <1>2 DEF Emptied

\* A statement of a reset finds what it needs, and can be executed unless what it
\* creates has survived intact.
LEMMA ResetCan ==
  ASSUME ScriptInv, NEW c \in Commands, mode[c] = "reset", stage[c] = "run",
         Resetting(c), NEW i \in Position, Takes(c, 2 * i)
  PROVE  /\ IsInsert(i) => Script[i].name \in intact /\ Possible(Script[i])
         /\ ~ IsInsert(i) => Script[i].name \in intact \/ Possible(Script[i])
         /\ ~ Damaged(Script[i])
<1>1. ASSUME NEW j \in Position, j < i, ~ IsInsert(j)
      PROVE  Script[j].name \in intact
  BY <1>1, TakenInOrder DEF Resetting
<1>2. intact \subseteq objects
  BY DEF ScriptInv, TypeOK
<1>3. ASSUME NEW j \in Position, j < i
      PROVE  Script[j].name \in intact
  <2>1. CASE IsInsert(j)
    <3>1. PICK k \in Position : k < j /\ Script[k].kind = "table" /\ Script[k].name = Script[j].name
      BY <2>1, Filled
    <3>2. k < i /\ ~ IsInsert(k)
      BY <1>3, <3>1, Positions DEF IsInsert
    <3>3. QED
      BY <1>1, <3>1, <3>2
  <2>2. QED
    BY <1>1, <1>3, <2>1
<1>4. CASE IsInsert(i)
  <2>1. PICK j \in Position : j < i /\ Script[j].name = Script[i].name
    BY <1>4, Filled
  <2>2. Script[i].name \in intact
    BY <1>3, <2>1
  <2>3. QED
    BY <1>2, <1>4, <2>2, Distinct DEF Possible, Damaged, IsInsert
<1>5. CASE ~ IsInsert(i)
  <2>1. Script[i].needs \subseteq objects /\ Script[i].needs \subseteq intact
    <3>1. ASSUME NEW n \in Script[i].needs
          PROVE  n \in objects /\ n \in intact
      <4>1. PICK j \in 1 .. i - 1 : n = Script[j].name
        BY <3>1, ScriptAssumption DEF Position
      <4>2. j \in Position /\ j < i
        <5>1. Position = 1 .. Len(Script) /\ Len(Script) \in Nat
          BY ScriptAssumption DEF Position
        <5>2. QED
          BY <5>1
      <4>3. QED
        BY <1>2, <1>3, <4>1, <4>2
    <3>2. QED
      BY <3>1
  <2>2. Script[i].name \notin objects => Possible(Script[i])
    BY <1>5, <2>1, Positions, Distinct DEF Possible, IsInsert
  <2>3. ASSUME Script[i].name \in objects
        PROVE  Script[i].name \in intact
    <3>1. i \notin Dropped
      <4>1. 2 * i - 1 \notin todo[c] /\ 2 * i \in todo[c]
        BY TakenInOrder DEF Takes
      <4>2. QED
        BY <2>3, <4>1 DEF Resetting
    <3>2. Script[i].kind # "table" /\ Script[i] \in Creates
      BY <1>5, <3>1, Positions DEF Dropped, Position
    <3>3. QED
      BY <2>3, <3>2 DEF ScriptInv, Damage
  <2>4. ~ Damaged(Script[i])
    BY <1>5, <2>1, Positions, Distinct DEF Damaged, IsInsert
  <2>5. QED
    BY <1>5, <2>2, <2>3, <2>4
<1>6. QED
  BY <1>4, <1>5

LEMMA ExecuteResets ==
  ASSUME ScriptInv, NEW c \in Commands, Execute(c)
  PROVE  Resets'
<1>1. /\ stage[c] = "run" /\ UNCHANGED <<mode, stage, seen, met>>
  BY ExecuteCases
<1>2. flawed \subseteq flawed'
  BY ExecuteCases DEF Raises
<1>3. SUFFICES ASSUME NEW d \in Commands, mode[d] = "reset", stage[d] = "run",
                      met[d] = {}, d \notin flawed'
               PROVE  Resetting(d)'
  BY <1>1 DEF Resets
<1>4. d = c
  BY <1>1, <1>3, ExecutorMet
<1>5. Resetting(c) /\ TypeOK
  BY <1>2, <1>3, <1>4 DEF ScriptInv, Resets
<1>6. PICK i \in Position :
         \/ /\ Takes(c, 2 * i)
            /\ \/ Create(Script[i]) /\ UNCHANGED flawed
               \/ Insert(Script[i]) /\ UNCHANGED flawed
               \/ Raises(c, Script[i])
         \/ /\ Takes(c, 2 * i - 1) /\ ~ IsInsert(i)
            /\ Drop(DropOf(Script[i]))
  BY <1>3, <1>4, ExecuteCases
<1>7. ASSUME Takes(c, 2 * i),
             IF IsInsert(i) THEN rows'[Script[i]] = 1 ELSE Script[i].name \in intact',
             intact \subseteq intact',
             \A n \in objects' \ objects : n = Script[i].name,
             IsInsert(i) => objects' = objects,
             \A k \in Position : IsInsert(k) /\ k # i => rows'[Script[k]] = rows[Script[k]]
      PROVE  Resetting(c)'
  <2>1. todo'[c] = todo[c] \ {2 * i}
    BY <1>5, <1>7, TakesEffect
  <2>2. ASSUME NEW k \in Position
        PROVE  /\ 2 * k \notin todo'[c] =>
                     IF IsInsert(k) THEN rows'[Script[k]] = 1 ELSE Script[k].name \in intact'
               /\ k \in Dropped /\ 2 * k \in todo'[c] /\ 2 * k - 1 \notin todo'[c] =>
                     Script[k].name \notin objects'
               /\ Emptied(c, k)'
    <3>1. Emptied(c, k)'
      BY <1>5, <1>7, EmptiedByStatement DEF Resetting
    <3>2. CASE k = i
      BY <1>7, <2>1, <3>1, <3>2
    <3>3. CASE k # i
      <4>1. /\ 2 * k \in todo'[c] <=> 2 * k \in todo[c]
            /\ 2 * k - 1 \in todo'[c] <=> 2 * k - 1 \in todo[c]
        BY <2>1, <3>3, Apart
      <4>2. 2 * k \notin todo[c] =>
               IF IsInsert(k) THEN rows'[Script[k]] = 1 ELSE Script[k].name \in intact'
        BY <1>5, <1>7, <3>3 DEF Resetting
      <4>3. k \in Dropped => ~ IsInsert(k)
        BY DEF Dropped, IsInsert
      <4>4. ASSUME k \in Dropped, Script[k].name \in objects'
            PROVE  Script[k].name \in objects
        BY <1>7, <3>3, <4>3, <4>4, Unique
      <4>5. QED
        BY <1>5, <3>1, <4>1, <4>2, <4>4 DEF Resetting
    <3>4. QED
      BY <3>2, <3>3
  <2>3. QED
    BY <2>2 DEF Resetting
<1>8. CASE Takes(c, 2 * i) /\ Create(Script[i])
  <2>1. /\ ~ IsInsert(i) /\ rows' = rows
        /\ objects' = objects \cup {Script[i].name}
        /\ intact' = intact \cup {Script[i].name}
    BY <1>5, <1>8, CreateEffect
  <2>2. /\ Script[i].name \in intact' /\ intact \subseteq intact'
        /\ \A n \in objects' \ objects : n = Script[i].name
    BY <2>1
  <2>3. QED
    BY <1>4, <1>7, <1>8, <2>1, <2>2
<1>9. CASE Takes(c, 2 * i) /\ Insert(Script[i])
  <2>1. IsInsert(i) /\ rows[Script[i]] = 0
    BY <1>1, <1>3, <1>4, <1>5, <1>9, InsertEffect, EmptyBeforeInsert DEF Resetting
  <2>2. \A k \in Position : IsInsert(k) /\ k # i => rows'[Script[k]] = rows[Script[k]]
    BY <1>5, <1>9, InsertEffect, Positions, Injective
  <2>3. rows'[Script[i]] = 1 /\ objects' = objects /\ intact' = intact
    BY <1>5, <1>9, <2>1, InsertEffect
  <2>4. \A n \in objects' \ objects : n = Script[i].name
    BY <2>3
  <2>5. QED
    BY <1>4, <1>7, <1>9, <2>1, <2>2, <2>3, <2>4
<1>10. CASE Takes(c, 2 * i) /\ Raises(c, Script[i])
  <2>1. /\ UNCHANGED <<objects, intact, rows>>
        /\ ~ Possible(Script[i]) \/ Damaged(Script[i])
    BY <1>3, <1>4, <1>10 DEF Raises
  <2>2. ~ IsInsert(i) /\ Script[i].name \in intact
    BY <1>1, <1>3, <1>4, <1>5, <1>10, <2>1, ResetCan
  <2>3. \A n \in objects' \ objects : n = Script[i].name
    BY <2>1
  <2>4. \A k \in Position : IsInsert(k) /\ k # i => rows'[Script[k]] = rows[Script[k]]
    BY <2>1
  <2>5. QED
    BY <1>4, <1>7, <1>10, <2>1, <2>2, <2>3, <2>4
<1>11. CASE Takes(c, 2 * i - 1) /\ ~ IsInsert(i) /\ Drop(DropOf(Script[i]))
  <2>1. todo'[c] = todo[c] \ {2 * i - 1}
    BY <1>5, <1>11, TakesEffect
  <2>2. ASSUME NEW k \in Position
        PROVE  /\ 2 * k \notin todo'[c] =>
                     IF IsInsert(k) THEN rows'[Script[k]] = 1 ELSE Script[k].name \in intact'
               /\ k \in Dropped /\ 2 * k \in todo'[c] /\ 2 * k - 1 \notin todo'[c] =>
                     Script[k].name \notin objects'
               /\ Emptied(c, k)'
    <3>1. /\ 2 * k \in todo'[c] <=> 2 * k \in todo[c]
          /\ k # i => (2 * k - 1 \in todo'[c] <=> 2 * k - 1 \in todo[c])
      BY <2>1, Apart
    <3>2. Script[i].name \notin objects' /\ objects' \subseteq objects
      BY <1>5, <1>11, DropEffect
    <3>3. ASSUME 2 * k \notin todo[c]
          PROVE  IF IsInsert(k) THEN rows'[Script[k]] = 1 ELSE Script[k].name \in intact'
      <4>1. k < i /\ k # i /\ ~ (i < k)
        BY <1>1, <1>3, <1>4, <1>11, <3>3, TakenInOrder, Positions
      <4>2. CASE IsInsert(k)
        <5>1. rows[Script[k]] = 1 /\ Script[k] \in Inserts
          BY <1>5, <3>3, <4>2, Positions DEF Resetting
        <5>2. Script[k].name # Script[i].name
          BY <1>11, <4>1, <4>2, Filled
        <5>3. QED
          BY <1>5, <1>11, <4>2, <5>1, <5>2, DropEffect
      <4>3. CASE ~ IsInsert(k)
        <5>1. Script[k].name \in intact
          BY <1>5, <3>3, <4>3 DEF Resetting
        <5>2. Script[i].name \notin Script[k].needs
          BY <1>11, <4>1, Earlier
        <5>3. QED
          BY <1>5, <1>11, <4>1, <4>3, <5>1, <5>2, DropEffect
      <4>4. QED
        BY <4>2, <4>3
    <3>4. ASSUME k \in Dropped, 2 * k \in todo'[c], 2 * k - 1 \notin todo'[c]
          PROVE  Script[k].name \notin objects'
      BY <1>5, <3>1, <3>2, <3>4 DEF Resetting
    <3>5. Emptied(c, k)'
      BY <1>5, <1>11, EmptiedByDrop DEF Resetting
    <3>6. QED
      BY <3>1, <3>3, <3>4, <3>5
  <2>3. QED
    BY <1>4, <2>2 DEF Resetting
<1>12. QED
  BY <1>4, <1>6, <1>8, <1>9, <1>10, <1>11

\* What a sync executes adds to the database.
LEMMA SyncAdds ==
  ASSUME ScriptInv, NEW c \in Commands, Execute(c), mode[c] = "sync"
  PROVE  /\ objects \subseteq objects'
         /\ \E i \in Position :
               /\ Takes(c, 2 * i)
               /\ \/ Create(Script[i])
                  \/ IsInsert(i)
                  \/ ~ Possible(Script[i]) \/ Damaged(Script[i])
                  \/ flawed' = flawed \cup {c}
<1>1. PICK i \in Position :
         /\ Takes(c, 2 * i)
         /\ \/ Create(Script[i]) /\ UNCHANGED flawed
            \/ Insert(Script[i]) /\ UNCHANGED flawed
            \/ Raises(c, Script[i])
  BY ExecuteCases
<1>2. Create(Script[i]) => objects \subseteq objects'
  BY CreateEffect DEF ScriptInv
<1>3. Insert(Script[i]) => objects' = objects /\ IsInsert(i)
  BY InsertEffect DEF ScriptInv
<1>4. Raises(c, Script[i]) =>
         /\ objects' = objects
         /\ ~ Possible(Script[i]) \/ Damaged(Script[i]) \/ flawed' = flawed \cup {c}
  BY DEF Raises
<1>5. QED
  BY <1>1, <1>2, <1>3, <1>4

\* Whether a part can be completed is a matter of the database.
LEMMA WholeKept ==
  ASSUME UNCHANGED <<objects, intact>>
  PROVE  \A part : Whole(part)' <=> Whole(part)
BY DEF Whole

\* What a sync has come to stays while the database does not change.
LEMMA SyncingKept ==
  ASSUME NEW c \in Commands, Syncing(c), UNCHANGED <<objects, intact>>,
         stage'[c] = stage[c] \/ stage'[c] # "run",
         todo'[c] = todo[c] \/ stage'[c] # "run",
         \/ seen'[c] = seen[c]
         \/ seen'[c] = Nothing
  PROVE  Syncing(c)'
<1>1. \A i \in Position : Script[i].kind \in Tracked => Nothing[Script[i].kind] = {}
  BY DEF Nothing
<1>2. ASSUME NEW i \in Position, Script[i].kind \in Tracked,
             Script[i].name \in seen'[c][Script[i].kind]
      PROVE  Script[i].name \in objects'
  BY <1>1, <1>2 DEF Syncing
<1>3. ASSUME stage'[c] = "run", NEW part \in SUBSET Names, Whole(part)',
             NEW i \in Position, Script[i].kind \in Tracked, Script[i].name \in part
      PROVE  Script[i].name \in objects' \/ 2 * i \in todo'[c]
  <2>1. Whole(part)
    BY <1>3, WholeKept
  <2>2. QED
    BY <1>3, <2>1 DEF Syncing
<1>4. QED
  BY <1>2, <1>3 DEF Syncing

\* Nor does a sync add what it does not know, or mend what is damaged.
LEMMA SyncWhole ==
  ASSUME ScriptInv, NEW c \in Commands, Execute(c), mode[c] = "sync", NEW part, Whole(part)'
  PROVE  Whole(part)
<1>1. PICK i \in Position :
         /\ Takes(c, 2 * i)
         /\ \/ Create(Script[i]) /\ UNCHANGED flawed
            \/ Insert(Script[i]) /\ UNCHANGED flawed
            \/ Raises(c, Script[i])
  BY ExecuteCases
<1>2. CASE UNCHANGED <<objects, intact>>
  BY <1>2, WholeKept
<1>3. CASE Create(Script[i])
  <2>1. /\ objects' = objects \cup {Script[i].name} /\ intact' = intact \cup {Script[i].name}
        /\ ~ IsInsert(i)
    BY <1>3, CreateEffect DEF ScriptInv
  <2>2. Script[i].name \notin objects
    BY <1>3, <2>1, Positions, Distinct DEF Create, Possible, IsInsert
  <2>3. Script[i].kind # "view"
    <3>1. 2 * i \in SyncPlaces
      BY <1>1 DEF Takes, ScriptInv, Scripted
    <3>2. PICK j \in Position : 2 * i = 2 * j /\ Script[j].kind # "view"
      BY <3>1 DEF SyncPlaces
    <3>3. QED
      BY <3>2, Apart
  <2>4. Script[i].name \in Named(Tracked)
    BY <2>1, <2>3, Positions DEF Named, IsInsert
  <2>5. QED
    BY <2>1, <2>2, <2>4 DEF Whole
<1>4. QED
  <2>1. Insert(Script[i]) \/ Raises(c, Script[i]) => UNCHANGED <<objects, intact>>
    BY DEF Insert, Raises
  <2>2. QED
    BY <1>1, <1>2, <1>3, <2>1

LEMMA ExecuteSyncs ==
  ASSUME ScriptInv, NEW c \in Commands, Execute(c)
  PROVE  Syncs'
<1>1. /\ stage[c] = "run" /\ UNCHANGED <<mode, stage, seen, met>>
  BY ExecuteCases
<1>2. flawed \subseteq flawed'
  BY ExecuteCases DEF Raises
<1>3. SUFFICES ASSUME NEW d \in Commands, mode[d] = "sync",
                      \A b \in met[d] : mode[b] = "sync", d \notin flawed'
               PROVE  Syncing(d)'
  BY <1>1 DEF Syncs
<1>4. Syncing(d) /\ TypeOK
  BY <1>2, <1>3 DEF ScriptInv, Syncs
<1>5. CASE stage[d] \in {"none", "done", "cut"}
  <2>1. seen'[d] = Nothing /\ stage'[d] # "run"
    BY <1>1, <1>5 DEF ScriptInv, Scripted
  <2>2. \A k \in Position : Script[k].kind \in Tracked => Nothing[Script[k].kind] = {}
    BY DEF Nothing
  <2>3. QED
    BY <2>1, <2>2 DEF Syncing
<1>6. CASE stage[d] \notin {"none", "done", "cut"}
  <2>1. mode[c] = "sync"
    BY <1>1, <1>3, <1>6, ExecutorMet
  <2>2. objects \subseteq objects'
    BY <2>1, SyncAdds
  <2>3. PICK i \in Position :
           /\ Takes(c, 2 * i)
           /\ \/ Create(Script[i])
              \/ IsInsert(i)
              \/ ~ Possible(Script[i]) \/ Damaged(Script[i])
              \/ flawed' = flawed \cup {c}
    BY <2>1, SyncAdds
  <2>4. /\ todo'[c] = todo[c] \ {2 * i}
        /\ \A b \in Commands \ {c} : todo'[b] = todo[b]
    BY <1>4, <2>3, TakesEffect
  <2>5. ASSUME NEW part \in SUBSET Names, Whole(part)',
               NEW k \in Position, Script[k].kind \in Tracked, Script[k].name \in part,
               stage[d] = "run"
        PROVE  Script[k].name \in objects' \/ 2 * k \in todo'[d]
    <3>1. Whole(part)
      BY <2>1, <2>5, SyncWhole
    <3>2. \A j \in Position : Script[j].kind \in Tracked /\ Script[j].name \in part
             => Script[j].name \in objects \/ 2 * j \in todo[d]
      BY <1>4, <2>5, <3>1 DEF Syncing
    <3>3. CASE k # i \/ d # c
      BY <2>2, <2>4, <2>5, <3>2, <3>3, Apart
    <3>4. CASE k = i /\ d = c
      <4>1. ~ IsInsert(i) /\ flawed' # flawed \cup {c}
        BY <1>3, <2>5, <3>4, Distinct DEF IsInsert
      <4>2. CASE Create(Script[i])
        BY <1>4, <3>4, <4>2, CreateEffect
      \* The part has what the statement needs, and it is intact.
      <4>3. ASSUME NEW n \in Script[i].needs
            PROVE  n \in objects /\ n \in intact
        <5>1. n \in part
          BY <2>5, <3>1, <3>4, <4>1, <4>3, Positions DEF Whole
        <5>2. CASE n \in Named(Tracked)
          <6>1. PICK t \in Statements : t.kind \in Tracked /\ n = t.name
            BY <5>2 DEF Named
          <6>2. PICK j \in Position : t = Script[j]
            BY StatementsAt
          <6>3. ~ IsInsert(j)
            BY <6>1, <6>2, Distinct DEF IsInsert
          <6>4. j < i
            BY <4>3, <6>1, <6>2, <6>3, Earlier
          <6>5. 2 * j \notin todo[c]
            <7>1. ~ (2 * i <= 2 * j)
              BY <6>4, Positions
            <7>2. QED
              BY <2>3, <7>1 DEF Takes, First
          <6>6. n \in objects
            BY <3>2, <3>4, <5>1, <6>1, <6>2, <6>5
          <6>7. QED
            BY <3>1, <5>1, <6>6 DEF Whole
        <5>3. CASE n \notin Named(Tracked)
          BY <3>1, <5>1, <5>3 DEF Whole
        <5>4. QED
          BY <5>2, <5>3
      <4>4. CASE ~ Possible(Script[i])
        <5>1. Script[i].kind # "drop" /\ Script[i].kind # "insert"
          BY <2>5, <3>4, Distinct
        <5>2. Script[i].name \in objects \/ ~ (Script[i].needs \subseteq objects)
          BY <4>4, <5>1 DEF Possible
        <5>3. QED
          BY <2>2, <3>4, <4>3, <5>2
      <4>5. ~ Damaged(Script[i])
        BY <2>5, <3>4, <4>3, Distinct DEF Damaged
      <4>6. QED
        BY <2>3, <4>1, <4>2, <4>4, <4>5
    <3>5. QED
      BY <3>3, <3>4
  <2>6. ASSUME NEW k \in Position, Script[k].kind \in Tracked,
               Script[k].name \in seen[d][Script[k].kind]
        PROVE  Script[k].name \in objects'
    BY <1>4, <2>2, <2>6 DEF Syncing
  <2>7. QED
    BY <1>1, <2>5, <2>6 DEF Syncing
<1>7. QED
  BY <1>5, <1>6

LEMMA ExecuteFresh ==
  ASSUME ScriptInv, NEW c \in Commands, Execute(c)
  PROVE  Fresh'
<1>1. /\ stage[c] = "run" /\ mode[c] \in {"sync", "reset"}
      /\ UNCHANGED <<mode, stage, seen, met>>
  BY ExecuteCases
<1>2. flawed \subseteq flawed'
  BY ExecuteCases DEF Raises
<1>3. SUFFICES ASSUME OneByOne' PROVE
         \A k \in Position : IsInsert(k) =>
            /\ rows'[Script[k]] <= 1
            /\ \A d \in Commands :
                  /\ mode[d] = "sync" /\ 2 * k \in todo'[d] => rows'[Script[k]] = 0
                  /\ mode[d] = "reset" => Emptied(d, k)'
                  /\ /\ stage[d] \in {"type", "sequence", "index"}
                     /\ Script[k].name \notin seen[d]["table"]
                     => rows'[Script[k]] = 0
  BY <1>1 DEF Fresh
<1>4. OneByOne /\ (c \in flawed' => mode[c] = "sync")
  BY <1>1, <1>2, <1>3 DEF OneByOne
<1>5. ASSUME NEW k \in Position, IsInsert(k)
      PROVE  /\ rows[Script[k]] <= 1 /\ rows[Script[k]] \in Nat
             /\ \A d \in Commands :
                   /\ mode[d] = "sync" /\ 2 * k \in todo[d] => rows[Script[k]] = 0
                   /\ mode[d] = "reset" => Emptied(d, k)
  BY <1>4, <1>5, Positions DEF ScriptInv, Fresh, TypeOK
<1>6. \A d \in Commands \ {c} : stage[d] \in {"none", "done", "cut"}
  BY <1>1, <1>4, ExecutorMet DEF OneByOne
<1>7. PICK i \in Position :
         \/ /\ Takes(c, 2 * i)
            /\ \/ Create(Script[i]) \/ Insert(Script[i]) \/ Raises(c, Script[i])
         \/ /\ Takes(c, 2 * i - 1) /\ ~ IsInsert(i) /\ mode[c] = "reset"
            /\ Drop(DropOf(Script[i]))
  BY <1>4, ExecuteCases
<1>8. \A d \in Commands \ {c} : todo'[d] = {}
  <2>1. \A d \in Commands \ {c} : todo'[d] = todo[d]
    BY <1>7, TakesEffect DEF ScriptInv
  <2>2. \A d \in Commands \ {c} : todo[d] = {}
    BY <1>6 DEF ScriptInv, Scripted
  <2>3. QED
    BY <2>1, <2>2
\* So that what matters is what the command itself still has to do.
<1>9. ASSUME NEW k \in Position, IsInsert(k), rows'[Script[k]] <= 1,
             mode[c] = "sync" /\ 2 * k \in todo'[c] => rows'[Script[k]] = 0,
             mode[c] = "reset" => Emptied(c, k)'
      PROVE  /\ rows'[Script[k]] <= 1
             /\ \A d \in Commands :
                   /\ mode[d] = "sync" /\ 2 * k \in todo'[d] => rows'[Script[k]] = 0
                   /\ mode[d] = "reset" => Emptied(d, k)'
                   /\ /\ stage[d] \in {"type", "sequence", "index"}
                      /\ Script[k].name \notin seen[d]["table"]
                      => rows'[Script[k]] = 0
  <2>1. ASSUME NEW d \in Commands \ {c}
        PROVE  Emptied(d, k)' /\ 2 * k \notin todo'[d]
    BY <1>8, <2>1 DEF Emptied
  <2>2. \A d \in Commands : stage[d] \notin {"type", "sequence", "index"}
    BY <1>1, <1>6
  <2>3. QED
    BY <1>9, <2>1, <2>2
<1>10. CASE Takes(c, 2 * i) /\ (Create(Script[i]) \/ Insert(Script[i]) \/ Raises(c, Script[i]))
  <2>1. todo'[c] = todo[c] \ {2 * i}
    BY <1>10, TakesEffect DEF ScriptInv
  <2>2. ASSUME NEW k \in Position, IsInsert(k), rows'[Script[k]] # rows[Script[k]]
        PROVE  k = i /\ Insert(Script[i]) /\ rows'[Script[k]] = rows[Script[k]] + 1
    <3>1. Insert(Script[i])
      BY <1>10, <2>2 DEF Create, Raises
    <3>2. /\ rows'[Script[i]] = rows[Script[i]] + 1
          /\ \A s \in Inserts \ {Script[i]} : rows'[s] = rows[s]
      BY <3>1, InsertEffect DEF ScriptInv
    <3>3. Script[k] = Script[i]
      BY <2>2, <3>2, Positions
    <3>4. QED
      BY <3>1, <3>2, <3>3, Injective
  <2>3. ASSUME NEW k \in Position, IsInsert(k)
        PROVE  /\ rows'[Script[k]] <= 1
               /\ mode[c] = "sync" /\ 2 * k \in todo'[c] => rows'[Script[k]] = 0
               /\ mode[c] = "reset" => Emptied(c, k)'
    <3>1. CASE k = i
      <4>1. rows[Script[k]] = 0 \/ rows'[Script[k]] = rows[Script[k]]
        <5>1. mode[c] = "sync" => rows[Script[k]] = 0
          BY <1>5, <1>10, <2>3, <3>1 DEF Takes
        <5>2. mode[c] = "reset" => rows[Script[k]] = 0
          BY <1>1, <1>5, <1>10, <2>3, <3>1, EmptyBeforeInsert
        <5>3. QED
          BY <1>1, <5>1, <5>2
      <4>2. rows'[Script[k]] <= 1
        BY <1>5, <2>2, <2>3, <4>1
      <4>3. 2 * k \notin todo'[c]
        BY <2>1, <3>1
      <4>4. QED
        BY <4>2, <4>3 DEF Emptied
    <3>2. CASE k # i
      <4>1. rows'[Script[k]] = rows[Script[k]]
        BY <2>2, <2>3, <3>2
      <4>2. mode[c] = "reset" => Emptied(c, k)'
        BY <1>5, <1>10, <2>3, <4>1, EmptiedByStatement
      <4>3. QED
        BY <1>5, <2>1, <2>3, <4>1, <4>2
    <3>3. QED
      BY <3>1, <3>2
  <2>4. QED
    BY <1>9, <2>3
<1>11. CASE /\ Takes(c, 2 * i - 1) /\ ~ IsInsert(i) /\ mode[c] = "reset"
            /\ Drop(DropOf(Script[i]))
  <2>1. ASSUME NEW k \in Position, IsInsert(k)
        PROVE  /\ rows'[Script[k]] <= 1
               /\ mode[c] = "sync" /\ 2 * k \in todo'[c] => rows'[Script[k]] = 0
               /\ mode[c] = "reset" => Emptied(c, k)'
    <3>1. rows'[Script[k]] = 0 \/ rows'[Script[k]] = rows[Script[k]]
      BY <1>11, <2>1, Positions, DropEffect DEF ScriptInv
    <3>2. Emptied(c, k)'
      BY <1>5, <1>11, <2>1, EmptiedByDrop
    <3>3. QED
      BY <1>5, <1>11, <2>1, <3>1, <3>2
  <2>2. QED
    BY <1>9, <2>1
<1>12. QED
  BY <1>7, <1>10, <1>11

LEMMA ExecuteKeeps ==
  ASSUME ScriptInv, NEW c \in Commands, Execute(c)
  PROVE  ScriptInv'
BY ExecuteTypes, ExecuteOrder, ExecuteResets, ExecuteSyncs, ExecuteFresh DEF ScriptInv

-----------------------------------------------------------------------------
(***************************************************************************)
(* The other steps leave the database alone.                               *)
(***************************************************************************)
LEMMA ScriptPlaces ==
  /\ ResetScript \subseteq Places
  /\ \A found : SyncScript(found) \subseteq SyncPlaces
  /\ SyncPlaces \subseteq Places
<1>1. SyncPlaces \subseteq Places
  BY AtPlaces DEF SyncPlaces
<1>2. ResetScript \subseteq Places
  BY AtPlaces DEF ResetScript, Dropped, Position
<1>3. \A found : SyncScript(found) \subseteq SyncPlaces
  BY Distinct DEF SyncScript, SyncPlaces, Position
<1>4. QED
  BY <1>1, <1>2, <1>3

LEMMA InResetScript ==
  ASSUME NEW i \in Position
  PROVE  /\ 2 * i \in ResetScript
         /\ i \in Dropped => 2 * i - 1 \in ResetScript
         /\ Script[i].kind = "table" => i \in Dropped
BY DEF ResetScript, Dropped, Position

LEMMA CountsKept ==
  ASSUME ScriptInv, UNCHANGED rows, \A i \in Position : Past(i) \subseteq Past(i)'
  PROVE  Counted'
<1>1. ASSUME NEW i \in Position, IsInsert(i)
      PROVE  rows'[Script[i]] <= Cardinality(Past(i)')
  <2>1. Past(i)' \subseteq Commands
    BY DEF Past
  <2>2. Cardinality(Past(i)') \in Nat
    BY <2>1, ScriptAssumption, FS_Subset, FS_CardinalityType
  <2>3. rows[Script[i]] \in Nat /\ rows[Script[i]] <= Cardinality(Past(i))
    BY <1>1, Positions DEF ScriptInv, TypeOK, Counted
  <2>4. Cardinality(Past(i)) <= Cardinality(Past(i)')
    BY PastGrows
  <2>5. QED
    BY <2>2, <2>3, <2>4, PastFacts
<1>2. QED
  BY <1>1 DEF Counted

LEMMA BeginKeeps ==
  ASSUME ScriptInv, NEW c \in Commands, NEW kind \in {"sync", "reset"}, Begin(c, kind)
  PROVE  ScriptInv'
<1>1. /\ stage[c] = "none" /\ mode[c] = "none" /\ met[c] = {} /\ c \notin flawed
      /\ todo[c] = {} /\ seen[c] = Nothing
      /\ TypeOK /\ Overlap /\ Scripted
      /\ UNCHANGED <<objects, intact, rows, seen, flawed>>
  BY DEF Begin, ScriptInv, Scripted
<1>2. /\ mode' = [mode EXCEPT ![c] = kind]
      /\ stage' = [stage EXCEPT ![c] = IF kind = "sync" THEN "table" ELSE "run"]
      /\ todo' = [todo EXCEPT ![c] = IF kind = "sync" THEN {} ELSE ResetScript]
      /\ met' = [d \in Commands |-> IF d = c THEN Active
                                    ELSE IF d \in Active THEN met[d] \cup {c} ELSE met[d]]
  BY <1>1 DEF Begin, TypeOK
<1>3. /\ mode'[c] = kind
      /\ stage'[c] = IF kind = "sync" THEN "table" ELSE "run"
      /\ todo'[c] = IF kind = "sync" THEN {} ELSE ResetScript
      /\ met'[c] = Active
      /\ \A d \in Commands \ {c} :
            /\ mode'[d] = mode[d] /\ stage'[d] = stage[d] /\ todo'[d] = todo[d]
            /\ met'[d] = IF d \in Active THEN met[d] \cup {c} ELSE met[d]
  BY <1>1, <1>2 DEF TypeOK
<1>4. Active' = Active \cup {c} /\ c \notin Active
  BY <1>1, <1>3 DEF Active
<1>5. TypeOK'
  <2>1. stage' \in [Commands -> ToSet(Stages) \cup {"none", "done", "cut"}]
    <3>1. "table" \in ToSet(Stages) /\ "run" \in ToSet(Stages)
      <4>1. 1 \in DOMAIN Stages /\ 5 \in DOMAIN Stages /\ Stages[1] = "table" /\ Stages[5] = "run"
        BY DEF Stages
      <4>2. QED
        BY <4>1 DEF ToSet
    <3>2. QED
      BY <1>1, <1>2, <3>1 DEF TypeOK
  <2>2. mode' \in [Commands -> {"none", "sync", "reset"}]
    BY <1>1, <1>2 DEF TypeOK
  <2>3. todo' \in [Commands -> SUBSET Places]
    BY <1>1, <1>2, ScriptPlaces DEF TypeOK
  <2>4. met' \in [Commands -> SUBSET Commands]
    BY <1>1, <1>2 DEF TypeOK, Active
  <2>5. \A d \in Commands : stage'[d] = "done" => todo'[d] = {}
    BY <1>1, <1>3 DEF TypeOK
  <2>6. QED
    BY <1>1, <2>1, <2>2, <2>3, <2>4, <2>5 DEF TypeOK
<1>6. Counted'
  <2>1. \A i \in Position : Past(i) \subseteq Past(i)'
    BY <1>1, <1>3 DEF Past
  <2>2. QED
    BY <1>1, <2>1, CountsKept
<1>7. Damage'
  BY <1>1 DEF ScriptInv, Damage
<1>8. Overlap'
  BY <1>1, <1>3, <1>4 DEF Overlap, Active
<1>9. Scripted'
  <2>1. \A d \in Active : mode[d] # "none"
    BY <1>1 DEF Scripted, Active
  <2>2. kind \in {"sync", "reset"} /\ kind # "none"
    OBVIOUS
  <2>3. ASSUME NEW d \in Commands, NEW b \in met'[d] PROVE mode'[b] # "none"
    <3>1. b \in Active \/ b = c \/ b \in met[d]
      BY <1>3
    <3>2. b \in Commands /\ (b # c => mode[b] # "none")
      BY <1>1, <2>1, <3>1 DEF Scripted, TypeOK, Active
    <3>3. CASE b = c
      BY <1>3, <2>2, <3>3
    <3>4. CASE b # c
      BY <1>3, <3>2, <3>4
    <3>5. QED
      BY <3>3, <3>4
  <2>4. ASSUME NEW d \in Commands
        PROVE  /\ mode'[d] = "none" <=> stage'[d] = "none"
               /\ mode'[d] = "none" => met'[d] = {} /\ d \notin flawed'
               /\ todo'[d] # {} => stage'[d] = "run"
               /\ stage'[d] \in {"table", "type", "sequence", "index"} => mode'[d] = "sync"
               /\ stage'[d] \notin {"type", "sequence", "index"} => seen'[d] = Nothing
               /\ mode'[d] = "sync" => todo'[d] \subseteq SyncPlaces
               /\ mode'[d] = "reset" /\ stage'[d] = "run" =>
                     /\ todo'[d] \subseteq ResetScript
                     /\ \A p \in todo'[d], q \in ResetScript : p <= q => q \in todo'[d]
    <3>1. CASE d = c
      BY <1>1, <1>3, <2>2, <3>1
    <3>2. CASE d # c
      <4>1. /\ mode'[d] = mode[d] /\ stage'[d] = stage[d] /\ todo'[d] = todo[d]
            /\ seen'[d] = seen[d] /\ (d \in flawed' <=> d \in flawed)
        BY <1>1, <1>3, <3>2
      <4>2. stage[d] = "none" => met'[d] = met[d]
        BY <1>3, <3>2 DEF Active
      <4>3. QED
        BY <1>1, <4>1, <4>2 DEF Scripted
    <3>3. QED
      BY <3>1, <3>2
  <2>5. QED
    BY <2>3, <2>4 DEF Scripted
<1>10. Resets'
  <2>1. SUFFICES ASSUME NEW d \in Commands, mode'[d] = "reset", stage'[d] = "run",
                        met'[d] = {}, d \notin flawed'
                 PROVE  Resetting(d)'
    BY DEF Resets
  <2>2. d = c
    BY <1>3, <2>1 DEF Active
  <2>3. todo'[c] = ResetScript
    BY <1>3, <2>1, <2>2
  <2>4. QED
    BY <2>2, <2>3, InResetScript DEF Resetting, Emptied
<1>11. Syncs'
  <2>1. SUFFICES ASSUME NEW d \in Commands, mode'[d] = "sync",
                        \A b \in met'[d] : mode'[b] = "sync", d \notin flawed'
                 PROVE  Syncing(d)'
    BY DEF Syncs
  <2>2. CASE d = c
    <3>1. \A k \in Position : Script[k].kind \in Tracked => Nothing[Script[k].kind] = {}
      BY DEF Nothing
    <3>2. QED
      BY <1>1, <1>3, <2>1, <2>2, <3>1 DEF Syncing
  <2>3. CASE d # c
    <3>1. \A b \in met[d] : mode[b] = "sync"
      <4>1. c \notin met[d] /\ met[d] \subseteq Commands /\ met[d] \subseteq met'[d]
        BY <1>1, <1>3, <2>3 DEF Scripted, TypeOK
      <4>2. QED
        BY <1>3, <2>1, <4>1
    <3>2. Syncing(d)
      BY <1>1, <1>3, <2>1, <2>3, <3>1 DEF ScriptInv, Syncs
    <3>3. QED
      BY <1>1, <1>3, <2>3, <3>2, SyncingKept
  <2>4. QED
    BY <2>2, <2>3
<1>12. Fresh'
  <2>1. SUFFICES ASSUME OneByOne' PROVE
           \A i \in Position : IsInsert(i) =>
              /\ rows'[Script[i]] <= 1
              /\ \A d \in Commands :
                    /\ mode'[d] = "sync" /\ 2 * i \in todo'[d] => rows'[Script[i]] = 0
                    /\ mode'[d] = "reset" => Emptied(d, i)'
                    /\ /\ stage'[d] \in {"type", "sequence", "index"}
                       /\ Script[i].name \notin seen'[d]["table"]
                       => rows'[Script[i]] = 0
    BY DEF Fresh
  <2>2. OneByOne
    <3>1. ASSUME NEW d \in Commands
          PROVE  met[d] = {} /\ (d \in flawed => mode[d] = "sync")
      <4>1. CASE d = c
        BY <1>1, <4>1
      <4>2. CASE d # c
        BY <1>1, <1>3, <2>1, <4>2 DEF OneByOne
      <4>3. QED
        BY <4>1, <4>2
    <3>2. QED
      BY <3>1 DEF OneByOne
  <2>3. ASSUME NEW i \in Position, IsInsert(i), NEW d \in Commands
        PROVE  /\ rows'[Script[i]] <= 1
               /\ mode'[d] = "sync" /\ 2 * i \in todo'[d] => rows'[Script[i]] = 0
               /\ mode'[d] = "reset" => Emptied(d, i)'
               /\ /\ stage'[d] \in {"type", "sequence", "index"}
                  /\ Script[i].name \notin seen'[d]["table"]
                  => rows'[Script[i]] = 0
    <3>1. rows[Script[i]] <= 1
      BY <2>2, <2>3 DEF ScriptInv, Fresh
    <3>2. CASE d = c
      BY <1>1, <1>3, <3>1, <3>2, InResetScript DEF Emptied
    <3>3. CASE d # c
      <4>1. /\ mode[d] = "sync" /\ 2 * i \in todo[d] => rows[Script[i]] = 0
            /\ mode[d] = "reset" => Emptied(d, i)
            /\ /\ stage[d] \in {"type", "sequence", "index"}
               /\ Script[i].name \notin seen[d]["table"]
               => rows[Script[i]] = 0
        BY <2>2, <2>3 DEF ScriptInv, Fresh
      <4>2. /\ mode'[d] = mode[d] /\ stage'[d] = stage[d] /\ todo'[d] = todo[d]
            /\ UNCHANGED <<rows, seen>>
        BY <1>1, <1>3, <3>3
      <4>3. Emptied(d, i) => Emptied(d, i)'
        BY <4>2 DEF Emptied
      <4>4. QED
        BY <3>1, <4>1, <4>2, <4>3
    <3>4. QED
      BY <3>2, <3>3
  <2>4. QED
    BY <2>3
<1>13. QED
  BY <1>5, <1>6, <1>7, <1>8, <1>9, <1>10, <1>11, <1>12 DEF ScriptInv

\* A command ends, or is cut off.
LEMMA EndKeeps ==
  ASSUME ScriptInv, NEW c \in Commands, Finish(c) \/ Crash(c)
  PROVE  ScriptInv'
<1>1. /\ stage[c] \notin {"none", "done", "cut"}
      /\ TypeOK /\ Overlap /\ Scripted
      /\ UNCHANGED <<objects, intact, rows, mode, met, flawed>>
      /\ stage'[c] \in {"done", "cut"} /\ todo'[c] = {} /\ seen'[c] = Nothing
      /\ \A d \in Commands \ {c} :
            stage'[d] = stage[d] /\ todo'[d] = todo[d] /\ seen'[d] = seen[d]
  <2>1. CASE Finish(c)
    BY <2>1 DEF Finish, ScriptInv, TypeOK, Scripted
  <2>2. CASE Crash(c)
    BY <2>2 DEF Crash, Active, ScriptInv, TypeOK, Scripted
  <2>3. QED
    BY <2>1, <2>2
<1>2. TypeOK'
  <2>1. Nothing \in [Tracked -> SUBSET Names]
    BY DEF Nothing
  <2>2. /\ stage' \in [Commands -> ToSet(Stages) \cup {"none", "done", "cut"}]
        /\ todo' \in [Commands -> SUBSET Places]
        /\ seen' \in [Commands -> [Tracked -> SUBSET Names]]
    BY <1>1, <2>1 DEF Finish, Crash, TypeOK
  <2>3. \A d \in Commands : stage'[d] = "done" => todo'[d] = {}
    BY <1>1 DEF TypeOK
  <2>4. QED
    BY <1>1, <2>2, <2>3 DEF TypeOK
<1>3. Counted'
  <2>1. \A i \in Position : Past(i) \subseteq Past(i)'
    BY <1>1 DEF Past
  <2>2. QED
    BY <1>1, <2>1, CountsKept
<1>4. Damage' /\ Overlap'
  BY <1>1 DEF ScriptInv, Damage, Overlap, Active
<1>5. Scripted'
  BY <1>1 DEF Scripted
<1>6. Resets'
  BY <1>1 DEF ScriptInv, Resets, Resetting, Emptied
<1>7. Syncs'
  <2>1. ASSUME NEW d \in Commands, Syncing(d)
        PROVE  Syncing(d)'
    BY <1>1, <2>1, SyncingKept
  <2>2. QED
    BY <1>1, <2>1 DEF ScriptInv, Syncs
<1>8. Fresh'
  <2>1. \A i \in Position : Emptied(c, i)'
    BY <1>1 DEF Emptied
  <2>2. \A d \in Commands \ {c} : \A i \in Position : Emptied(d, i) => Emptied(d, i)'
    BY <1>1 DEF Emptied
  <2>3. OneByOne' => OneByOne
    BY <1>1 DEF OneByOne
  <2>4. QED
    BY <1>1, <2>1, <2>2, <2>3 DEF ScriptInv, Fresh
<1>9. QED
  BY <1>2, <1>3, <1>4, <1>5, <1>6, <1>7, <1>8 DEF ScriptInv

\* What a sync is going to execute.
LEMMA InSyncScript ==
  ASSUME NEW found, NEW i \in Position
  PROVE  2 * i \in SyncScript(found) <=>
            \/ IsInsert(i) /\ Script[i].name \notin found["table"]
            \/ Script[i].kind \in Tracked /\ Script[i].name \notin found[Script[i].kind]
<1> DEFINE Missing(j) == \/ Script[j].kind = "insert" /\ Script[j].name \notin found["table"]
                         \/ Script[j].kind \in Tracked /\ Script[j].name \notin found[Script[j].kind]
<1>1. SyncScript(found) = {2 * j : j \in {k \in Position : Missing(k)}}
  BY DEF SyncScript, Position
<1>2. Missing(i) => 2 * i \in SyncScript(found)
  BY <1>1
<1>3. ASSUME 2 * i \in SyncScript(found)
      PROVE  Missing(i)
  <2>1. PICK j \in Position : Missing(j) /\ 2 * i = 2 * j
    BY <1>1, <1>3
  <2>2. i \in Nat /\ j \in Nat
    BY Positions
  <2>3. i = j
    BY <2>1, <2>2
  <2>4. QED
    BY <2>1, <2>3
<1>4. QED
  BY <1>2, <1>3 DEF IsInsert

\* What a catalogue query returns, and the script that is made with the last one.
LEMMA ReadCatalogueEffect ==
  ASSUME ScriptInv, NEW c \in Commands, ReadCatalogue(c)
  PROVE  \E found \in [Tracked -> SUBSET Names] :
            /\ stage[c] \in Tracked
            /\ found[stage[c]] = objects \cap Named({stage[c]})
            /\ \A k \in Tracked \ {stage[c]} : found[k] = seen[c][k]
            /\ \/ /\ stage[c] # "index" /\ stage'[c] \in {"type", "sequence", "index"}
                  /\ seen'[c] = found /\ todo'[c] = {}
               \/ /\ stage[c] = "index" /\ stage'[c] = "run"
                  /\ seen'[c] = Nothing /\ todo'[c] = SyncScript(found)
            /\ stage[c] = "table" \/ stage[c] \in {"type", "sequence", "index"}
            /\ \A d \in Commands \ {c} :
                  stage'[d] = stage[d] /\ todo'[d] = todo[d] /\ seen'[d] = seen[d]
            /\ stage' \in [Commands -> ToSet(Stages) \cup {"none", "done", "cut"}]
            /\ todo' \in [Commands -> SUBSET Places]
            /\ seen' \in [Commands -> [Tracked -> SUBSET Names]]
            /\ UNCHANGED <<objects, intact, rows, mode, met, flawed>>
<1> DEFINE Found(i) == [seen[c] EXCEPT ![Stages[i]] = objects \cap Named({Stages[i]})]
<1>1. PICK i \in 1 .. 4 :
         /\ stage[c] = Stages[i]
         /\ stage' = [stage EXCEPT ![c] = Stages[i + 1]]
         /\ IF i < 4
            THEN seen' = [seen EXCEPT ![c] = Found(i)] /\ UNCHANGED todo
            ELSE /\ seen' = [seen EXCEPT ![c] = Nothing]
                 /\ todo' = [todo EXCEPT ![c] = SyncScript(Found(i))]
         /\ UNCHANGED <<objects, intact, rows, mode, met, flawed>>
  BY DEF ReadCatalogue
<1>2. /\ stage[c] \in Tracked /\ stage[c] # "run"
      /\ i < 4 => stage[c] # "index" /\ Stages[i + 1] \in {"type", "sequence", "index"}
      /\ i = 4 => stage[c] = "index" /\ Stages[i + 1] = "run"
      /\ stage[c] = "table" \/ stage[c] \in {"type", "sequence", "index"}
      /\ Stages[i + 1] \in ToSet(Stages)
  <2>1. i = 1 \/ i = 2 \/ i = 3 \/ i = 4
    BY <1>1
  <2>2. /\ Stages[1] = "table" /\ Stages[2] = "type" /\ Stages[3] = "sequence"
        /\ Stages[4] = "index" /\ Stages[5] = "run" /\ DOMAIN Stages = 1 .. 5
    BY DEF Stages
  <2>3. i + 1 \in DOMAIN Stages
    BY <2>1, <2>2
  <2>4. Stages[i + 1] \in ToSet(Stages)
    BY <2>3 DEF ToSet
  <2>5. QED
    BY <1>1, <2>1, <2>2, <2>4 DEF Tracked
<1>3. /\ TypeOK /\ todo[c] = {} /\ Named({Stages[i]}) \subseteq Names
      /\ Nothing \in [Tracked -> SUBSET Names]
  BY <1>2 DEF ScriptInv, Scripted, Named, Names, Nothing
<1>4. /\ Found(i) \in [Tracked -> SUBSET Names]
      /\ Found(i)[stage[c]] = objects \cap Named({stage[c]})
      /\ \A k \in Tracked \ {stage[c]} : Found(i)[k] = seen[c][k]
  BY <1>1, <1>2, <1>3 DEF TypeOK
<1>5. SyncScript(Found(i)) \subseteq Places
  BY ScriptPlaces
<1> HIDE DEF Found
<1>6. /\ stage' \in [Commands -> ToSet(Stages) \cup {"none", "done", "cut"}]
      /\ todo' \in [Commands -> SUBSET Places]
      /\ seen' \in [Commands -> [Tracked -> SUBSET Names]]
  <2>1. stage' \in [Commands -> ToSet(Stages) \cup {"none", "done", "cut"}]
    BY <1>1, <1>2, <1>3 DEF TypeOK
  <2>2. UNCHANGED todo \/ todo' = [todo EXCEPT ![c] = SyncScript(Found(i))]
    BY <1>1
  <2>3. todo' \in [Commands -> SUBSET Places]
    BY <1>3, <1>5, <2>2 DEF TypeOK
  <2>4. seen' = [seen EXCEPT ![c] = Found(i)] \/ seen' = [seen EXCEPT ![c] = Nothing]
    BY <1>1
  <2>5. seen' \in [Commands -> [Tracked -> SUBSET Names]]
    BY <1>3, <1>4, <2>4 DEF TypeOK
  <2>6. QED
    BY <2>1, <2>3, <2>5
<1>7. /\ stage'[c] = Stages[i + 1]
      /\ \A d \in Commands \ {c} :
            stage'[d] = stage[d] /\ todo'[d] = todo[d] /\ seen'[d] = seen[d]
  BY <1>1, <1>3 DEF TypeOK
<1>8. \/ i < 4 /\ seen'[c] = Found(i) /\ todo'[c] = {}
      \/ i = 4 /\ seen'[c] = Nothing /\ todo'[c] = SyncScript(Found(i))
  BY <1>1, <1>3 DEF TypeOK
<1>9. QED
  BY <1>1, <1>2, <1>4, <1>6, <1>7, <1>8

LEMMA ReadCatalogueKeeps ==
  ASSUME ScriptInv, NEW c \in Commands, ReadCatalogue(c)
  PROVE  ScriptInv'
<1>1. PICK found \in [Tracked -> SUBSET Names] :
         /\ stage[c] \in Tracked
         /\ found[stage[c]] = objects \cap Named({stage[c]})
         /\ \A k \in Tracked \ {stage[c]} : found[k] = seen[c][k]
         /\ \/ /\ stage[c] # "index" /\ stage'[c] \in {"type", "sequence", "index"}
               /\ seen'[c] = found /\ todo'[c] = {}
            \/ /\ stage[c] = "index" /\ stage'[c] = "run"
               /\ seen'[c] = Nothing /\ todo'[c] = SyncScript(found)
         /\ stage[c] = "table" \/ stage[c] \in {"type", "sequence", "index"}
         /\ \A d \in Commands \ {c} :
               stage'[d] = stage[d] /\ todo'[d] = todo[d] /\ seen'[d] = seen[d]
         /\ stage' \in [Commands -> ToSet(Stages) \cup {"none", "done", "cut"}]
         /\ todo' \in [Commands -> SUBSET Places]
         /\ seen' \in [Commands -> [Tracked -> SUBSET Names]]
         /\ UNCHANGED <<objects, intact, rows, mode, met, flawed>>
  BY ReadCatalogueEffect
<1>2. /\ TypeOK /\ Overlap /\ Scripted
      /\ stage[c] \in {"table", "type", "sequence", "index"}
      /\ mode[c] = "sync" /\ todo[c] = {}
      /\ stage[c] \notin {"none", "run", "done", "cut"}
      /\ stage'[c] \in {"type", "sequence", "index", "run"}
  BY <1>1 DEF ScriptInv, Scripted
<1>3. TypeOK'
  <2>1. \A d \in Commands : stage'[d] = "done" => todo'[d] = {}
    BY <1>1, <1>2 DEF TypeOK
  <2>2. QED
    BY <1>1, <1>2, <2>1 DEF TypeOK
<1>4. Counted'
  <2>1. \A i \in Position : Past(i) \subseteq Past(i)'
    BY <1>1, <1>2 DEF Past
  <2>2. QED
    BY <1>1, <2>1, CountsKept
<1>5. Damage'
  BY <1>1 DEF ScriptInv, Damage
<1>6. Overlap'
  BY <1>1, <1>2 DEF Overlap, Active
<1>7. Scripted'
  BY <1>1, <1>2, ScriptPlaces DEF Scripted
<1>8. Resets'
  BY <1>1, <1>2 DEF ScriptInv, Resets, Resetting, Emptied
<1>9. Syncs'
  <2>1. SUFFICES ASSUME NEW d \in Commands, mode[d] = "sync",
                        \A b \in met[d] : mode[b] = "sync", d \notin flawed
                 PROVE  Syncing(d)'
    BY <1>1 DEF Syncs
  <2>2. Syncing(d)
    BY <2>1 DEF ScriptInv, Syncs
  <2>3. CASE d # c
    BY <1>1, <2>2, <2>3, SyncingKept
  <2>4. CASE d = c
    <3>1. ASSUME NEW i \in Position, Script[i].kind \in Tracked,
                 Script[i].name \in found[Script[i].kind]
          PROVE  Script[i].name \in objects
      BY <1>1, <2>2, <2>4, <3>1 DEF Syncing
    <3>2. \A i \in Position : Script[i].kind \in Tracked => Nothing[Script[i].kind] = {}
      BY DEF Nothing
    <3>3. CASE stage'[c] # "run"
      BY <1>1, <2>4, <3>1, <3>3 DEF Syncing
    <3>4. CASE stage'[c] = "run"
      <4>1. \A i \in Position : Script[i].kind \in Tracked =>
               Script[i].name \in objects \/ 2 * i \in todo'[c]
        BY <1>1, <3>1, <3>4, InSyncScript
      <4>2. QED
        BY <1>1, <2>4, <3>2, <3>4, <4>1 DEF Syncing
    <3>5. QED
      BY <3>3, <3>4
  <2>5. QED
    BY <2>3, <2>4
<1>10. Fresh'
  <2>1. SUFFICES ASSUME OneByOne, NEW i \in Position, IsInsert(i)
                 PROVE  /\ rows[Script[i]] <= 1
                        /\ \A d \in Commands :
                              /\ mode[d] = "sync" /\ 2 * i \in todo'[d] => rows[Script[i]] = 0
                              /\ mode[d] = "reset" => Emptied(d, i)'
                              /\ /\ stage'[d] \in {"type", "sequence", "index"}
                                 /\ Script[i].name \notin seen'[d]["table"]
                                 => rows[Script[i]] = 0
    BY <1>1 DEF Fresh, OneByOne
  <2>2. /\ rows[Script[i]] <= 1
        /\ \A d \in Commands :
              /\ mode[d] = "sync" /\ 2 * i \in todo[d] => rows[Script[i]] = 0
              /\ mode[d] = "reset" => Emptied(d, i)
              /\ /\ stage[d] \in {"type", "sequence", "index"}
                 /\ Script[i].name \notin seen[d]["table"]
                 => rows[Script[i]] = 0
    BY <2>1 DEF ScriptInv, Fresh
  <2>3. \A d \in Commands \ {c} : Emptied(d, i) => Emptied(d, i)'
    BY <1>1 DEF Emptied
  \* A table that the first query does not find has no rows.
  <2>4. Script[i].name \notin found["table"] => rows[Script[i]] = 0
    <3>1. CASE stage[c] = "table"
      <4>1. Script[i].name \in Named({"table"})
        <5>1. PICK j \in Position : Script[j].kind = "table" /\ Script[j].name = Script[i].name
          BY <2>1, Filled
        <5>2. Script[j] \in {t \in Statements : t.kind \in {"table"}}
          BY <5>1, Positions
        <5>3. QED
          BY <5>1, <5>2 DEF Named
      <4>2. Script[i] \in Inserts /\ rows[Script[i]] \in Nat
        BY <1>2, <2>1, Positions DEF TypeOK
      <4>3. Script[i].name \notin objects => rows[Script[i]] = 0
        BY <1>2, <4>2 DEF TypeOK
      <4>4. QED
        BY <1>1, <3>1, <4>1, <4>3
    <3>2. CASE stage[c] # "table"
      BY <1>1, <2>2, <3>2 DEF Tracked
    <3>3. QED
      BY <3>1, <3>2
  <2>5. 2 * i \in todo'[c] => Script[i].name \notin found["table"]
    <3>1. Script[i].kind = "insert" /\ Script[i].kind \notin Tracked
      BY <2>1 DEF IsInsert, Tracked
    <3>2. 2 * i \in SyncScript(found) => Script[i].name \notin found["table"]
      BY <3>1, InSyncScript
    <3>3. QED
      BY <1>1, <3>2
  <2>6. stage'[c] \in {"type", "sequence", "index"} => seen'[c] = found
    BY <1>1
  <2>7. QED
    BY <1>1, <1>2, <2>2, <2>3, <2>4, <2>5, <2>6
<1>11. QED
  BY <1>3, <1>4, <1>5, <1>6, <1>7, <1>8, <1>9, <1>10 DEF ScriptInv

-----------------------------------------------------------------------------
LEMMA ScriptInvInit ==
  Init => ScriptInv
<1>1. SUFFICES ASSUME Init PROVE ScriptInv
  OBVIOUS
<1>2. TypeOK
  <2>1. Nothing \in [Tracked -> SUBSET Names]
    BY DEF Nothing
  <2>2. Cardinality(Commands) \in Nat
    BY ScriptAssumption, FS_CardinalityType
  <2>3. rows \in [Inserts -> 0 .. Cardinality(Commands)]
    BY <1>1, <2>2 DEF Init
  <2>4. QED
    BY <1>1, <2>1, <2>3 DEF Init, TypeOK
<1>3. Counted
  <2>1. \A i \in Position : IsInsert(i) => rows[Script[i]] = 0
    BY <1>1, Positions DEF Init
  <2>2. QED
    BY <2>1, PastFacts DEF Counted
<1>4. Damage /\ Overlap
  BY <1>1 DEF Init, Damage, Overlap, Active
<1>5. Scripted
  BY <1>1 DEF Init, Scripted
<1>6. Resets /\ Syncs
  BY <1>1 DEF Init, Resets, Syncs
<1>7. Fresh
  <2>1. \A i \in Position : IsInsert(i) => rows[Script[i]] = 0
    BY <1>1, Positions DEF Init
  <2>2. QED
    BY <1>1, <2>1 DEF Init, Fresh
<1>8. QED
  BY <1>2, <1>3, <1>4, <1>5, <1>6, <1>7 DEF ScriptInv

LEMMA ScriptInvNext ==
  ScriptInv /\ [Next]_vars => ScriptInv'
<1>1. SUFFICES ASSUME ScriptInv, [Next]_vars PROVE ScriptInv'
  OBVIOUS
<1>2. ASSUME NEW c \in Commands,
             \/ Begin(c, "sync") \/ Begin(c, "reset")
             \/ ReadCatalogue(c) \/ Execute(c) \/ Finish(c) \/ Crash(c)
      PROVE  ScriptInv'
  <2>1. CASE Begin(c, "sync") \/ Begin(c, "reset")
    BY <1>1, <2>1, BeginKeeps
  <2>2. CASE ReadCatalogue(c)
    BY <1>1, <2>2, ReadCatalogueKeeps
  <2>3. CASE Execute(c)
    BY <1>1, <2>3, ExecuteKeeps
  <2>4. CASE Finish(c) \/ Crash(c)
    BY <1>1, <2>4, EndKeeps
  <2>5. QED
    BY <1>2, <2>1, <2>2, <2>3, <2>4
<1>3. CASE UNCHANGED vars
  <2>1. TypeOK' /\ Damage' /\ Overlap' /\ Scripted'
    BY <1>1, <1>3 DEF vars, ScriptInv, TypeOK, Damage, Overlap, Active, Scripted
  <2>2. Counted'
    BY <1>1, <1>3 DEF vars, ScriptInv, Counted, Past
  <2>3. Resets'
    BY <1>1, <1>3 DEF vars, ScriptInv, Resets, Resetting, Emptied
  <2>4. Syncs'
    BY <1>1, <1>3, SyncingKept DEF vars, ScriptInv, Syncs
  <2>5. Fresh'
    BY <1>1, <1>3 DEF vars, ScriptInv, Fresh, OneByOne, Emptied
  <2>6. QED
    BY <2>1, <2>2, <2>3, <2>4, <2>5 DEF ScriptInv
<1>4. QED
  BY <1>1, <1>2, <1>3 DEF Next

LEMMA ScriptInvAlways ==
  Spec => []ScriptInv
BY ScriptInvInit, ScriptInvNext, PTL DEF Spec

\* What the variables are at all times: there are rows in existing tables only, and
\* no INSERT is executed more often than there are commands.
THEOREM TypeCorrect ==
  Spec => []TypeOK
<1>1. ScriptInv => TypeOK
  BY DEF ScriptInv
<1>2. QED
  BY <1>1, ScriptInvAlways, PTL

\* The commands, one after the other and cut off anywhere, leave no row of
\* database.sql twice in its table, for any database.sql.
THEOREM RowsOnceAlways ==
  Spec => []RowsOnce
<1>1. ASSUME ScriptInv
      PROVE  RowsOnce
  <2>1. SUFFICES ASSUME OneByOne, NEW s \in Inserts
                 PROVE  rows[s] <= 1
    BY DEF RowsOnce, OneByOne
  <2>2. PICK i \in Position : s = Script[i]
    BY StatementsAt DEF Inserts
  <2>3. IsInsert(i)
    BY <2>2, Positions
  <2>4. QED
    BY <1>1, <2>1, <2>2, <2>3 DEF ScriptInv, Fresh
<1>2. QED
  BY <1>1, ScriptInvAlways, PTL

\* A command that succeeds has nothing left to execute.
LEMMA SucceedsAtTheEnd ==
  ASSUME ScriptInv, Next, NEW c \in Commands, Succeeds(c)
  PROVE  /\ stage[c] = "run" /\ todo[c] = {} /\ c \notin flawed
         /\ UNCHANGED <<objects, intact, rows, mode, met>>
<1>1. stage[c] = "run" /\ stage'[c] = "done" /\ TypeOK
  BY DEF Succeeds, ScriptInv
<1>2. PICK d \in Commands :
         \/ Begin(d, "sync") \/ Begin(d, "reset")
         \/ ReadCatalogue(d) \/ Execute(d) \/ Finish(d) \/ Crash(d)
  BY DEF Next
<1>3. ~ Execute(d)
  BY <1>1 DEF Execute
<1>4. ~ Begin(d, "sync") /\ ~ Begin(d, "reset")
  <2>1. \A kind : Begin(d, kind) => stage[d] = "none" /\ \A b \in Commands \ {d} : stage'[b] = stage[b]
    BY <1>1 DEF Begin, TypeOK
  <2>2. QED
    BY <1>1, <2>1
<1>5. ~ ReadCatalogue(d)
  <2>1. ReadCatalogue(d) => stage[d] \in Tracked /\ \A b \in Commands \ {d} : stage'[b] = stage[b]
    BY ReadCatalogueEffect
  <2>2. QED
    BY <1>1, <2>1 DEF Tracked
<1>6. ~ Crash(d)
  BY <1>1 DEF Crash, TypeOK
<1>7. Finish(d) /\ d = c
  BY <1>1, <1>2, <1>3, <1>4, <1>5, <1>6 DEF Finish, TypeOK
<1>8. QED
  BY <1>1, <1>7 DEF Finish, Succeeds

\* A resetdb that ran alone leaves what database.sql describes, whatever it found and
\* whatever database.sql says.
THEOREM ResetRestoresAlways ==
  Spec => ResetRestores
<1>1. ASSUME ScriptInv, [Next]_vars, NEW c \in Commands, Succeeds(c), mode[c] = "reset",
             met[c] = {}
      PROVE  intact = Names /\ \A s \in Inserts : rows[s] = 1
  <2>1. Next
    BY <1>1 DEF Succeeds, vars
  <2>2. stage[c] = "run" /\ todo[c] = {} /\ c \notin flawed
    BY <1>1, <2>1, SucceedsAtTheEnd
  <2>3. Resetting(c)
    BY <1>1, <2>2 DEF ScriptInv, Resets
  <2>4. \A i \in Position :
           IF IsInsert(i) THEN rows[Script[i]] = 1 ELSE Script[i].name \in intact
    BY <2>2, <2>3 DEF Resetting
  <2>5. \A s \in Inserts : rows[s] = 1
    <3>1. SUFFICES ASSUME NEW s \in Inserts PROVE rows[s] = 1
      OBVIOUS
    <3>2. PICK i \in Position : s = Script[i]
      BY StatementsAt DEF Inserts
    <3>3. QED
      BY <2>4, <3>2, Positions
  <2>6. intact \subseteq Names
    BY <1>1 DEF ScriptInv, TypeOK
  <2>7. ASSUME NEW name \in Names PROVE name \in intact
    <3>1. PICK i \in Position : name = Script[i].name
      BY StatementsAt DEF Names
    <3>2. PICK j \in Position : ~ IsInsert(j) /\ Script[j].name = name
      BY <3>1, Filled DEF IsInsert
    <3>3. QED
      BY <2>4, <3>2
  <2>8. QED
    BY <2>5, <2>6, <2>7
<1>2. ScriptInv /\ [Next]_vars =>
         [\A c \in Commands : Succeeds(c) /\ mode[c] = "reset" /\ met[c] = {} =>
             /\ intact = Names
             /\ \A s \in Inserts : rows[s] = 1]_vars
  BY <1>1
<1>3. QED
  BY <1>2, ScriptInvAlways, PTL DEF Spec, ResetRestores

\* A syncdb beside which there were only other syncs has completed every part of
\* database.sql that it can complete, for any database.sql of ScriptAssumption.
THEOREM SyncCompletesAlways ==
  Spec => SyncCompletes
<1>1. ASSUME ScriptInv, [Next]_vars, NEW c \in Commands, Succeeds(c), mode[c] = "sync",
             \A d \in met[c] : mode[d] = "sync",
             NEW part \in SUBSET Names, Whole(part)
      PROVE  part \subseteq objects
  <2>1. Next
    BY <1>1 DEF Succeeds, vars
  <2>2. stage[c] = "run" /\ todo[c] = {} /\ c \notin flawed
    BY <1>1, <2>1, SucceedsAtTheEnd
  <2>3. Syncing(c)
    BY <1>1, <2>2 DEF ScriptInv, Syncs
  <2>4. ASSUME NEW name \in part, name \in Named(Tracked) PROVE name \in objects
    <3>1. PICK i \in Position : Script[i].kind \in Tracked /\ name = Script[i].name
      BY <2>4, StatementsAt DEF Named
    <3>2. QED
      BY <1>1, <2>2, <2>3, <3>1 DEF Syncing
  <2>5. QED
    BY <1>1, <2>4 DEF Whole
<1>2. ScriptInv /\ [Next]_vars =>
         [\A c \in Commands :
             Succeeds(c) /\ mode[c] = "sync" /\ (\A d \in met[c] : mode[d] = "sync")
             => \A part \in SUBSET Names : Whole(part) => part \subseteq objects]_vars
  BY <1>1
<1>3. QED
  BY <1>2, ScriptInvAlways, PTL DEF Spec, SyncCompletes
=============================================================================
