-------------------------------- MODULE Watch --------------------------------
(***************************************************************************)
(* The readings a run's ledger is made of (cli/internal/sandbox/state.go): *)
(* what of a copy's datastore is watched, what a reading of it is, and     *)
(* what is said to have moved between two of them.                         *)
(*                                                                         *)
(* A datastore is a function from table names to [cols, rows, safe].       *)
(* Columns are in their order, each [name, type, auto, primary, dated,     *)
(* safe], where dated is a name like created_at and safe a name that can   *)
(* be quoted.  Rows are a function from a row's identity, which nobody can *)
(* read, to its values by column; a value of 0 is NULL, and its text "".   *)
(* A directory is [base, files], the last segment of its path and how many *)
(* files the container counts in it.                                       *)
(*                                                                         *)
(* Operators whose names end in _ are mutants of the operator after them.  *)
(***************************************************************************)
EXTENDS Integers, Sequences, FiniteSets, SequencesExt

Unread == <<"no reading">>

Integral == {"int", "bigint"}

\* temporalType, of the names a datastore gives its types: those of Postgres are
\* "timestamp without time zone" and "timestamp with time zone".
Temporal == [mysql |-> {"timestamp", "date"}, postgres |-> {"date"}]

Rank(driver, col) ==
  CASE col.auto                                         -> 3
    [] col.primary /\ col.type \in Integral             -> 2
    [] col.dated /\ col.type \in Temporal[driver]       -> 1
    [] OTHER                                            -> 0

NoKey == ""

\* keys: the first column of the best rank.
Key(driver, cols) ==
  LET fit == {k \in DOMAIN cols : cols[k].safe /\ Rank(driver, cols[k]) > 0}
      over(k, j) == \/ Rank(driver, cols[k]) > Rank(driver, cols[j])
                    \/ Rank(driver, cols[k]) = Rank(driver, cols[j]) /\ k <= j
  IN  IF fit = {} THEN NoKey ELSE cols[CHOOSE k \in fit : \A j \in fit : over(k, j)].name

\* Discover, of the tables there are when the schema steps have run.
Discovered(driver, tables, only) ==
  [t \in {u \in DOMAIN tables : tables[u].safe /\ (only = {} \/ u \in only)} |-> Key(driver, tables[t].cols)]

Highest(table, key) ==
  LET there == {table.rows[r][key] : r \in DOMAIN table.rows} IN
  IF there = {} THEN 0 ELSE Max(there)

\* countQuery: one statement for every unit, so one that fails is all of them.
Askable(units, tables) ==
  \A t \in DOMAIN units :
    t \in DOMAIN tables /\ units[t] \in {NoKey} \cup {tables[t].cols[k].name : k \in DOMAIN tables[t].cols}

CountOf(dirs) ==
  [k \in DOMAIN dirs |-> [name |-> <<"files", dirs[k].base>>, rows |-> dirs[k].files, high |-> 0, countOnly |-> TRUE]]

\* Watermark: the units that were discovered, and the directories.
Watermark(units, tables, dirs) ==
  IF ~Askable(units, tables) THEN Unread
  ELSE LET seen == SetToSeq(DOMAIN units) IN
       [k \in DOMAIN seen |->
          [name |-> <<"table", seen[k]>>, rows |-> Cardinality(DOMAIN tables[seen[k]].rows),
           high |-> IF units[seen[k]] = NoKey THEN 0 ELSE Highest(tables[seen[k]], units[seen[k]]),
           countOnly |-> units[seen[k]] = NoKey]]
       \o CountOf(dirs)

\* What a unit was; nothing where it was not there, the later where two have one name.
Was(before, name) ==
  LET those == {k \in DOMAIN before : before[k].name = name} IN
  IF those = {} THEN [rows |-> 0, high |-> 0] ELSE before[Max(those)]

Magnitude(n) == IF n < 0 THEN -n ELSE n

Entry(old, now) ==
  [unit |-> now.name, rows |-> now.rows - old.rows,
   from |-> IF now.countOnly THEN 0 ELSE old.high, to |-> IF now.countOnly THEN 0 ELSE now.high]

\* Mutant: a unit whose count is what it was has not moved.
MovesByCount_(before, now) ==
  LET told == SelectSeq(now, LAMBDA u : u.rows # Was(before, u.name).rows)
  IN  [k \in DOMAIN told |-> Entry(Was(before, told[k].name), told[k])]

\* Diff: the biggest mover first; equals, by their names.
Moves(before, now) ==
  LET told == SelectSeq(now, LAMBDA u : LET old == Was(before, u.name) IN u.rows # old.rows \/ u.high # old.high)
      entries == [k \in DOMAIN told |-> Entry(Was(before, told[k].name), told[k])]
  IN  SortSeq(entries, LAMBDA x, y : Magnitude(x.rows) > Magnitude(y.rows))

\* diff, in run/state.go: with one reading there is nothing to compare.
MovedBetween(before, now) == IF Unread \in {before, now} THEN <<>> ELSE Moves(before, now)
=============================================================================
