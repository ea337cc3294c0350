------------------------------ MODULE Snapshot ------------------------------
(***************************************************************************)
(* Snapshots of a report's rows and the diff between two row sets          *)
(* (snapshots.js).                                                         *)
(*                                                                         *)
(* A row is a function from the columns it has to values. Values are JSON  *)
(* values, equal when their texts are; Text is what String() makes of them *)
(* when they are used as a key, which several values may share. Lists      *)
(* whose order the diff does not depend on are sets.                       *)
(***************************************************************************)
EXTENDS Naturals, Sequences, FiniteSets

CONSTANTS
  Reports, Ids,    \* bound: Ids, the snapshots kept at one time
  Values, Null,    \* values of cells; null is one of them
  Text,            \* String(value ?? "")
  KEY_COLUMNS,     \* the explicit key column of each report, or NoKey
  KEY_HEURISTICS,  \* the columns tried otherwise, in this order
  NoKey,           \* null, as a key: rows are matched by content
  Columns,         \* the columns of each report, in each version of the tool
  Torn,            \* a file that does not parse
  MaxRows          \* bound: rows of a report

AllColumns == UNION {UNION {Columns[r][v] : v \in DOMAIN Columns[r]} : r \in Reports}

ASSUME SnapshotAssumption ==
  /\ Null \in Values
  /\ DOMAIN Text = Values
  /\ KEY_HEURISTICS \in Seq(STRING)
  /\ DOMAIN KEY_COLUMNS = Reports /\ DOMAIN Columns = Reports
  /\ \A r \in Reports : 1 \in DOMAIN Columns[r]
  /\ NoKey \notin AllColumns
  /\ MaxRows \in Nat

VARIABLES
  report,   \* the report looked at
  version,  \* the version of the tool
  now,      \* its rows, as last run
  files     \* the snapshots: rows by id

vars == <<report, version, now, files>>

RowsWith(cols) == UNION {[1..n -> [cols -> Values]] : n \in 0..MaxRows}

RowLists == UNION {RowsWith(Columns[report][v]) : v \in DOMAIN Columns[report]}

TypeOK ==
  /\ report \in Reports
  /\ version \in DOMAIN Columns[report]
  /\ now \in RowLists
  /\ DOMAIN files \subseteq Ids
  /\ \A i \in DOMAIN files : files[i] = Torn \/ files[i] \in RowLists \ {<<>>}

Init ==
  /\ report \in Reports
  /\ version = 1
  /\ now = <<>>
  /\ files = [i \in {} |-> Torn]
-----------------------------------------------------------------------------
(* Storage. *)

Run ==
  /\ now' \in RowsWith(Columns[report][version])
  /\ UNCHANGED <<report, version, files>>

(* Mutant of Save: an empty result is saved too.                           *)
Save_Empty(i) ==
  /\ i \notin DOMAIN files
  /\ \E content \in {now, Torn} :
       files' = [k \in DOMAIN files \cup {i} |-> IF k = i THEN content ELSE files[k]]
  /\ UNCHANGED <<report, version, now>>

(* saveSnapshot, of at least one row; the server may end during the write. *)
Save(i) ==
  /\ i \notin DOMAIN files
  /\ now # <<>>
  /\ \E content \in {now, Torn} :
       files' = [k \in DOMAIN files \cup {i} |-> IF k = i THEN content ELSE files[k]]
  /\ UNCHANGED <<report, version, now>>

Delete(i) ==
  /\ i \in DOMAIN files
  /\ files' = [k \in DOMAIN files \ {i} |-> files[k]]
  /\ UNCHANGED <<report, version, now>>

(* A new version of the tool, in which the report has other columns; what  *)
(* has been run is gone with the server, the snapshots are not.            *)
Upgrade ==
  /\ version + 1 \in DOMAIN Columns[report]
  /\ version' = version + 1
  /\ now' = <<>>
  /\ UNCHANGED <<report, files>>

Next ==
  \/ Run \/ Upgrade
  \/ \E i \in Ids : Save(i) \/ Delete(i)

Spec == Init /\ [][Next]_vars

(* The snapshots loadSnapshot finds and can read.                          *)
Loadable == {i \in DOMAIN files : files[i] # Torn}
-----------------------------------------------------------------------------
(* The diff. *)

Cell(row, f) == IF f \in DOMAIN row THEN row[f] ELSE Null

pickKey(rows) ==
  IF /\ KEY_COLUMNS[report] # NoKey
     /\ \E i \in DOMAIN rows : Cell(rows[i], KEY_COLUMNS[report]) # Null
  THEN KEY_COLUMNS[report]
  ELSE LET present == {n \in DOMAIN KEY_HEURISTICS :
                         rows # <<>> /\ KEY_HEURISTICS[n] \in DOMAIN rows[1]}
       IN  IF present = {} THEN NoKey
           ELSE KEY_HEURISTICS[CHOOSE n \in present : \A k \in present : n <= k]

DiffKey(old, new) == pickKey(IF new # <<>> THEN new ELSE old)

rowKey(row, key) == IF key = NoKey THEN row ELSE Text[Cell(row, key)]

Keys(rows, key) == {rowKey(rows[i], key) : i \in DOMAIN rows}

(* oldMap and newMap: the last row of a key wins.                          *)
LastOf(rows, key, k) ==
  rows[CHOOSE i \in DOMAIN rows :
         /\ rowKey(rows[i], key) = k
         /\ \A j \in DOMAIN rows : rowKey(rows[j], key) = k => j <= i]

Unique(rows, key) ==
  \A i, j \in DOMAIN rows : rowKey(rows[i], key) = rowKey(rows[j], key) => i = j

Added(old, new, key) ==
  {LastOf(new, key, k) : k \in Keys(new, key) \ Keys(old, key)}

Removed(old, new, key) ==
  {LastOf(old, key, k) : k \in Keys(old, key) \ Keys(new, key)}

(* Mutant of Changes: a column that only one of the rows has is a change.  *)
Changes_Undefined(or, nr) ==
  {f \in DOMAIN or \cup DOMAIN nr :
     \/ Cell(or, f) # Cell(nr, f)
     \/ (f \in DOMAIN or) # (f \in DOMAIN nr)}

(* The columns two rows differ in; the values before and after are theirs. *)
Changes(or, nr) ==
  {f \in DOMAIN or \cup DOMAIN nr : Cell(or, f) # Cell(nr, f)}

Changed(old, new, key) ==
  {k \in Keys(old, key) \cap Keys(new, key) :
     /\ key # NoKey
     /\ Changes(LastOf(old, key, k), LastOf(new, key, k)) # {}}

(* Mutant of Warned: duplicate keys are looked for in the new rows only.   *)
Warned_NewOnly(old, new, key) == key = NoKey \/ ~Unique(new, key)

(* Mutant of Warned: duplicate keys are looked for in the old rows only.   *)
Warned_OldOnly(old, new, key) == key = NoKey \/ ~Unique(old, key)

Warned(old, new, key) ==
  key = NoKey \/ ~Unique(old, key) \/ ~Unique(new, key)
-----------------------------------------------------------------------------
(* Properties, of every diff that can be asked for: a snapshot against     *)
(* another, or against the current rows.                                   *)

Pairs ==
  {<<files[i], files[j]>> : i, j \in Loadable} \cup {<<files[i], now>> : i \in Loadable}

RowsOf(rows) == {rows[i] : i \in DOMAIN rows}

(* A column that is missing and one that is null are the same.             *)
Full(row) == [f \in AllColumns |-> Cell(row, f)]

(* The new rows, as far as they can be told from the old rows and the diff:*)
(* what has not been removed, with its changes, and what has been added.   *)
Kept(old, new, key) ==
  {row \in RowsOf(old) : rowKey(row, key) \notin
     {rowKey(r, key) : r \in Removed(old, new, key)} \cup Changed(old, new, key)}

Patched(or, nr) ==
  [f \in AllColumns |-> IF f \in Changes(or, nr) THEN Cell(nr, f) ELSE Cell(or, f)]

Told(old, new, key) ==
  {Full(row) : row \in Kept(old, new, key) \cup Added(old, new, key)}
    \cup {Patched(LastOf(old, key, k), LastOf(new, key, k)) : k \in Changed(old, new, key)}

(* A diff without the warning that keys are not unique tells everything    *)
(* that changed: the old rows and the diff determine the new rows. So does *)
(* one of rows matched by content, as sets of rows.                        *)
DiffIsExact ==
  \A p \in Pairs :
    LET key == DiffKey(p[1], p[2])
    IN  (key # NoKey => ~Warned(p[1], p[2], key))
          => Told(p[1], p[2], key) = {Full(row) : row \in RowsOf(p[2])}

(* It reports nothing that did not change: a row that is on both sides is  *)
(* neither removed nor added, whatever the warnings, and is not changed    *)
(* unless there is one.                                                    *)
Same(row, r, key) == IF key = NoKey THEN row = r ELSE Full(row) = Full(r)

NothingInvented ==
  \A p \in Pairs :
    LET key == DiffKey(p[1], p[2])
    IN  \A row \in RowsOf(p[1]), r \in RowsOf(p[2]) :
          Same(row, r, key) =>
            /\ row \notin Removed(p[1], p[2], key)
            /\ r \notin Added(p[1], p[2], key)
            /\ ~Warned(p[1], p[2], key) => rowKey(r, key) \notin Changed(p[1], p[2], key)

(* The counts of the summary add up, or there is a warning that says why.  *)
CountsBalance ==
  \A p \in Pairs :
    LET key == DiffKey(p[1], p[2])
    IN  ~Warned(p[1], p[2], key) =>
          Len(p[1]) + Cardinality(Added(p[1], p[2], key))
            = Len(p[2]) + Cardinality(Removed(p[1], p[2], key))
=============================================================================
