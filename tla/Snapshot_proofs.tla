-------------------------- MODULE Snapshot_proofs --------------------------
(***************************************************************************)
(* Proofs about Snapshot: its types, and what a diff of any two lists of   *)
(* rows says of them.                                                      *)
(***************************************************************************)
EXTENDS Snapshot, NumberFacts, FiniteSetTheorems, SequenceTheorems

-----------------------------------------------------------------------------
(* Types.                                                                  *)

LEMMA NoRows ==
  ASSUME SnapshotAssumption, report \in Reports
  PROVE  <<>> \in RowLists
<1>1. 1 \in DOMAIN Columns[report] /\ 0 \in 0..MaxRows
  BY DEF SnapshotAssumption
<1>2. <<>> \in [1..0 -> [Columns[report][1] -> Values]]
  BY EmptySeq, LenProperties
<1>3. <<>> \in RowsWith(Columns[report][1])
  BY <1>1, <1>2 DEF RowsWith
<1>4. QED
  BY <1>1, <1>3 DEF RowLists

(***************************************************************************)
(* A snapshot, whenever it was saved and by whichever version of the tool, *)
(* holds the rows of a run, at least one, or does not parse.               *)
(***************************************************************************)
THEOREM SnapshotTypes == Spec => []TypeOK
<1> USE SnapshotAssumption
<1>1. Init => TypeOK
  <2> SUFFICES ASSUME Init PROVE TypeOK
    OBVIOUS
  <2>1. report \in Reports /\ version = 1 /\ now = <<>> /\ DOMAIN files = {}
    BY DEF Init
  <2>2. version \in DOMAIN Columns[report]
    BY <2>1 DEF SnapshotAssumption
  <2>3. QED
    BY <2>1, <2>2, NoRows DEF TypeOK
<1>2. TypeOK /\ [Next]_vars => TypeOK'
  <2> SUFFICES ASSUME TypeOK, [Next]_vars PROVE TypeOK'
    OBVIOUS
  <2>1. report' = report /\ RowLists' = RowLists
    BY DEF Next, Run, Upgrade, Save, Delete, vars, RowLists
  <2>2. CASE Run
    <3>1. now' \in RowLists
      BY <2>2 DEF Run, RowLists, TypeOK
    <3>2. QED
      BY <2>1, <2>2, <3>1 DEF Run, TypeOK
  <2>3. CASE Upgrade
    BY <2>1, <2>3, NoRows DEF Upgrade, TypeOK
  <2>4. ASSUME NEW i \in Ids, Save(i) PROVE TypeOK'
    <3>1. PICK content \in {now, Torn} :
            files' = [k \in DOMAIN files \cup {i} |-> IF k = i THEN content ELSE files[k]]
      BY <2>4 DEF Save
    <3>2. content = Torn \/ content \in RowLists \ {<<>>}
      BY <2>4 DEF Save, TypeOK
    <3>3. /\ DOMAIN files' \subseteq Ids
          /\ \A k \in DOMAIN files' : files'[k] = Torn \/ files'[k] \in RowLists \ {<<>>}
      BY <3>1, <3>2 DEF TypeOK
    <3>4. QED
      BY <2>1, <2>4, <3>3 DEF Save, TypeOK
  <2>5. ASSUME NEW i \in Ids, Delete(i) PROVE TypeOK'
    BY <2>1, <2>5 DEF Delete, TypeOK
  <2>6. CASE UNCHANGED vars
    BY <2>1, <2>6 DEF vars, TypeOK
  <2>7. QED
    BY <2>2, <2>3, <2>4, <2>5, <2>6 DEF Next
<1>3. QED
  BY <1>1, <1>2, PTL DEF Spec

-----------------------------------------------------------------------------
(* Lists of rows, and what a key tells of them.                            *)

IsRows(rows) ==
  \E n \in Nat : \E cols \in SUBSET AllColumns : rows \in [1..n -> [cols -> Values]]

LEMMA RowsFacts ==
  ASSUME NEW rows, IsRows(rows)
  PROVE  /\ Len(rows) \in Nat /\ DOMAIN rows = 1..Len(rows)
         /\ \A i \in DOMAIN rows : DOMAIN rows[i] \subseteq AllColumns
         /\ rows # <<>> => 1 \in DOMAIN rows
<1>1. PICK n \in Nat, cols \in SUBSET AllColumns : rows \in [1..n -> [cols -> Values]]
  BY DEF IsRows
<1>2. rows \in Seq([cols -> Values])
  BY <1>1
<1>3. Len(rows) \in Nat /\ DOMAIN rows = 1..Len(rows)
  BY <1>2, LenProperties
<1>4. \A i \in DOMAIN rows : DOMAIN rows[i] \subseteq AllColumns
  BY <1>1
<1>5. rows # <<>> => Len(rows) \in Nat \ {0}
  BY <1>2, EmptySeq
<1>6. QED
  BY <1>3, <1>4, <1>5

LEMMA ListsAreRows ==
  ASSUME SnapshotAssumption, report \in Reports, NEW rows \in RowLists
  PROVE  IsRows(rows)
<1>1. PICK v \in DOMAIN Columns[report] : rows \in RowsWith(Columns[report][v])
  BY DEF RowLists
<1>2. PICK n \in 0..MaxRows : rows \in [1..n -> [Columns[report][v] -> Values]]
  BY <1>1 DEF RowsWith
<1>3. Columns[report][v] \in SUBSET AllColumns
  BY <1>1 DEF AllColumns
<1>4. n \in Nat
  BY DEF SnapshotAssumption
<1>5. QED
  BY <1>2, <1>3, <1>4 DEF IsRows

LEMMA PairsAreRows ==
  ASSUME SnapshotAssumption, TypeOK, NEW p \in Pairs
  PROVE  IsRows(p[1]) /\ IsRows(p[2])
<1>1. \A i \in Loadable : files[i] \in RowLists
  BY DEF Loadable, TypeOK
<1>2. p[1] \in RowLists /\ p[2] \in RowLists
  BY <1>1 DEF Pairs, TypeOK
<1>3. QED
  BY <1>2, ListsAreRows DEF TypeOK

(* The key of a diff is a column, or none.                                 *)
LEMMA KeyIsColumn ==
  ASSUME SnapshotAssumption, NEW rows, IsRows(rows)
  PROVE  pickKey(rows) \in AllColumns \cup {NoKey}
<1>1. CASE /\ KEY_COLUMNS[report] # NoKey
           /\ \E i \in DOMAIN rows : Cell(rows[i], KEY_COLUMNS[report]) # Null
  <2>1. PICK i \in DOMAIN rows : Cell(rows[i], KEY_COLUMNS[report]) # Null
    BY <1>1
  <2>2. KEY_COLUMNS[report] \in AllColumns
    BY <2>1, RowsFacts DEF Cell
  <2>3. QED
    BY <1>1, <2>2 DEF pickKey
<1>2. CASE ~(/\ KEY_COLUMNS[report] # NoKey
             /\ \E i \in DOMAIN rows : Cell(rows[i], KEY_COLUMNS[report]) # Null)
  <2> DEFINE present == {n \in DOMAIN KEY_HEURISTICS :
                           rows # <<>> /\ KEY_HEURISTICS[n] \in DOMAIN rows[1]}
             first == CHOOSE n \in present : \A k \in present : n <= k
  <2>1. pickKey(rows) = IF present = {} THEN NoKey ELSE KEY_HEURISTICS[first]
    BY <1>2 DEF pickKey
  <2>2. present \in SUBSET Nat
    BY LenProperties DEF SnapshotAssumption
  <2>3. ASSUME present # {} PROVE KEY_HEURISTICS[first] \in AllColumns
    <3>1. \E n \in present : \A k \in present : n <= k
      BY <2>2, <2>3, LeastNumber
    <3>2. first \in present
      BY <3>1
    <3>3. rows # <<>> /\ KEY_HEURISTICS[first] \in DOMAIN rows[1]
      BY <3>2
    <3>4. QED
      BY <3>3, RowsFacts
  <2>4. QED
    BY <2>1, <2>3
<1>3. QED
  BY <1>1, <1>2

(* The maps keep, of each key, a row that has it, ...                      *)
LEMMA LastFacts ==
  ASSUME NEW rows, IsRows(rows), NEW key, NEW k \in Keys(rows, key)
  PROVE  LastOf(rows, key, k) \in RowsOf(rows) /\ rowKey(LastOf(rows, key, k), key) = k
<1> DEFINE T == {i \in 1..Len(rows) : rowKey(rows[i], key) = k}
           Last(i) == /\ rowKey(rows[i], key) = k
                      /\ \A j \in DOMAIN rows : rowKey(rows[j], key) = k => j <= i
           last == CHOOSE i \in DOMAIN rows : Last(i)
<1>1. Len(rows) \in Nat /\ DOMAIN rows = 1..Len(rows)
  BY RowsFacts
<1>2. T # {}
  BY <1>1 DEF Keys
<1>3. PICK x \in T : \A y \in T : y <= x
  BY <1>1, <1>2, GreatestNumber
<1>4. x \in DOMAIN rows /\ Last(x)
  BY <1>1, <1>3
<1>5. last \in DOMAIN rows /\ Last(last)
  BY <1>4
<1>6. LastOf(rows, key, k) = rows[last]
  BY DEF LastOf
<1>7. QED
  BY <1>5, <1>6 DEF RowsOf

(* ... which is the only one if keys are unique.                           *)
LEMMA OnlyOne ==
  ASSUME NEW rows, IsRows(rows), NEW key, Unique(rows, key), NEW row \in RowsOf(rows)
  PROVE  /\ rowKey(row, key) \in Keys(rows, key)
         /\ LastOf(rows, key, rowKey(row, key)) = row
<1>1. rowKey(row, key) \in Keys(rows, key)
  BY DEF RowsOf, Keys
<1>2. /\ LastOf(rows, key, rowKey(row, key)) \in RowsOf(rows)
      /\ rowKey(LastOf(rows, key, rowKey(row, key)), key) = rowKey(row, key)
  BY <1>1, LastFacts
<1>3. QED
  BY <1>1, <1>2 DEF RowsOf, Unique

(* Rows matched by content are their own keys.                             *)
LEMMA ByContent ==
  ASSUME NEW rows, IsRows(rows)
  PROVE  /\ Keys(rows, NoKey) = RowsOf(rows)
         /\ \A row \in RowsOf(rows) : LastOf(rows, NoKey, row) = row
<1>1. Keys(rows, NoKey) = RowsOf(rows)
  BY DEF Keys, RowsOf, rowKey
<1>2. ASSUME NEW row \in RowsOf(rows) PROVE LastOf(rows, NoKey, row) = row
  BY <1>1, LastFacts DEF rowKey
<1>3. QED
  BY <1>1, <1>2

(* The rows of a list have no columns but the known ones.                  *)
LEMMA RowColumns ==
  ASSUME NEW rows, IsRows(rows), NEW row \in RowsOf(rows)
  PROVE  DOMAIN row \subseteq AllColumns
BY RowsFacts DEF RowsOf

(* Rows have no changes when they are the same but for columns that are    *)
(* missing and null, and a row with its changes is the new one.            *)
LEMMA ChangesTell ==
  ASSUME NEW or, NEW nr, DOMAIN or \subseteq AllColumns, DOMAIN nr \subseteq AllColumns
  PROVE  /\ Changes(or, nr) = {} <=> Full(or) = Full(nr)
         /\ Patched(or, nr) = Full(nr)
<1>1. \A f \in AllColumns : f \notin Changes(or, nr) => Cell(or, f) = Cell(nr, f)
  BY DEF Changes, Cell
<1>2. Patched(or, nr) = Full(nr)
  BY <1>1 DEF Patched, Full
<1>3. ASSUME Changes(or, nr) = {} PROVE Full(or) = Full(nr)
  BY <1>1, <1>3 DEF Full
<1>4. ASSUME Full(or) = Full(nr) PROVE Changes(or, nr) = {}
  <2> SUFFICES ASSUME NEW f \in AllColumns PROVE Cell(or, f) = Cell(nr, f)
    BY DEF Changes
  <2>1. Full(or)[f] = Cell(or, f) /\ Full(nr)[f] = Cell(nr, f)
    BY DEF Full
  <2>2. QED
    BY <1>4, <2>1
<1>5. QED
  BY <1>2, <1>3, <1>4

-----------------------------------------------------------------------------
(* Diffs of any two lists of rows.                                         *)

LEMMA DiffKeyIsColumn ==
  ASSUME SnapshotAssumption, NEW old, NEW new, IsRows(old), IsRows(new)
  PROVE  DiffKey(old, new) \in AllColumns \cup {NoKey}
BY KeyIsColumn DEF DiffKey

(* What is removed has a key of the old rows only, and what is added one   *)
(* of the new rows only.                                                   *)
LEMMA OneSided ==
  ASSUME NEW old, NEW new, IsRows(old), IsRows(new), NEW key
  PROVE  /\ \A row \in Removed(old, new, key) :
              row \in RowsOf(old) /\ rowKey(row, key) \in Keys(old, key) \ Keys(new, key)
         /\ \A row \in Added(old, new, key) :
              row \in RowsOf(new) /\ rowKey(row, key) \in Keys(new, key) \ Keys(old, key)
<1>1. ASSUME NEW row \in Removed(old, new, key)
      PROVE  row \in RowsOf(old) /\ rowKey(row, key) \in Keys(old, key) \ Keys(new, key)
  <2>1. PICK k \in Keys(old, key) \ Keys(new, key) : row = LastOf(old, key, k)
    BY DEF Removed
  <2>2. QED
    BY <2>1, LastFacts
<1>2. ASSUME NEW row \in Added(old, new, key)
      PROVE  row \in RowsOf(new) /\ rowKey(row, key) \in Keys(new, key) \ Keys(old, key)
  <2>1. PICK k \in Keys(new, key) \ Keys(old, key) : row = LastOf(new, key, k)
    BY DEF Added
  <2>2. QED
    BY <2>1, LastFacts
<1>3. QED
  BY <1>1, <1>2

(* Rows that are the same have the same key.                               *)
LEMMA SameKey ==
  ASSUME NEW key \in AllColumns \cup {NoKey}, NEW row, NEW r, Same(row, r, key)
  PROVE  rowKey(row, key) = rowKey(r, key)
<1>1. CASE key = NoKey
  BY <1>1 DEF Same, rowKey
<1>2. CASE key # NoKey
  <2>1. Full(row) = Full(r) /\ key \in AllColumns
    BY <1>2 DEF Same
  <2>2. Full(row)[key] = Cell(row, key) /\ Full(r)[key] = Cell(r, key)
    BY <2>1 DEF Full
  <2>3. Cell(row, key) = Cell(r, key)
    BY <2>1, <2>2
  <2>4. QED
    BY <1>2, <2>3 DEF rowKey
<1>3. QED
  BY <1>1, <1>2

LEMMA InventsNothing ==
  ASSUME NEW old, NEW new, IsRows(old), IsRows(new), NEW key \in AllColumns \cup {NoKey},
         NEW row \in RowsOf(old), NEW r \in RowsOf(new), Same(row, r, key)
  PROVE  /\ row \notin Removed(old, new, key)
         /\ r \notin Added(old, new, key)
         /\ ~Warned(old, new, key) => rowKey(r, key) \notin Changed(old, new, key)
<1>1. rowKey(row, key) = rowKey(r, key)
  BY SameKey
<1>2. rowKey(row, key) \in Keys(old, key) /\ rowKey(r, key) \in Keys(new, key)
  BY DEF RowsOf, Keys
<1>3. row \notin Removed(old, new, key) /\ r \notin Added(old, new, key)
  BY <1>1, <1>2, OneSided
<1>4. ASSUME ~Warned(old, new, key) PROVE rowKey(r, key) \notin Changed(old, new, key)
  <2>1. key # NoKey /\ Unique(old, key) /\ Unique(new, key)
    BY <1>4 DEF Warned
  <2>2. LastOf(old, key, rowKey(r, key)) = row /\ LastOf(new, key, rowKey(r, key)) = r
    BY <1>1, <2>1, OnlyOne
  <2>3. Changes(row, r) = {}
    BY <2>1, RowColumns, ChangesTell DEF Same
  <2>4. QED
    BY <2>2, <2>3 DEF Changed
<1>5. QED
  BY <1>3, <1>4

(* Without a key, what is told is a difference of sets.                    *)
LEMMA ContentTells ==
  ASSUME NEW old, NEW new, IsRows(old), IsRows(new)
  PROVE  Told(old, new, NoKey) = {Full(row) : row \in RowsOf(new)}
<1>1. Removed(old, new, NoKey) = RowsOf(old) \ RowsOf(new)
  BY ByContent DEF Removed
<1>2. Added(old, new, NoKey) = RowsOf(new) \ RowsOf(old)
  BY ByContent DEF Added
<1>3. Changed(old, new, NoKey) = {}
  BY DEF Changed
<1>4. Kept(old, new, NoKey) = RowsOf(old) \cap RowsOf(new)
  BY <1>1, <1>3 DEF Kept, rowKey
<1>5. Kept(old, new, NoKey) \cup Added(old, new, NoKey) = RowsOf(new)
  BY <1>2, <1>4
<1>6. QED
  BY <1>3, <1>5 DEF Told

(* With a key that is unique on both sides, each new row is added, kept or *)
(* changed.                                                                *)
LEMMA KeyTells ==
  ASSUME NEW old, NEW new, IsRows(old), IsRows(new), NEW key, key # NoKey,
         Unique(old, key), Unique(new, key)
  PROVE  Told(old, new, key) = {Full(row) : row \in RowsOf(new)}
<1> DEFINE A == Added(old, new, key)
           K == Kept(old, new, key)
           C == Changed(old, new, key)
           O(k) == LastOf(old, key, k)
           N(k) == LastOf(new, key, k)
           B == Keys(old, key) \cap Keys(new, key)
<1>1. \A k \in Keys(old, key) : O(k) \in RowsOf(old) /\ rowKey(O(k), key) = k
  BY LastFacts
<1>2. \A k \in Keys(new, key) : N(k) \in RowsOf(new) /\ rowKey(N(k), key) = k
  BY LastFacts
<1>3. \A row \in RowsOf(old) : rowKey(row, key) \in Keys(old, key) /\ O(rowKey(row, key)) = row
  BY OnlyOne
<1>4. \A row \in RowsOf(new) : rowKey(row, key) \in Keys(new, key) /\ N(rowKey(row, key)) = row
  BY OnlyOne
<1>5. \A k \in B : /\ Changes(O(k), N(k)) = {} <=> Full(O(k)) = Full(N(k))
                   /\ Patched(O(k), N(k)) = Full(N(k))
  <2> SUFFICES ASSUME NEW k \in B
               PROVE  /\ Changes(O(k), N(k)) = {} <=> Full(O(k)) = Full(N(k))
                      /\ Patched(O(k), N(k)) = Full(N(k))
    OBVIOUS
  <2>1. DOMAIN O(k) \subseteq AllColumns /\ DOMAIN N(k) \subseteq AllColumns
    BY <1>1, <1>2, RowColumns
  <2> HIDE DEF O, N
  <2>2. QED
    BY <2>1, ChangesTell
<1>6. C = {k \in B : Changes(O(k), N(k)) # {}}
  BY DEF Changed
<1>7. A = {N(k) : k \in Keys(new, key) \ Keys(old, key)}
  BY DEF Added
<1>8. {rowKey(r, key) : r \in Removed(old, new, key)} = Keys(old, key) \ Keys(new, key)
  BY <1>1 DEF Removed
<1>9. K = {row \in RowsOf(old) : rowKey(row, key) \in B \ C}
  BY <1>3, <1>8 DEF Kept
<1>10. Told(old, new, key) = {Full(row) : row \in K \cup A} \cup {Patched(O(k), N(k)) : k \in C}
  BY DEF Told
<1> HIDE DEF A, K, C, O, N
<1>11. ASSUME NEW row \in K PROVE \E r \in RowsOf(new) : Full(row) = Full(r)
  <2>1. PICK k \in B : k = rowKey(row, key) /\ k \notin C /\ row = O(k)
    BY <1>3, <1>9
  <2>2. Full(O(k)) = Full(N(k)) /\ N(k) \in RowsOf(new)
    BY <1>2, <1>5, <1>6, <2>1
  <2>3. QED
    BY <2>1, <2>2
<1>12. \A row \in A : row \in RowsOf(new)
  BY <1>2, <1>7
<1>13. \A k \in C : N(k) \in RowsOf(new) /\ Patched(O(k), N(k)) = Full(N(k))
  BY <1>2, <1>5, <1>6
<1>14. Told(old, new, key) \subseteq {Full(row) : row \in RowsOf(new)}
  BY <1>10, <1>11, <1>12, <1>13
<1>15. ASSUME NEW r \in RowsOf(new) PROVE Full(r) \in Told(old, new, key)
  <2>1. PICK k \in Keys(new, key) : k = rowKey(r, key) /\ r = N(k)
    BY <1>4
  <2>2. CASE k \notin Keys(old, key)
    BY <1>7, <1>10, <2>1, <2>2
  <2>3. CASE k \in C
    BY <1>10, <1>13, <2>1, <2>3
  <2>4. CASE k \in Keys(old, key) /\ k \notin C
    <3>1. O(k) \in K
      BY <1>1, <1>9, <2>4
    <3>2. Full(O(k)) = Full(r)
      BY <1>5, <1>6, <2>1, <2>4
    <3>3. QED
      BY <1>10, <3>1, <3>2
  <2>5. QED
    BY <2>2, <2>3, <2>4
<1>16. QED
  BY <1>14, <1>15

(* As many keys as rows, if keys are unique; and as many rows added, or    *)
(* removed, as there are keys on one side only.                            *)
LEMMA AsManyKeys ==
  ASSUME NEW rows, IsRows(rows), NEW key, Unique(rows, key)
  PROVE  IsFiniteSet(Keys(rows, key)) /\ Cardinality(Keys(rows, key)) = Len(rows)
<1> DEFINE f == [i \in 1..Len(rows) |-> rowKey(rows[i], key)]
<1>1. Len(rows) \in Nat /\ DOMAIN rows = 1..Len(rows)
  BY RowsFacts
<1>2. f \in Bijection(1..Len(rows), Keys(rows, key))
  BY <1>1 DEF Bijection, Injection, Surjection, IsInjective, Keys, Unique
<1>3. IsFiniteSet(1..Len(rows)) /\ Cardinality(1..Len(rows)) = Len(rows)
  <2>1. PICK n \in Nat : n = Len(rows)
    BY <1>1
  <2>2. IsFiniteSet(1..n) /\ Cardinality(1..n) = IF 1 > n THEN 0 ELSE n - 1 + 1
    BY FS_Interval
  <2>3. Cardinality(1..n) = n
    BY <2>2
  <2>4. QED
    BY <2>1, <2>2, <2>3
<1>4. QED
  BY <1>2, <1>3, FS_Bijection DEF ExistsBijection

LEMMA AsManyRows ==
  ASSUME NEW rows, IsRows(rows), NEW key, NEW ks \in SUBSET Keys(rows, key), IsFiniteSet(ks)
  PROVE  Cardinality({LastOf(rows, key, k) : k \in ks}) = Cardinality(ks)
<1> DEFINE f == [k \in ks |-> LastOf(rows, key, k)]
<1>1. \A k \in ks : rowKey(LastOf(rows, key, k), key) = k
  BY LastFacts
<1>2. f \in Bijection(ks, {LastOf(rows, key, k) : k \in ks})
  BY <1>1 DEF Bijection, Injection, Surjection, IsInjective
<1>3. QED
  BY <1>2, FS_Bijection DEF ExistsBijection

LEMMA DiffBalances ==
  ASSUME NEW old, NEW new, IsRows(old), IsRows(new), NEW key,
         Unique(old, key), Unique(new, key)
  PROVE  Len(old) + Cardinality(Added(old, new, key))
           = Len(new) + Cardinality(Removed(old, new, key))
<1> DEFINE O == Keys(old, key)
           N == Keys(new, key)
<1>1. /\ IsFiniteSet(O) /\ Cardinality(O) = Len(old)
      /\ IsFiniteSet(N) /\ Cardinality(N) = Len(new)
  BY AsManyKeys
<1>2. /\ IsFiniteSet(N \ O) /\ Cardinality(N \ O) = Cardinality(N) - Cardinality(N \cap O)
      /\ IsFiniteSet(O \ N) /\ Cardinality(O \ N) = Cardinality(O) - Cardinality(O \cap N)
  BY <1>1, FS_Difference
<1>3. /\ Cardinality(Added(old, new, key)) = Cardinality(N \ O)
      /\ Cardinality(Removed(old, new, key)) = Cardinality(O \ N)
  BY <1>2, AsManyRows DEF Added, Removed
<1>4. Cardinality(O \cap N) \in Nat
  BY <1>1, FS_Intersection, FS_CardinalityType
<1>5. N \cap O = O \cap N
  OBVIOUS
<1> HIDE DEF O, N
<1>6. PICK both \in Nat : both = Cardinality(O \cap N) /\ both = Cardinality(N \cap O)
  BY <1>4, <1>5
<1>7. /\ Cardinality(Added(old, new, key)) = Len(new) - both
      /\ Cardinality(Removed(old, new, key)) = Len(old) - both
  BY <1>1, <1>2, <1>3, <1>6
<1>8. Len(old) \in Nat /\ Len(new) \in Nat
  BY RowsFacts
<1>9. QED
  BY <1>7, <1>8

-----------------------------------------------------------------------------
(* Diffs that can be asked for.                                            *)

(***************************************************************************)
(* A diff that does not warn of its keys tells everything that changed,    *)
(* for rows of any number and any columns: the old rows and the diff       *)
(* determine the new rows. So does one of rows matched by content.         *)
(***************************************************************************)
THEOREM DiffTellsAll == Spec => []DiffIsExact
<1>1. TypeOK => DiffIsExact
  <2> SUFFICES ASSUME TypeOK, NEW p \in Pairs, NEW key, key = DiffKey(p[1], p[2]),
                      key # NoKey => ~Warned(p[1], p[2], key)
               PROVE  Told(p[1], p[2], key) = {Full(row) : row \in RowsOf(p[2])}
    BY DEF DiffIsExact
  <2>1. IsRows(p[1]) /\ IsRows(p[2])
    BY SnapshotAssumption, PairsAreRows
  <2>2. CASE key = NoKey
    BY <2>1, <2>2, ContentTells
  <2>3. CASE key # NoKey
    <3>1. Unique(p[1], key) /\ Unique(p[2], key)
      BY <2>3 DEF Warned
    <3>2. QED
      BY <2>1, <2>3, <3>1, KeyTells
  <2>4. QED
    BY <2>2, <2>3
<1>2. QED
  BY <1>1, SnapshotTypes, PTL

(***************************************************************************)
(* A diff reports nothing that did not change: a row that is on both sides *)
(* is neither removed nor added, though keys be shared, missing or         *)
(* guessed, and is not changed unless there is a warning.                  *)
(***************************************************************************)
THEOREM DiffInventsNothing == Spec => []NothingInvented
<1>1. TypeOK => NothingInvented
  <2> SUFFICES ASSUME TypeOK, NEW p \in Pairs, NEW key, key = DiffKey(p[1], p[2]),
                      NEW row \in RowsOf(p[1]), NEW r \in RowsOf(p[2]), Same(row, r, key)
               PROVE  /\ row \notin Removed(p[1], p[2], key)
                      /\ r \notin Added(p[1], p[2], key)
                      /\ ~Warned(p[1], p[2], key) =>
                           rowKey(r, key) \notin Changed(p[1], p[2], key)
    BY DEF NothingInvented
  <2>1. IsRows(p[1]) /\ IsRows(p[2])
    BY SnapshotAssumption, PairsAreRows
  <2>2. key \in AllColumns \cup {NoKey}
    BY <2>1, SnapshotAssumption, DiffKeyIsColumn
  <2>3. QED
    BY <2>1, <2>2, InventsNothing
<1>2. QED
  BY <1>1, SnapshotTypes, PTL

(***************************************************************************)
(* The counts of a diff add up, for lists of any length, or there is a     *)
(* warning that says why they do not.                                      *)
(***************************************************************************)
THEOREM CountsAddUp == Spec => []CountsBalance
<1>1. TypeOK => CountsBalance
  <2> SUFFICES ASSUME TypeOK, NEW p \in Pairs, NEW key, key = DiffKey(p[1], p[2]),
                      ~Warned(p[1], p[2], key)
               PROVE  Len(p[1]) + Cardinality(Added(p[1], p[2], key))
                        = Len(p[2]) + Cardinality(Removed(p[1], p[2], key))
    BY DEF CountsBalance
  <2>1. IsRows(p[1]) /\ IsRows(p[2])
    BY SnapshotAssumption, PairsAreRows
  <2>2. Unique(p[1], key) /\ Unique(p[2], key)
    BY DEF Warned
  <2>3. QED
    BY <2>1, <2>2, DiffBalances
<1>2. QED
  BY <1>1, SnapshotTypes, PTL
=============================================================================
