-------------------------- MODULE AuditLog_proofs --------------------------
(***************************************************************************)
(* Proofs about AuditLog: the types, what a chain that verifies says of    *)
(* its entries, that a complete log verifies, and that nothing audit()     *)
(* does repairs a broken chain.                                            *)
(***************************************************************************)
EXTENDS AuditLog, NumberFacts

-----------------------------------------------------------------------------
(* Sequences.                                                              *)

(* A sequence with an element added.                                       *)
LEMMA AppendFacts ==
  ASSUME NEW p \in Seq(Nat), NEW n \in Nat
  PROVE  /\ Append(p, n) \in Seq(Nat) /\ Len(p) \in Nat
         /\ Len(Append(p, n)) = Len(p) + 1 /\ Append(p, n)[Len(p) + 1] = n
         /\ \A a \in 1..Len(p) : Append(p, n)[a] = p[a]
OBVIOUS

-----------------------------------------------------------------------------
(* Lines and files.                                                        *)

LEMMA LineFields ==
  ASSUME NEW l \in Lines
  PROVE  /\ l.month \in Nat /\ l.kind \in {"entry", "legacy", "garbage"}
         /\ l.kind = "entry" => /\ l \in Entries
                                /\ l.core \in Nat /\ l.prev \in Hashes /\ l.hash \in Hashes
BY DEF Lines, Entries, Legacies, Garbage

LEMMA LogFacts ==
  ASSUME TypeOK
  PROVE  /\ Len(log) \in Nat /\ DOMAIN log = 1..Len(log)
         /\ \A i \in DOMAIN log : log[i] \in Lines
<1>1. log \in Seq(Lines)
  BY DEF TypeOK
<1>2. QED
  BY <1>1

(* The numbers among the variables, and those the next call makes.         *)
LEMMA NumberFields ==
  ASSUME TypeOK
  PROVE  /\ month \in Nat /\ run \in Nat /\ audited \in Seq(Nat) /\ Len(audited) \in Nat
         /\ Append(audited, run) \in Seq(Nat) /\ Len(Append(audited, run)) = Len(audited) + 1
         /\ Append(audited, run)[Len(audited) + 1] = run
         /\ \A m \in 1..Len(audited) : /\ Append(audited, run)[m] = audited[m]
                                       /\ audited[m] \in Nat
<1>1. month \in Nat /\ run \in Nat /\ audited \in Seq(Nat)
  BY DEF TypeOK
<1>2. QED
  BY <1>1

(* seedLastHash finds the hash of an entry of the log, of its last line if *)
(* that is one, or none.                                                   *)
LEMMA SeedFacts ==
  ASSUME TypeOK
  PROVE  /\ \/ SeedLastHash = GENESIS
            \/ \E i \in DOMAIN log : log[i].kind = "entry" /\ SeedLastHash = log[i].hash
         /\ Len(log) > 0 /\ log[Len(log)].kind = "entry" =>
              SeedLastHash = log[Len(log)].hash
<1> DEFINE Newest(i) == /\ log[i].kind # "garbage"
                        /\ \A k \in DOMAIN log : k > i => log[k].kind = "garbage"
           newest == CHOOSE i \in DOMAIN log : Newest(i)
           T == {i \in 1..Len(log) : log[i].kind # "garbage"}
<1>1. Len(log) \in Nat /\ DOMAIN log = 1..Len(log)
  BY LogFacts
<1>2. CASE T = {}
  BY <1>1, <1>2 DEF SeedLastHash
<1>3. CASE T # {}
  <2>1. PICK x \in T : \A y \in T : y <= x
    BY <1>1, <1>3, GreatestNumber
  <2>2. x \in DOMAIN log /\ Newest(x)
    BY <1>1, <2>1
  <2>3. newest \in DOMAIN log /\ Newest(newest)
    BY <2>2
  <2>4. SeedLastHash = IF log[newest].kind = "entry" THEN log[newest].hash ELSE GENESIS
    BY <1>1, <2>2 DEF SeedLastHash
  <2>5. Len(log) > 0 /\ log[Len(log)].kind = "entry" => newest = Len(log)
    BY <1>1, <2>3
  <2> HIDE DEF newest
  <2>6. QED
    BY <2>3, <2>4, <2>5
<1>4. QED
  BY <1>2, <1>3

LEMMA PrevFacts ==
  ASSUME TypeOK
  PROVE  /\ Prev \in Hashes
         /\ lastHash # Null => Prev = lastHash
         /\ lastHash = Null => Prev = SeedLastHash
<1>1. SeedLastHash \in Hashes
  <2>1. CASE SeedLastHash = GENESIS
    <3>1. <<>> \in Seq(Nat)
      OBVIOUS
    <3>2. QED
      BY <2>1, <3>1 DEF Hashes, GENESIS
  <2>2. CASE \E i \in DOMAIN log : log[i].kind = "entry" /\ SeedLastHash = log[i].hash
    BY <2>2, LogFacts, LineFields
  <2>3. QED
    BY <2>1, <2>2, SeedFacts
<1>2. QED
  BY <1>1 DEF Prev, TypeOK

LEMMA NewEntryFacts ==
  ASSUME TypeOK, NEW eol \in BOOLEAN
  PROVE  /\ NewEntry(eol) \in Lines /\ NewEntry(eol).kind = "entry"
         /\ NewEntry(eol).core = Len(audited) + 1 /\ NewEntry(eol).prev = Prev
         /\ NewEntry(eol).hash = Append(Prev, Len(audited) + 1)
<1>1. /\ month \in Nat /\ Len(audited) + 1 \in Nat /\ Prev \in Hashes
      /\ Append(Prev, Len(audited) + 1) \in Hashes
  BY PrevFacts DEF TypeOK, Hashes
<1>2. NewEntry(eol) = [month |-> month, kind |-> "entry", core |-> Len(audited) + 1,
                       prev |-> Prev, hash |-> Append(Prev, Len(audited) + 1), eol |-> eol]
  BY DEF NewEntry, hashEntry
<1>3. QED
  BY <1>1, <1>2 DEF Lines, Entries

(* A write adds a line, or spoils the last one.                            *)
LEMMA AppendShape ==
  ASSUME TypeOK, NEW line \in Lines, NEW new, new = AppendFile(line)
  PROVE  /\ new \in Seq(Lines)
         /\ \/ new = Append(log, line)
            \/ /\ Len(new) = Len(log) /\ Len(log) > 0 /\ new[Len(log)].kind = "garbage"
               /\ \A i \in 1..Len(log) : i # Len(log) => new[i] = log[i]
<1>1. log \in Seq(Lines) /\ Len(log) \in Nat /\ month \in Nat
  BY LogFacts DEF TypeOK
<1>2. line.eol \in BOOLEAN
  BY DEF Lines, Entries, Legacies, Garbage
<1> DEFINE g == [month |-> month, kind |-> "garbage", eol |-> line.eol]
<1>3. g \in Lines /\ g.kind = "garbage"
  BY <1>1, <1>2 DEF Lines, Garbage
<1> HIDE DEF g
<1>4. CASE Len(log) > 0 /\ ~log[Len(log)].eol /\ log[Len(log)].month = month
  <2>1. new = [log EXCEPT ![Len(log)] = g]
    BY <1>4 DEF AppendFile, g
  <2>2. QED
    BY <1>1, <1>3, <1>4, <2>1
<1>5. CASE ~(Len(log) > 0 /\ ~log[Len(log)].eol /\ log[Len(log)].month = month)
  BY <1>1, <1>5 DEF AppendFile
<1>6. QED
  BY <1>4, <1>5

LEMMA CutLines ==
  ASSUME TypeOK, NEW line \in Cut \cup {NewEntry(TRUE)}
  PROVE  /\ line \in Lines
         /\ line.kind = "entry" => \E eol \in BOOLEAN : line = NewEntry(eol)
<1> DEFINE g == [month |-> month, kind |-> "garbage", eol |-> FALSE]
<1>1. g \in Lines /\ g.kind # "entry"
  BY DEF TypeOK, Lines, Garbage
<1> HIDE DEF g
<1>2. CASE line = g
  BY <1>1, <1>2
<1>3. CASE \E eol \in BOOLEAN : line = NewEntry(eol)
  BY <1>3, NewEntryFacts
<1>4. line = g \/ line = NewEntry(FALSE) \/ line = NewEntry(TRUE)
  BY DEF Cut, g
<1>5. QED
  BY <1>2, <1>3, <1>4

(* What a call of audit() does, however it ends.                           *)
AuditStep ==
  /\ audited' = Append(audited, run) /\ UNCHANGED <<month, skipped, intact>>
  /\ \/ log' = log
     \/ \E line \in Cut \cup {NewEntry(TRUE)} : log' = AppendFile(line)
  /\ \/ /\ lastHash' = Append(Prev, Len(audited) + 1) /\ run' = run
        /\ rehashed' = rehashed
     \/ /\ lastHash' = Null /\ run' = run + 1
        /\ rehashed' = IF rehashed = "never" THEN "never" ELSE "before"

LEMMA AuditSteps ==
  ASSUME Audit \/ AuditFails \/ AuditCut
  PROVE  AuditStep
<1>1. CASE Audit
  BY <1>1 DEF Audit, Called, hashEntry, AuditStep
<1>2. CASE AuditFails
  BY <1>2 DEF AuditFails, Called, hashEntry, AuditStep
<1>3. CASE AuditCut
  BY <1>3 DEF AuditCut, NewRun, AuditStep
<1>4. QED
  BY <1>1, <1>2, <1>3

(* Lost, altered or exchanged lines: every entry has a hash that was there.*)
LEMMA DamageShape ==
  ASSUME TypeOK, Damage
  PROVE  /\ log' \in Seq(Lines)
         /\ \A i \in DOMAIN log' : log'[i].kind = "entry" =>
              \E k \in DOMAIN log : log[k].kind = "entry" /\ log'[i].hash = log[k].hash
<1>1. log \in Seq(Lines) /\ Len(log) \in Nat /\ DOMAIN log = 1..Len(log)
      /\ \A i \in DOMAIN log : log[i] \in Lines
  BY LogFacts DEF TypeOK
<1>2. CASE Lose
  <2>1. PICK i \in DOMAIN log :
          log' = [k \in 1..(Len(log) - 1) |-> log[IF k < i THEN k ELSE k + 1]]
    BY <1>2 DEF Lose
  <2>2. \A k \in 1..(Len(log) - 1) : (IF k < i THEN k ELSE k + 1) \in DOMAIN log
    BY <1>1
  <2>3. log' \in Seq(Lines) /\ DOMAIN log' = 1..(Len(log) - 1)
    BY <1>1, <2>1, <2>2
  <2>4. QED
    BY <1>1, <2>1, <2>2, <2>3
<1>3. CASE Alter
  <2>1. PICK i \in DOMAIN log : log[i].kind = "entry" /\ log' = [log EXCEPT ![i].core = 0]
    BY <1>3 DEF Alter
  <2>2. log[i] \in Entries
    BY <1>1, <2>1, LineFields
  <2>3. /\ [log[i] EXCEPT !.core = 0] \in Lines
        /\ [log[i] EXCEPT !.core = 0].hash = log[i].hash
    BY <2>2 DEF Lines, Entries
  <2>4. log' = [log EXCEPT ![i] = [log[i] EXCEPT !.core = 0]]
    BY <2>1
  <2>5. QED
    BY <1>1, <2>1, <2>3, <2>4
<1>4. CASE Exchange
  <2>1. PICK i, k \in DOMAIN log :
          /\ log[i].kind = "entry" /\ log[k].kind = "entry"
          /\ log[i].core < log[k].core
          /\ log' = [log EXCEPT
               ![i] = [log[k] EXCEPT !.month = log[i].month, !.eol = log[i].eol],
               ![k] = [log[i] EXCEPT !.month = log[k].month, !.eol = log[k].eol]]
    BY <1>4 DEF Exchange
  <2> DEFINE a == [log[k] EXCEPT !.month = log[i].month, !.eol = log[i].eol]
             b == [log[i] EXCEPT !.month = log[k].month, !.eol = log[k].eol]
  <2>2. log[i] \in Entries /\ log[k] \in Entries
    BY <1>1, <2>1, LineFields
  <2>3. a \in Lines /\ b \in Lines /\ a.hash = log[k].hash /\ b.hash = log[i].hash
    BY <2>2 DEF Lines, Entries
  <2>4. log' = [log EXCEPT ![i] = a, ![k] = b]
    BY <2>1
  <2> HIDE DEF a, b
  <2>5. QED
    BY <1>1, <2>1, <2>3, <2>4
<1>5. QED
  BY <1>2, <1>3, <1>4 DEF Damage

LEMMA RehashShape ==
  ASSUME TypeOK, Rehash
  PROVE  log' \in Seq(Lines)
<1>1. log \in Seq(Lines) /\ Len(log) \in Nat /\ DOMAIN log = 1..Len(log)
      /\ \A i \in DOMAIN log : log[i] \in Entries
  BY LogFacts, LineFields DEF TypeOK, Rehash
<1> DEFINE new(i) == [log[i] EXCEPT !.prev = Cores(i - 1), !.hash = Cores(i)]
<1>2. ASSUME NEW i \in 1..Len(log) PROVE new(i) \in Lines
  <2>1. \A k \in 1..i : log[k].core \in Nat
    BY <1>1 DEF Entries
  <2>2. \A n \in {i - 1, i} : Cores(n) \in Hashes
    <3> SUFFICES ASSUME NEW n \in {i - 1, i} PROVE Cores(n) \in Hashes
      OBVIOUS
    <3>1. n \in Nat /\ \A k \in 1..n : k \in 1..i
      BY <1>1, <1>2
    <3>2. \A k \in 1..n : log[k].core \in Nat
      BY <2>1, <3>1
    <3>3. QED
      BY <3>1, <3>2 DEF Cores, Hashes
  <2>3. log[i] \in Entries /\ Cores(i - 1) \in Hashes /\ Cores(i) \in Hashes
    BY <1>1, <1>2, <2>2
  <2>4. new(i) \in Entries
    BY <2>3 DEF Entries
  <2>5. QED
    BY <2>4 DEF Lines
<1>3. log' = [i \in 1..Len(log) |-> new(i)]
  BY <1>1 DEF Rehash
<1> HIDE DEF new
<1>4. QED
  BY <1>1, <1>2, <1>3

-----------------------------------------------------------------------------
(***************************************************************************)
(* Every variable keeps its type, whatever is written, cut or damaged.     *)
(***************************************************************************)
THEOREM TypeCorrect == Spec => []TypeOK
<1>1. Init => TypeOK
  <2> SUFFICES ASSUME Init PROVE TypeOK
    OBVIOUS
  <2>1. log \in Seq(Lines)
    <3> DEFINE l == [month |-> 0, kind |-> "legacy", eol |-> TRUE]
    <3>1. l \in Lines
      BY DEF Lines, Legacies
    <3> HIDE DEF l
    <3>2. PICK n \in 0..MaxLegacy : log = [i \in 1..n |-> l]
      BY DEF Init, l
    <3>3. n \in Nat
      BY AuditAssumption
    <3>4. QED
      BY <3>1, <3>2, <3>3
  <2>2. rehashed \in Times
    BY DEF Init, Times
  <2>3. QED
    BY <2>1, <2>2 DEF Init, TypeOK
<1>2. TypeOK /\ [Next]_vars => TypeOK'
  <2> SUFFICES ASSUME TypeOK, [Next]_vars PROVE TypeOK'
    OBVIOUS
  <2>1. CASE Audit \/ AuditFails \/ AuditCut
    <3>1. AuditStep
      BY <2>1, AuditSteps
    <3>2. log' \in Seq(Lines)
      BY <3>1, CutLines, AppendShape DEF AuditStep, TypeOK
    <3>3. lastHash' \in Hashes \cup {Null}
      <4>1. Len(audited) + 1 \in Nat /\ Prev \in Seq(Nat)
        BY PrevFacts DEF TypeOK, Hashes
      <4>2. Append(Prev, Len(audited) + 1) \in Hashes
        BY <4>1 DEF Hashes
      <4>3. QED
        BY <3>1, <4>2 DEF AuditStep
    <3>4. audited' \in Seq(Nat) /\ run' \in Nat
      BY <3>1, NumberFields DEF AuditStep
    <3>5. rehashed' \in Times
      <4>1. rehashed \in Times
        BY DEF TypeOK
      <4>2. QED
        BY <3>1, <4>1 DEF AuditStep, Times
    <3>6. QED
      BY <3>1, <3>2, <3>3, <3>4, <3>5 DEF AuditStep, TypeOK
  <2>2. CASE Restart
    <3>1. rehashed' \in Times
      BY <2>2 DEF Restart, NewRun, Times, TypeOK
    <3>2. run' \in Nat
      BY <2>2, NumberFields DEF Restart, NewRun
    <3>3. QED
      BY <2>2, <3>1, <3>2 DEF Restart, NewRun, TypeOK
  <2>3. CASE NextMonth
    BY <2>3 DEF NextMonth, TypeOK
  <2>4. CASE Damage
    BY <2>4, DamageShape DEF Damage, TypeOK
  <2>5. CASE UNCHANGED vars
    BY <2>5 DEF vars, TypeOK
  <2>6. CASE AuditThrows
    <3>1. skipped' \in SUBSET Nat
      <4>1. skipped \in SUBSET Nat /\ skipped' = skipped \cup {Len(audited) + 1}
        BY <2>6 DEF AuditThrows, TypeOK
      <4>2. Len(audited) + 1 \in Nat
        BY NumberFields
      <4>3. QED
        BY <4>1, <4>2
    <3>2. audited' \in Seq(Nat)
      BY <2>6, NumberFields DEF AuditThrows
    <3>3. QED
      BY <2>6, <3>1, <3>2 DEF AuditThrows, TypeOK
  <2>7. CASE Rehash
    <3>1. rehashed' \in Times
      BY <2>7 DEF Rehash, Times
    <3>2. QED
      BY <2>7, <3>1, RehashShape DEF Rehash, TypeOK
  <2>8. QED
    BY <2>1, <2>2, <2>3, <2>4, <2>5, <2>6, <2>7 DEF Next
<1>3. QED
  BY <1>1, <1>2, PTL DEF Spec

-----------------------------------------------------------------------------
(* What audit() does to the lines: each stays or is spoiled, and an entry  *)
(* that was not there before is the new one, behind them all.              *)
LEMMA AuditShape ==
  ASSUME TypeOK, AuditStep
  PROVE  /\ log' \in Seq(Lines) /\ Len(log') \in {Len(log), Len(log) + 1}
         /\ \A i \in 1..Len(log) : log'[i] = log[i] \/ log'[i].kind = "garbage"
         /\ Len(log') # Len(log) =>
              LET l == log'[Len(log) + 1]
              IN  l.kind = "entry" => \E eol \in BOOLEAN : l = NewEntry(eol)
<1>1. log \in Seq(Lines) /\ Len(log) \in Nat
  BY LogFacts DEF TypeOK
<1>2. CASE log' = log
  BY <1>1, <1>2
<1>3. ASSUME NEW line \in Cut \cup {NewEntry(TRUE)}, log' = AppendFile(line)
      PROVE  /\ log' \in Seq(Lines) /\ Len(log') \in {Len(log), Len(log) + 1}
             /\ \A i \in 1..Len(log) : log'[i] = log[i] \/ log'[i].kind = "garbage"
             /\ Len(log') # Len(log) =>
                  LET l == log'[Len(log) + 1]
                  IN  l.kind = "entry" => \E eol \in BOOLEAN : l = NewEntry(eol)
  <2>1. /\ line \in Lines
        /\ line.kind = "entry" => \E eol \in BOOLEAN : line = NewEntry(eol)
    BY CutLines
  <2>2. /\ log' \in Seq(Lines)
        /\ \/ log' = Append(log, line)
           \/ /\ Len(log') = Len(log) /\ Len(log) > 0 /\ log'[Len(log)].kind = "garbage"
              /\ \A i \in 1..Len(log) : i # Len(log) => log'[i] = log[i]
    BY <1>3, <2>1, AppendShape
  <2>3. CASE log' = Append(log, line)
    <3>1. /\ Len(log') = Len(log) + 1 /\ log'[Len(log) + 1] = line
          /\ \A i \in 1..Len(log) : log'[i] = log[i]
      BY <1>1, <2>1, <2>3
    <3>2. QED
      BY <2>1, <2>2, <3>1
  <2>4. CASE log' # Append(log, line)
    BY <1>1, <2>2, <2>4
  <2>5. QED
    BY <2>3, <2>4
<1>4. QED
  BY <1>2, <1>3 DEF AuditStep

(***************************************************************************)
(* Nothing audit() does repairs a chain: a line that is not chained stays  *)
(* as it is, or is spoiled, or the line before it is.                      *)
(***************************************************************************)
THEOREM BrokenStaysBroken == Spec => StaysBroken
<1>1. TypeOK /\ [Next]_vars => [~Verified /\ ~Damage /\ ~Rehash => ~Verified']_vars
  <2> SUFFICES ASSUME TypeOK, Next, ~Verified, ~Damage, ~Rehash PROVE ~Verified'
    BY DEF vars
  <2>1. PICK i \in DOMAIN log : ~Chained(i)
    BY DEF Verified
  <2>2. Len(log) \in Nat /\ i \in 1..Len(log)
    BY <2>1, LogFacts
  <2>3. CASE Audit \/ AuditFails \/ AuditCut
    <3>1. AuditStep
      BY <2>3, AuditSteps
    <3>2. /\ Len(log') \in Nat /\ Len(log') >= Len(log) /\ DOMAIN log' = 1..Len(log')
          /\ \A k \in 1..Len(log) : log'[k] = log[k] \/ log'[k].kind = "garbage"
      BY <2>2, <3>1, AuditShape
    <3>3. \A k \in 1..Len(log) : k \in DOMAIN log'
      BY <2>2, <3>2
    <3>4. SUFFICES ASSUME Verified' PROVE FALSE
      OBVIOUS
    <3>5. \A k \in 1..Len(log) : log'[k].kind = "entry" /\ log'[k] = log[k]
      BY <3>2, <3>3, <3>4 DEF Verified, Chained
    <3>6. i > 1 => i - 1 \in 1..Len(log)
      BY <2>2
    <3>7. HashBefore(i) = HashBefore(i)'
      BY <3>5, <3>6 DEF HashBefore
    <3>8. Chained(i)'
      BY <2>2, <3>3, <3>4 DEF Verified
    <3>9. Chained(i)
      BY <2>2, <3>5, <3>7, <3>8 DEF Chained, hashEntry
    <3>10. QED
      BY <2>1, <3>9
  <2>4. CASE Restart \/ NextMonth \/ AuditThrows
    BY <2>4 DEF Restart, NextMonth, AuditThrows, Verified, Chained, HashBefore
  <2>5. QED
    BY <2>3, <2>4 DEF Next
<1>2. QED
  BY <1>1, TypeCorrect, PTL DEF Spec, StaysBroken

-----------------------------------------------------------------------------
(* A hash tells of its entries: they were audited, in that order, and one  *)
(* missing from it was skipped, or audited in an earlier run.              *)
TellsAt(h, a, runs, lost) ==
  /\ h[a] \in 1..Len(runs) /\ h[a] \notin lost
  /\ \A b \in 1..(a - 1) : h[b] < h[a]
  /\ \A m \in 1..(h[a] - 1) :
       (\E b \in 1..(a - 1) : h[b] = m) \/ m \in lost \/ runs[m] < runs[h[a]]

Tells(h, runs, lost) == \A a \in 1..Len(h) : TellsAt(h, a, runs, lost)

(* A hash computed by others tells nothing. That in memory may be one,     *)
(* once a run has begun with what they left.                               *)
SkippedCalled == \A m \in skipped : m \in 1..Len(audited)

HashInv ==
  /\ SkippedCalled
  /\ \A m \in 1..Len(audited) : audited[m] <= run
  /\ lastHash = Null => \A m \in 1..Len(audited) : m \in skipped \/ audited[m] < run
  /\ rehashed = "in this run" => lastHash # Null
  /\ lastHash # Null /\ rehashed # "before" =>
       /\ Tells(lastHash, audited, skipped)
       /\ \A m \in 1..Len(audited) :
            m \in skipped \/ audited[m] < run \/ \E b \in 1..Len(lastHash) : lastHash[b] = m
  /\ rehashed = "never" =>
       \A i \in DOMAIN log : log[i].kind = "entry" => Tells(log[i].hash, audited, skipped)

(* A hash goes on telling the truth when entries are added, or skipped.    *)
LEMMA TellsIsStable ==
  ASSUME TypeOK, audited' = Append(audited, run),
         \A m \in skipped' : m \in skipped \/ m = Len(audited) + 1,
         skipped \subseteq skipped', NEW h \in Hashes, Tells(h, audited, skipped)
  PROVE  Tells(h, audited', skipped')
<1>1. /\ Len(audited) \in Nat /\ Len(audited') = Len(audited) + 1
      /\ \A m \in 1..Len(audited) : audited'[m] = audited[m]
  BY NumberFields
<1>2. SUFFICES ASSUME NEW a \in 1..Len(h) PROVE TellsAt(h, a, audited', skipped')
  BY DEF Tells
<1>3. TellsAt(h, a, audited, skipped)
  BY DEF Tells
<1>4. \A m \in 1..(h[a] - 1) : m \in 1..Len(audited)
  BY <1>1, <1>3 DEF TellsAt
<1>5. h[a] \in 1..Len(audited') /\ h[a] \notin skipped'
  BY <1>1, <1>3 DEF TellsAt
<1>6. \A m \in 1..(h[a] - 1) :
        (\E b \in 1..(a - 1) : h[b] = m) \/ m \in skipped' \/ audited'[m] < audited'[h[a]]
  BY <1>1, <1>3, <1>4 DEF TellsAt
<1>7. QED
  BY <1>3, <1>5, <1>6 DEF TellsAt

(* The hash of the next entry tells of all that this run has audited.      *)
LEMMA NewHashTells ==
  ASSUME TypeOK, HashInv, AuditStep, rehashed # "before",
         NEW h, h = Append(Prev, Len(audited) + 1)
  PROVE  /\ h \in Hashes /\ Tells(h, audited', skipped')
         /\ \A m \in 1..(Len(audited) + 1) :
              m \in skipped \/ audited'[m] < run \/ \E b \in 1..Len(h) : h[b] = m
<1> DEFINE p == Prev
           n == Len(audited) + 1
<1>1. /\ Len(audited) \in Nat /\ n = Len(audited) + 1 /\ Len(audited') = n
      /\ audited' = Append(audited, run) /\ skipped' = skipped
      /\ \A m \in 1..Len(audited) : audited'[m] = audited[m]
      /\ audited'[n] = run
  BY NumberFields DEF AuditStep
<1>2. p \in Hashes /\ p \in Seq(Nat) /\ Len(p) \in Nat
  BY PrevFacts DEF Hashes
<1>3. Tells(p, audited, skipped)
  <2>1. CASE lastHash # Null
    BY <2>1, PrevFacts DEF HashInv
  <2>2. CASE lastHash = Null /\ SeedLastHash = GENESIS
    BY <2>2, PrevFacts DEF Tells, GENESIS
  <2>3. CASE lastHash = Null /\
             \E i \in DOMAIN log : log[i].kind = "entry" /\ SeedLastHash = log[i].hash
    <3>1. rehashed = "never"
      BY <2>3 DEF HashInv, TypeOK, Times
    <3>2. QED
      BY <2>3, <3>1, PrevFacts DEF HashInv
  <2>4. QED
    BY <2>1, <2>2, <2>3, SeedFacts
<1>4. Tells(p, audited', skipped')
  BY <1>1, <1>2, <1>3, TellsIsStable
<1>5. \A m \in 1..Len(audited) :
        m \in skipped \/ audited'[m] < run \/ \E b \in 1..Len(p) : p[b] = m
  BY <1>1, PrevFacts DEF HashInv
<1>6. h = Append(p, n) /\ n \in Nat /\ n \notin skipped
  <2>1. SkippedCalled
    BY DEF HashInv
  <2>2. QED
    BY <1>1, <2>1 DEF SkippedCalled
<1>7. \A b \in 1..Len(p) : p[b] \in 1..Len(audited)
  BY <1>3 DEF Tells, TellsAt
<1> HIDE DEF p, n
<1>8. /\ h \in Hashes /\ h \in Seq(Nat) /\ Len(h) = Len(p) + 1 /\ h[Len(h)] = n
      /\ \A a \in 1..Len(p) : h[a] = p[a]
  <2>1. /\ Append(p, n) \in Seq(Nat) /\ Len(Append(p, n)) = Len(p) + 1
        /\ Append(p, n)[Len(p) + 1] = n
        /\ \A a \in 1..Len(p) : Append(p, n)[a] = p[a]
    BY <1>2, <1>6, AppendFacts, Zenon
  <2>2. QED
    BY <1>6, <2>1, Zenon DEF Hashes
<1>9. ASSUME NEW a \in 1..Len(h) PROVE TellsAt(h, a, audited', skipped')
  <2>1. CASE a \in 1..Len(p)
    <3>1. h[a] = p[a] /\ \A b \in 1..(a - 1) : h[b] = p[b]
      BY <1>2, <1>8, <2>1
    <3>2. TellsAt(p, a, audited', skipped')
      BY <1>4, <2>1 DEF Tells
    <3>3. QED
      BY <3>1, <3>2 DEF TellsAt
  <2>2. CASE a \notin 1..Len(p)
    <3>1. a = Len(h) /\ a - 1 = Len(p) /\ h[a] = n
      BY <1>2, <1>8, <2>2
    <3>2. n \in 1..Len(audited') /\ \A m \in 1..(n - 1) : m \in 1..Len(audited)
      BY <1>1
    <3>3. \A b \in 1..(a - 1) : h[b] < h[a]
      BY <1>1, <1>7, <1>8, <3>1
    <3>4. ASSUME NEW m \in 1..(n - 1)
          PROVE  \/ \E b \in 1..(a - 1) : h[b] = m
                 \/ m \in skipped'
                 \/ audited'[m] < audited'[n]
      <4>1. m \in 1..Len(audited)
        BY <3>2
      <4>2. CASE \E b \in 1..Len(p) : p[b] = m
        BY <1>8, <3>1, <4>2
      <4>3. QED
        BY <1>1, <1>5, <4>1, <4>2
    <3>5. h[a] \in 1..Len(audited') /\ h[a] \notin skipped'
      BY <1>1, <1>6, <3>1, <3>2
    <3>6. QED
      BY <3>1, <3>3, <3>4, <3>5 DEF TellsAt
  <2>3. QED
    BY <2>1, <2>2
<1>10. Tells(h, audited', skipped')
  BY <1>9 DEF Tells
<1>11. ASSUME NEW m \in 1..n
       PROVE  m \in skipped \/ audited'[m] < run \/ \E b \in 1..Len(h) : h[b] = m
  <2>1. Len(h) \in 1..Len(h) /\ \A b \in 1..Len(p) : b \in 1..Len(h)
    BY <1>2, <1>8
  <2>2. m = n \/ m \in 1..Len(audited)
    BY <1>1
  <2>3. QED
    BY <1>5, <1>8, <2>1, <2>2
<1>12. QED
  BY <1>8, <1>10, <1>11 DEF n

(* The hashes on disk, as long as only audit() computes them.              *)
LEMMA DiskTells ==
  ASSUME TypeOK, HashInv, AuditStep, rehashed = "never",
         NEW i \in DOMAIN log', log'[i].kind = "entry"
  PROVE  Tells(log'[i].hash, audited', skipped')
<1>1. /\ Len(log) \in Nat /\ DOMAIN log = 1..Len(log) /\ log' \in Seq(Lines)
      /\ Len(log') = Len(log) \/ Len(log') = Len(log) + 1
      /\ \A k \in 1..Len(log) : log'[k] = log[k] \/ log'[k].kind = "garbage"
      /\ Len(log') # Len(log) =>
           LET l == log'[Len(log) + 1]
           IN  l.kind = "entry" => \E eol \in BOOLEAN : l = NewEntry(eol)
  BY LogFacts, AuditShape
<1>2. CASE i \in 1..Len(log)
  <2>1. log'[i] = log[i] /\ i \in DOMAIN log /\ log[i].kind = "entry"
    BY <1>1, <1>2
  <2>2. log[i].hash \in Hashes /\ Tells(log[i].hash, audited, skipped)
    BY <2>1, LogFacts, LineFields DEF HashInv
  <2>3. audited' = Append(audited, run) /\ skipped' = skipped
    BY DEF AuditStep
  <2>4. QED
    BY <2>1, <2>2, <2>3, TellsIsStable
<1>3. CASE i \notin 1..Len(log)
  <2>1. DOMAIN log' = 1..Len(log')
    BY <1>1
  <2>2. i = Len(log) + 1 /\ Len(log') # Len(log)
    <3>1. Len(log) \in Nat /\ i \in 1..Len(log') /\ i \notin 1..Len(log)
          /\ (Len(log') = Len(log) \/ Len(log') = Len(log) + 1)
      BY <1>1, <1>3, <2>1
    <3>2. QED
      BY <3>1
  <2>3. PICK eol \in BOOLEAN : log'[i] = NewEntry(eol)
    BY <1>1, <2>2
  <2>4. log'[i].hash = Append(Prev, Len(audited) + 1)
    BY <2>3, NewEntryFacts
  <2>5. QED
    BY <2>4, NewHashTells
<1>4. QED
  BY <1>2, <1>3

(* It is so of every hash that is on disk or in memory.                    *)
LEMMA HashInvariant == Spec => []HashInv
<1>1. Init => HashInv
  <2> SUFFICES ASSUME Init PROVE HashInv
    OBVIOUS
  <2>1. audited = <<>> /\ lastHash = Null /\ skipped = {} /\ rehashed = "never"
    BY DEF Init
  <2>2. \A i \in DOMAIN log : log[i].kind # "entry"
    BY AuditAssumption DEF Init
  <2>3. QED
    BY <2>1, <2>2 DEF HashInv, SkippedCalled
<1>2. TypeOK /\ HashInv /\ [Next]_vars => HashInv'
  <2> SUFFICES ASSUME TypeOK, HashInv, [Next]_vars PROVE HashInv'
    OBVIOUS
  <2> DEFINE n == Len(audited) + 1
  <2>1. ASSUME audited' = Append(audited, run)
        PROVE  /\ run \in Nat /\ Len(audited) \in Nat /\ Len(audited') = n
               /\ n = Len(audited) + 1 /\ audited'[n] = run
               /\ \A m \in 1..Len(audited) : audited'[m] = audited[m]
               /\ \A m \in 1..n : audited'[m] \in Nat /\ audited'[m] <= run
    <3>1. /\ run \in Nat /\ Len(audited) \in Nat /\ Len(audited') = n /\ audited'[n] = run
          /\ \A m \in 1..Len(audited) : audited'[m] = audited[m] /\ audited[m] \in Nat
      BY <2>1, NumberFields
    <3>2. \A m \in 1..n : m = n \/ m \in 1..Len(audited)
      BY <3>1
    <3>3. \A m \in 1..Len(audited) : audited[m] <= run
      BY DEF HashInv
    <3>4. QED
      BY <3>1, <3>2, <3>3
  <2> HIDE DEF n
  <2>2. CASE Audit \/ AuditFails \/ AuditCut
    <3> DEFINE h == Append(Prev, Len(audited) + 1)
    <3>1. AuditStep
      BY <2>2, AuditSteps
    <3>2. /\ run \in Nat /\ Len(audited) \in Nat /\ Len(audited') = n /\ n = Len(audited) + 1
          /\ skipped' = skipped
          /\ \A m \in 1..n : audited'[m] \in Nat /\ audited'[m] <= run
      BY <2>1, <3>1 DEF AuditStep
    <3>3. SkippedCalled'
      <4>1. SkippedCalled
        BY DEF HashInv
      <4>2. QED
        BY <3>2, <4>1 DEF SkippedCalled
    <3>4. rehashed # "before" =>
            /\ h \in Hashes /\ Tells(h, audited', skipped')
            /\ \A m \in 1..n :
                 m \in skipped' \/ audited'[m] < run \/ \E b \in 1..Len(h) : h[b] = m
      BY <3>1, <3>2, NewHashTells
    <3>5. rehashed' = "never" =>
            \A i \in DOMAIN log' : log'[i].kind = "entry" => Tells(log'[i].hash, audited', skipped')
      <4>1. rehashed' = "never" => rehashed = "never"
        BY <3>1 DEF AuditStep
      <4>2. QED
        BY <3>1, <4>1, DiskTells
    <3>6. \/ lastHash' = h /\ run' = run /\ rehashed' = rehashed
          \/ lastHash' = Null /\ run' = run + 1 /\ rehashed' # "in this run"
      BY <3>1 DEF AuditStep
    <3>7. h # Null
      <4>1. Len(audited) + 1 \in Nat /\ Prev \in Seq(Nat)
        BY <3>2, PrevFacts DEF Hashes
      <4>2. QED
        BY <4>1, AuditAssumption DEF AuditAssumption, Hashes
    <3> HIDE DEF h
    <3>8. CASE lastHash' = h /\ run' = run /\ rehashed' = rehashed
      BY <3>2, <3>3, <3>4, <3>5, <3>7, <3>8 DEF HashInv
    <3>9. CASE lastHash' = Null /\ run' = run + 1 /\ rehashed' # "in this run"
      <4>1. \A m \in 1..n : audited'[m] < run' /\ audited'[m] <= run'
        <5>1. run \in Nat /\ run' = run + 1 /\ \A m \in 1..n : audited'[m] \in Nat /\ audited'[m] <= run
          BY <3>2, <3>9
        <5>2. QED
          BY <5>1
      <4>2. QED
        BY <3>2, <3>3, <3>5, <3>9, <4>1 DEF HashInv
    <3>10. QED
      BY <3>6, <3>8, <3>9
  <2>3. CASE AuditThrows
    <3>1. /\ audited' = Append(audited, run) /\ skipped' = skipped \cup {n}
          /\ UNCHANGED <<log, lastHash, run, rehashed>>
      BY <2>3 DEF AuditThrows, n
    <3>2. /\ run \in Nat /\ Len(audited) \in Nat /\ Len(audited') = n /\ n = Len(audited) + 1
          /\ \A m \in 1..Len(audited) : audited'[m] = audited[m]
          /\ \A m \in 1..n : audited'[m] <= run
      BY <2>1, <3>1
    <3>3. SkippedCalled'
      <4>1. SkippedCalled
        BY DEF HashInv
      <4>2. QED
        BY <3>1, <3>2, <4>1 DEF SkippedCalled
    <3>4. \A m \in 1..n : m \in skipped' \/ m \in 1..Len(audited)
      BY <3>1, <3>2
    <3>5. \A g \in Hashes : Tells(g, audited, skipped) => Tells(g, audited', skipped')
      BY <3>1, <3>2, TellsIsStable
    <3>6. lastHash # Null => lastHash \in Hashes
      BY DEF TypeOK
    <3>7. rehashed = "never" =>
            \A i \in DOMAIN log : log[i].kind = "entry" => Tells(log[i].hash, audited', skipped')
      BY <3>5, LogFacts, LineFields DEF HashInv
    <3>8. lastHash = Null => \A m \in 1..n : m \in skipped' \/ audited'[m] < run
      BY <3>1, <3>2, <3>4 DEF HashInv
    <3>9. lastHash # Null /\ rehashed # "before" =>
            /\ Tells(lastHash, audited', skipped')
            /\ \A m \in 1..n :
                 m \in skipped' \/ audited'[m] < run \/ \E b \in 1..Len(lastHash) : lastHash[b] = m
      BY <3>1, <3>2, <3>4, <3>5, <3>6 DEF HashInv
    <3>10. QED
      BY <3>1, <3>2, <3>3, <3>7, <3>8, <3>9 DEF HashInv
  <2>4. CASE Restart
    <3>1. \A m \in 1..Len(audited) : audited[m] \in Nat /\ run \in Nat
      BY NumberFields
    <3>2. \A m \in 1..Len(audited) : audited[m] <= run
      BY DEF HashInv
    <3>3. \A m \in 1..Len(audited) : audited[m] < run + 1 /\ audited[m] <= run + 1
      BY <3>1, <3>2
    <3>4. /\ lastHash' = Null /\ run' = run + 1 /\ UNCHANGED <<log, audited, skipped>>
          /\ rehashed' # "in this run" /\ (rehashed' = "never" => rehashed = "never")
      BY <2>4 DEF Restart, NewRun
    <3>5. QED
      BY <3>3, <3>4 DEF HashInv, SkippedCalled
  <2>5. CASE NextMonth
    BY <2>5 DEF NextMonth, HashInv, SkippedCalled
  <2>6. CASE Damage
    <3>1. UNCHANGED <<lastHash, run, audited, skipped, rehashed>>
      BY <2>6 DEF Damage
    <3>2. \A i \in DOMAIN log' : log'[i].kind = "entry" =>
            \E k \in DOMAIN log : log[k].kind = "entry" /\ log'[i].hash = log[k].hash
      BY <2>6, DamageShape
    <3>3. QED
      BY <3>1, <3>2 DEF HashInv, SkippedCalled
  <2>7. CASE Rehash
    BY <2>7 DEF Rehash, HashInv, SkippedCalled
  <2>8. CASE UNCHANGED vars
    BY <2>8 DEF vars, HashInv, SkippedCalled
  <2>9. QED
    BY <2>2, <2>3, <2>4, <2>5, <2>6, <2>7, <2>8 DEF Next
<1>3. QED
  BY <1>1, <1>2, TypeCorrect, PTL DEF Spec

(* The hash of a chained line is the sequence of all entries up to it.     *)
Holds(i) ==
  /\ log[i].hash \in Seq(Nat) /\ Len(log[i].hash) = i
  /\ \A k \in 1..i : log[i].hash[k] = log[k].core

LEMMA ChainHolds ==
  ASSUME TypeOK, Verified
  PROVE  \A i \in DOMAIN log : Holds(i)
<1>1. /\ Len(log) \in Nat /\ DOMAIN log = 1..Len(log)
      /\ \A i \in 1..Len(log) : /\ log[i].kind = "entry"
                                /\ log[i].core \in Nat /\ log[i].prev \in Seq(Nat)
  BY LogFacts, LineFields DEF Verified, Chained, Hashes
<1> DEFINE T == {i \in 1..Len(log) : ~Holds(i)}
<1>2. SUFFICES ASSUME T # {} PROVE FALSE
  BY <1>1
<1>3. T \in SUBSET Nat
  BY <1>1
<1>4. PICK x \in T : \A y \in T : x <= y
  BY <1>2, <1>3, LeastNumber
<1>5. x \in 1..Len(log) /\ ~Holds(x)
  BY <1>4
<1>6. log[x].prev = HashBefore(x) /\ log[x].hash = Append(log[x].prev, log[x].core)
  BY <1>1, <1>5 DEF Verified, Chained, hashEntry
<1>7. /\ log[x].hash \in Seq(Nat) /\ Len(log[x].hash) = Len(log[x].prev) + 1
      /\ log[x].hash[Len(log[x].prev) + 1] = log[x].core
      /\ \A a \in 1..Len(log[x].prev) : log[x].hash[a] = log[x].prev[a]
  BY <1>1, <1>5, <1>6, AppendFacts
<1>8. CASE x = 1
  <2>1. Len(log[x].prev) = 0
    BY <1>6, <1>8 DEF HashBefore, GENESIS
  <2>2. QED
    BY <1>5, <1>7, <1>8, <2>1 DEF Holds
<1>9. CASE x # 1
  <2>1. x - 1 \in 1..Len(log) /\ x - 1 \in Nat /\ ~(x <= x - 1)
    BY <1>1, <1>5, <1>9
  <2>2. Holds(x - 1)
    BY <1>4, <2>1
  <2>3. log[x].prev = log[x - 1].hash
    BY <1>1, <1>6, <1>9, <2>1 DEF HashBefore
  <2>4. Len(log[x].prev) = x - 1 /\ \A k \in 1..(x - 1) : log[x].prev[k] = log[k].core
    BY <2>2, <2>3 DEF Holds
  <2>5. Len(log[x].hash) = x /\ log[x].hash[x] = log[x].core
    BY <1>5, <1>7, <2>1, <2>4
  <2>6. \A k \in 1..(x - 1) : log[x].hash[k] = log[k].core
    BY <1>7, <2>4
  <2>7. \A k \in 1..x : k = x \/ k \in 1..(x - 1)
    BY <1>5
  <2>8. Holds(x)
    BY <1>7, <2>5, <2>6, <2>7 DEF Holds
  <2>9. QED
    BY <1>5, <2>8
<1>10. QED
  BY <1>8, <1>9

(* What a chain that verifies, and ends in a hash that can be trusted,     *)
(* says of each of its entries.                                            *)
LEMMA ChainTells ==
  ASSUME TypeOK, HashInv, Verified, Trusted, NEW i \in DOMAIN log
  PROVE  /\ i \in 1..Len(log) /\ log[i].core \in (1..Len(audited)) \ skipped
         /\ \A b \in 1..(i - 1) : b \in DOMAIN log /\ log[b].core < log[i].core
         /\ \A m \in 1..(log[i].core - 1) :
              \/ \E k \in DOMAIN log : log[k].core = m
              \/ m \in skipped
              \/ audited[m] < audited[log[i].core]
<1> DEFINE n == Len(log)
           h == log[n].hash
<1>1. n \in Nat /\ DOMAIN log = 1..n /\ i \in 1..n /\ n \in DOMAIN log
  BY LogFacts
<1>2. log[n].kind = "entry" /\ h \in Hashes
  BY <1>1, LogFacts, LineFields DEF Verified, Chained
<1>3. Len(h) = n /\ \A k \in 1..n : h[k] = log[k].core
  BY <1>1, ChainHolds DEF Holds
<1>4. Tells(h, audited, skipped)
  <2>1. CASE rehashed = "never"
    BY <1>1, <1>2, <2>1 DEF HashInv
  <2>2. CASE rehashed = "in this run" /\ h = lastHash
    BY <2>2 DEF HashInv
  <2>3. QED
    BY <2>1, <2>2 DEF Trusted
<1> HIDE DEF h, n
<1>5. TellsAt(h, i, audited, skipped) /\ h[i] = log[i].core
  BY <1>1, <1>3, <1>4 DEF Tells
<1>6. \A b \in 1..(i - 1) : b \in DOMAIN log /\ h[b] = log[b].core
  BY <1>1, <1>3
<1>7. QED
  BY <1>1, <1>5, <1>6 DEF TellsAt, n

(***************************************************************************)
(* What verifies is genuine: its entries are entries that were audited, in *)
(* the order they were audited in, whatever has been lost, altered,        *)
(* exchanged or cut short; and where hashes were recomputed, it is so of a *)
(* log that ends in the newest entry, until the server restarts.           *)
(***************************************************************************)
THEOREM OnlyGenuineVerifies == Spec => []VerifiedIsGenuine
<1>1. TypeOK /\ HashInv => VerifiedIsGenuine
  <2> SUFFICES ASSUME TypeOK, HashInv, Verified, Trusted, NEW i \in DOMAIN log
               PROVE  /\ log[i].core \in (1..Len(audited)) \ skipped
                      /\ i > 1 => log[i - 1].core < log[i].core
    BY DEF VerifiedIsGenuine
  <2>1. /\ i \in 1..Len(log) /\ log[i].core \in (1..Len(audited)) \ skipped
        /\ \A b \in 1..(i - 1) : b \in DOMAIN log /\ log[b].core < log[i].core
    BY ChainTells
  <2>2. Len(log) \in Nat
    BY LogFacts
  <2>3. i > 1 => i - 1 \in 1..(i - 1)
    BY <2>1, <2>2
  <2>4. QED
    BY <2>1, <2>3
<1>2. QED
  BY <1>1, TypeCorrect, HashInvariant, PTL

(***************************************************************************)
(* An entry missing before one on disk goes unnoticed only if its call     *)
(* threw before it had a hash, if the server was restarted between the     *)
(* two, or if hashes were made to fit.                                     *)
(***************************************************************************)
THEOREM LossesAreNoticed == Spec => []LossIsNoticed
<1>1. TypeOK /\ HashInv => LossIsNoticed
  BY ChainTells DEF LossIsNoticed
<1>2. QED
  BY <1>1, TypeCorrect, HashInvariant, PTL

-----------------------------------------------------------------------------
(* While nothing but audit() touches the files, the entries on disk are in *)
(* the order of their calls; and one is hashed onto the one before it, if  *)
(* whatever was called between the two was skipped. Likewise what the next *)
(* one will be hashed onto.                                                *)
Skipped(lost, from, to) == \A m \in Nat : from < m /\ m < to => m \in lost

OntoBefore(lines, lost, i, core, prev) ==
  /\ Skipped(lost, 0, core) => prev = GENESIS
  /\ i > 1 /\ lines[i - 1].kind = "entry" /\ Skipped(lost, lines[i - 1].core, core) =>
       prev = lines[i - 1].hash

EntryInv(i) ==
  /\ log[i].core \in 1..Len(audited) /\ log[i].core \notin skipped
  /\ log[i].hash = Append(log[i].prev, log[i].core)
  /\ \A k \in DOMAIN log : log[k].kind = "entry" /\ k < i => log[k].core < log[i].core
  /\ OntoBefore(log, skipped, i, log[i].core, log[i].prev)

MemoryInv ==
  lastHash # Null => OntoBefore(log, skipped, Len(log) + 1, Len(audited) + 1, lastHash)

IntactInv ==
  intact => /\ \A i \in DOMAIN log : log[i].kind = "entry" => EntryInv(i)
            /\ MemoryInv

LEMMA EntryFields ==
  ASSUME TypeOK, NEW i \in DOMAIN log, log[i].kind = "entry"
  PROVE  i \in Nat /\ log[i].core \in Nat /\ log[i].prev \in Seq(Nat)
BY LogFacts, LineFields DEF Hashes

(* What the next entry will be hashed onto, seeded or in memory.           *)
LEMMA PrevOnto ==
  ASSUME TypeOK, IntactInv, intact
  PROVE  OntoBefore(log, skipped, Len(log) + 1, Len(audited) + 1, Prev)
<1>1. Len(log) \in Nat /\ DOMAIN log = 1..Len(log) /\ Len(audited) \in Nat
  BY LogFacts, NumberFields
<1>2. CASE lastHash # Null
  BY <1>2, PrevFacts DEF IntactInv, MemoryInv
<1>3. CASE lastHash = Null
  <2>1. Prev = SeedLastHash
    BY <1>3, PrevFacts
  <2>2. ASSUME Skipped(skipped, 0, Len(audited) + 1), NEW i \in DOMAIN log, log[i].kind = "entry"
        PROVE  FALSE
    <3>1. log[i].core \in 1..Len(audited) /\ log[i].core \notin skipped
      BY <2>2 DEF IntactInv, EntryInv
    <3>2. log[i].core \in Nat /\ 0 < log[i].core /\ log[i].core < Len(audited) + 1
      BY <1>1, <3>1
    <3>3. QED
      BY <2>2, <3>1, <3>2 DEF Skipped
  <2>3. Skipped(skipped, 0, Len(audited) + 1) => Prev = GENESIS
    BY <2>1, <2>2, SeedFacts
  <2>4. Len(log) + 1 > 1 => Len(log) > 0 /\ (Len(log) + 1) - 1 = Len(log)
    BY <1>1
  <2>5. QED
    BY <1>1, <2>1, <2>3, <2>4, SeedFacts DEF OntoBefore
<1>4. QED
  BY <1>2, <1>3

(* An entry keeps what is said of it while lines are added behind it, or   *)
(* spoiled, and further entries are audited or skipped.                    *)
LEMMA EntryKept ==
  ASSUME TypeOK, NEW i \in DOMAIN log, log[i].kind = "entry", EntryInv(i),
         log' \in Seq(Lines), log'[i] = log[i],
         \A k \in 1..Len(log) : log'[k] = log[k] \/ log'[k].kind = "garbage",
         Len(audited') = Len(audited) + 1,
         \A m \in skipped' : m \in skipped \/ m = Len(audited) + 1
  PROVE  EntryInv(i)'
<1>1. /\ i \in 1..Len(log) /\ Len(log) \in Nat /\ DOMAIN log = 1..Len(log)
      /\ Len(audited) \in Nat /\ log[i].core \in Nat
  BY LogFacts, NumberFields, EntryFields
<1>2. log[i].core \in 1..Len(audited) /\ log[i].core \notin skipped
  BY DEF EntryInv
<1>3. log[i].core \in 1..Len(audited') /\ log[i].core \notin skipped'
  BY <1>1, <1>2
<1>4. ASSUME NEW k \in DOMAIN log', log'[k].kind = "entry", k < i
      PROVE  log'[k].core < log'[i].core
  <2>1. DOMAIN log' = 1..Len(log')
    OBVIOUS
  <2>2. k \in 1..Len(log)
    BY <1>1, <1>4, <2>1
  <2>3. log'[k] = log[k] /\ k \in DOMAIN log
    BY <1>1, <1>4, <2>2
  <2>4. QED
    BY <1>4, <2>3 DEF EntryInv
<1>5. \A from : Skipped(skipped', from, log[i].core) => Skipped(skipped, from, log[i].core)
  <2> SUFFICES ASSUME NEW from, Skipped(skipped', from, log[i].core),
                      NEW m \in Nat, from < m, m < log[i].core
               PROVE  m \in skipped
    BY DEF Skipped
  <2>1. m \in skipped'
    BY DEF Skipped
  <2>2. m # Len(audited) + 1
    BY <1>1, <1>2
  <2>3. QED
    BY <2>1, <2>2
<1>6. i > 1 /\ log'[i - 1].kind = "entry" => log'[i - 1] = log[i - 1]
  <2>1. i > 1 => i - 1 \in 1..Len(log)
    BY <1>1
  <2>2. QED
    BY <2>1
<1>7. OntoBefore(log, skipped, i, log[i].core, log[i].prev)
  BY DEF EntryInv
<1>8. OntoBefore(log', skipped', i, log'[i].core, log'[i].prev)
  BY <1>5, <1>6, <1>7 DEF OntoBefore
<1>9. log[i].hash = Append(log[i].prev, log[i].core)
  BY DEF EntryInv
<1>10. QED
  BY <1>3, <1>4, <1>8, <1>9 DEF EntryInv

(* The line behind a log of a lines, of b lines after a write.             *)
LEMMA LineNumbers ==
  ASSUME NEW a \in Nat, NEW b, b = a \/ b = a + 1
  PROVE  /\ b \in Nat /\ b + 1 - 1 = b /\ (b + 1 > 1 => b > 0) /\ (b > 0 => b \in 1..b)
         /\ a + 1 > 1 => a + 1 - 1 \in 1..a
         /\ \A k \in 1..b : k < a + 1 => k \in 1..a
OBVIOUS

(* A call that reaches the append keeps it.                                *)
LEMMA AuditKeepsIntact ==
  ASSUME TypeOK, SkippedCalled, IntactInv, AuditStep
  PROVE  IntactInv'
<1> DEFINE n == Len(audited) + 1
           h == Append(Prev, n)
<1>1. /\ Len(audited) \in Nat /\ n \in Nat /\ n = Len(audited) + 1 /\ Len(audited') = n
      /\ skipped' = skipped /\ intact' = intact /\ n \notin skipped
      /\ lastHash' # Null => lastHash' = h
  BY NumberFields DEF AuditStep, SkippedCalled
<1>2. SUFFICES ASSUME intact
               PROVE  /\ \A i \in DOMAIN log' : log'[i].kind = "entry" => EntryInv(i)'
                      /\ MemoryInv'
  BY <1>1 DEF IntactInv
<1>3. /\ Len(log) \in Nat /\ DOMAIN log = 1..Len(log) /\ DOMAIN log' = 1..Len(log')
      /\ Len(log') = Len(log) \/ Len(log') = Len(log) + 1
  BY LogFacts, AuditShape
<1>4. /\ Len(log') \in Nat /\ Len(log') + 1 - 1 = Len(log')
      /\ Len(log') + 1 > 1 => Len(log') > 0
      /\ Len(log') > 0 => Len(log') \in 1..Len(log')
      /\ Len(log) + 1 > 1 => Len(log) + 1 - 1 \in 1..Len(log)
      /\ \A k \in 1..Len(log') : k < Len(log) + 1 => k \in 1..Len(log)
  BY <1>3, LineNumbers
<1>5. /\ log' \in Seq(Lines)
      /\ \A k \in 1..Len(log) : log'[k] = log[k] \/ log'[k].kind = "garbage"
      /\ Len(log') # Len(log) =>
           LET l == log'[Len(log) + 1]
           IN  l.kind = "entry" => \E eol \in BOOLEAN : l = NewEntry(eol)
  BY AuditShape
<1>6. \A eol \in BOOLEAN : /\ NewEntry(eol).core = n /\ NewEntry(eol).prev = Prev
                           /\ NewEntry(eol).hash = h
  BY NewEntryFacts
<1>7. OntoBefore(log, skipped, Len(log) + 1, n, Prev)
  BY <1>2, PrevOnto
<1> HIDE DEF n, h
<1>8. ASSUME NEW k \in 1..Len(log), log'[k].kind = "entry"
      PROVE  /\ log'[k] = log[k] /\ log[k].kind = "entry" /\ k \in DOMAIN log
             /\ EntryInv(k) /\ log[k].core \in Nat /\ log[k].core < n
  <2>1. log'[k] = log[k] /\ log[k].kind = "entry" /\ k \in DOMAIN log
    BY <1>3, <1>5, <1>8
  <2>2. EntryInv(k) /\ log[k].core \in 1..Len(audited)
    BY <1>2, <2>1 DEF IntactInv, EntryInv
  <2>3. QED
    BY <1>1, <2>1, <2>2
<1>9. ASSUME NEW i \in DOMAIN log', log'[i].kind = "entry", i \notin 1..Len(log)
      PROVE  /\ i = Len(log) + 1 /\ Len(log') = i
             /\ log'[i].core = n /\ log'[i].prev = Prev /\ log'[i].hash = h
  <2>1. i \in 1..Len(log') /\ Len(log) \in Nat
        /\ (Len(log') = Len(log) \/ Len(log') = Len(log) + 1)
    BY <1>3
  <2>2. i = Len(log) + 1 /\ Len(log') = i /\ Len(log') # Len(log)
    BY <1>9, <2>1
  <2>3. PICK eol \in BOOLEAN : log'[i] = NewEntry(eol)
    BY <1>5, <1>9, <2>2
  <2>4. QED
    BY <1>6, <2>2, <2>3
<1>10. ASSUME NEW i \in DOMAIN log', log'[i].kind = "entry" PROVE EntryInv(i)'
  <2>1. CASE i \in 1..Len(log)
    BY <1>1, <1>5, <1>8, <1>10, <2>1, EntryKept
  <2>2. CASE i \notin 1..Len(log)
    <3>1. /\ i = Len(log) + 1
          /\ log'[i].core = n /\ log'[i].prev = Prev /\ log'[i].hash = h
      BY <1>9, <1>10, <2>2
    <3>2. n \in 1..Len(audited') /\ n \notin skipped'
      BY <1>1
    <3>3. ASSUME NEW k \in DOMAIN log', log'[k].kind = "entry", k < i
          PROVE  log'[k].core < log'[i].core
      <4>1. k \in 1..Len(log)
        BY <1>3, <1>4, <3>1, <3>3
      <4>2. QED
        BY <1>8, <3>1, <3>3, <4>1
    <3>4. i > 1 /\ log'[i - 1].kind = "entry" => log'[i - 1] = log[i - 1] /\ log[i - 1].kind = "entry"
      <4>1. i > 1 => i - 1 \in 1..Len(log)
        BY <1>4, <3>1
      <4>2. QED
        BY <1>8, <4>1
    <3>7. OntoBefore(log', skipped', i, n, Prev)
      BY <1>1, <1>7, <3>1, <3>4 DEF OntoBefore
    <3>8. QED
      BY <3>1, <3>2, <3>3, <3>7 DEF EntryInv, h
  <2>3. QED
    BY <2>1, <2>2
<1>11. ASSUME lastHash' # Null
      PROVE  OntoBefore(log', skipped', Len(log') + 1, Len(audited') + 1, lastHash')
  <2>1. lastHash' = h /\ Len(audited') + 1 = n + 1 /\ 0 < n
    BY <1>1, <1>11
  <2>2. n \in Nat /\ n < n + 1 /\ n \notin skipped'
    BY <1>1
  <2>3. ~Skipped(skipped', 0, n + 1)
    BY <2>1, <2>2 DEF Skipped
  <2>4. ASSUME Len(log') > 0, log'[Len(log')].kind = "entry",
               Skipped(skipped', log'[Len(log')].core, n + 1)
        PROVE  h = log'[Len(log')].hash
    <3>1. Len(log') \in DOMAIN log'
      BY <1>3, <1>4, <2>4
    <3>2. CASE Len(log') \in 1..Len(log)
      <4>1. log'[Len(log')].core \in Nat /\ log'[Len(log')].core < n
        BY <1>8, <2>4, <3>2
      <4>2. QED
        BY <2>2, <2>4, <4>1 DEF Skipped
    <3>3. CASE Len(log') \notin 1..Len(log)
      BY <1>9, <2>4, <3>1, <3>3
    <3>4. QED
      BY <3>2, <3>3
  <2>5. QED
    BY <1>4, <2>1, <2>3, <2>4 DEF OntoBefore
<1>12. QED
  BY <1>10, <1>11 DEF MemoryInv


(* An exception before the append leaves the lines and the hash in memory. *)
LEMMA ThrowKeepsIntact ==
  ASSUME TypeOK, IntactInv, AuditThrows
  PROVE  IntactInv'
<1>1. /\ Len(audited) \in Nat /\ Len(audited') = Len(audited) + 1
      /\ log' = log /\ lastHash' = lastHash /\ intact' = intact
      /\ skipped' = skipped \cup {Len(audited) + 1}
  BY NumberFields DEF AuditThrows
<1>2. SUFFICES ASSUME intact
               PROVE  /\ \A i \in DOMAIN log' : log'[i].kind = "entry" => EntryInv(i)'
                      /\ MemoryInv'
  BY <1>1 DEF IntactInv
<1>3. log \in Seq(Lines) /\ Len(log) \in Nat /\ DOMAIN log = 1..Len(log)
  BY LogFacts DEF TypeOK
<1>4. ASSUME NEW i \in DOMAIN log', log'[i].kind = "entry" PROVE EntryInv(i)'
  <2>1. i \in DOMAIN log /\ log[i].kind = "entry" /\ EntryInv(i)
    BY <1>1, <1>2, <1>4 DEF IntactInv
  <2>2. \A k \in 1..Len(log) : log'[k] = log[k] \/ log'[k].kind = "garbage"
    BY <1>1
  <2>3. QED
    BY <1>1, <1>3, <2>1, <2>2, EntryKept
<1>5. ASSUME NEW from, from \in Nat,
             Skipped(skipped', from, Len(audited) + 2)
      PROVE  Skipped(skipped, from, Len(audited) + 1)
  <2> SUFFICES ASSUME NEW m \in Nat, from < m, m < Len(audited) + 1
               PROVE  m \in skipped
    BY DEF Skipped
  <2>1. m < Len(audited) + 2 /\ m # Len(audited) + 1
    BY <1>1
  <2>2. QED
    BY <1>1, <1>5, <2>1 DEF Skipped
<1>6. ASSUME lastHash # Null
      PROVE  OntoBefore(log, skipped', Len(log) + 1, Len(audited) + 2, lastHash)
  <2>1. OntoBefore(log, skipped, Len(log) + 1, Len(audited) + 1, lastHash)
    BY <1>2, <1>6 DEF IntactInv, MemoryInv
  <2>2. Len(log) + 1 > 1 => Len(log) + 1 - 1 \in DOMAIN log
    BY <1>3, LineNumbers
  <2>3. Len(log) + 1 > 1 /\ log[Len(log) + 1 - 1].kind = "entry" =>
          log[Len(log) + 1 - 1].core \in Nat
    BY <2>2, EntryFields
  <2>4. 0 \in Nat
    OBVIOUS
  <2>5. QED
    BY <1>5, <2>1, <2>3, <2>4 DEF OntoBefore
<1>7. Len(audited') + 1 = Len(audited) + 2
  BY <1>1
<1>8. QED
  BY <1>1, <1>4, <1>6, <1>7 DEF MemoryInv

LEMMA IntactInvariant == Spec => []IntactInv
<1>1. Init => IntactInv
  BY DEF Init, IntactInv, MemoryInv
<1>2. TypeOK /\ SkippedCalled /\ IntactInv /\ [Next]_vars => IntactInv'
  <2> SUFFICES ASSUME TypeOK, SkippedCalled, IntactInv, [Next]_vars
               PROVE  IntactInv'
    OBVIOUS
  <2>1. CASE Audit
    BY <2>1, AuditKeepsIntact, AuditSteps
  <2>2. CASE AuditFails
    BY <2>2, AuditKeepsIntact, AuditSteps
  <2>3. CASE AuditCut
    BY <2>3, AuditKeepsIntact, AuditSteps
  <2>4. CASE AuditThrows
    BY <2>4, ThrowKeepsIntact
  <2>5. CASE Restart
    BY <2>5 DEF Restart, NewRun, IntactInv, EntryInv, OntoBefore, MemoryInv
  <2>6. CASE NextMonth
    BY <2>6 DEF NextMonth, IntactInv, EntryInv, OntoBefore, MemoryInv
  <2>7. CASE Damage \/ Rehash
    BY <2>7 DEF Damage, Rehash, IntactInv
  <2>8. CASE UNCHANGED vars
    BY <2>8 DEF vars, IntactInv, EntryInv, OntoBefore, MemoryInv
  <2>9. QED
    BY <2>1, <2>2, <2>3, <2>4, <2>5, <2>6, <2>7, <2>8 DEF Next
<1>3. QED
  BY <1>1, <1>2, TypeCorrect, HashInvariant, PTL DEF Spec, HashInv

(* In a complete log nothing but skipped entries lies between two lines.   *)
LEMMA NothingBetween ==
  ASSUME TypeOK, IntactInv, Complete, NEW from \in Nat, NEW i \in DOMAIN log,
         \A k \in DOMAIN log : k < i => log[k].core <= from
  PROVE  Skipped(skipped, from, log[i].core)
<1>1. /\ \A k \in DOMAIN log : k \in Nat /\ log[k].core \in 1..Len(audited)
      /\ \A k \in DOMAIN log : i < k => log[i].core < log[k].core
  BY EntryFields DEF Complete, IntactInv, EntryInv
<1>2. SUFFICES ASSUME NEW m \in Nat, from < m, m < log[i].core, m \notin skipped
               PROVE  FALSE
  BY DEF Skipped
<1>3. Len(audited) \in Nat /\ log[i].core \in 1..Len(audited)
  BY <1>1, NumberFields
<1>4. m \in 1..Len(audited)
  BY <1>2, <1>3
<1>5. PICK k \in DOMAIN log : log[k].core = m
  BY <1>2, <1>4 DEF Complete
<1>6. k < i \/ k = i \/ i < k
  BY <1>1
<1>7. CASE k < i
  <2>1. m <= from
    BY <1>5, <1>7
  <2>2. QED
    BY <1>2, <2>1
<1>8. CASE k = i
  BY <1>2, <1>3, <1>5, <1>8
<1>9. CASE i < k
  <2>1. log[i].core < m
    BY <1>1, <1>5, <1>9
  <2>2. QED
    BY <1>2, <1>3, <2>1
<1>10. QED
  BY <1>6, <1>7, <1>8, <1>9

(* A log that holds every entry that was given a hash, and nothing else,   *)
(* verifies: restarts, months and calls that threw raise no false alarm.   *)
THEOREM CompleteLogsVerify == Spec => []CompleteLogVerifies
<1>1. ASSUME TypeOK, IntactInv, Complete, NEW i \in DOMAIN log
      PROVE  Chained(i)
  <2>1. /\ log[i].kind = "entry" /\ EntryInv(i) /\ i \in 1..Len(log)
        /\ log[i].hash = hashEntry(log[i].prev, log[i].core)
    BY <1>1, LogFacts DEF Complete, IntactInv, EntryInv, hashEntry
  <2>2. OntoBefore(log, skipped, i, log[i].core, log[i].prev)
    BY <2>1 DEF EntryInv
  <2>3. CASE i = 1
    <3>1. \A k \in DOMAIN log : ~(k < i)
      BY <1>1, <2>3, LogFacts
    <3>2. Skipped(skipped, 0, log[i].core)
      BY <1>1, <3>1, NothingBetween
    <3>3. QED
      BY <2>1, <2>2, <2>3, <3>2 DEF Chained, HashBefore, OntoBefore
  <2>4. CASE i # 1
    <3>1. i > 1 /\ i - 1 \in 1..Len(log) /\ \A k \in 1..Len(log) : k < i => k = i - 1 \/ k < i - 1
      BY <1>1, <2>1, <2>4, LogFacts
    <3>2. DOMAIN log = 1..Len(log)
      BY <1>1, LogFacts
    <3>3. log[i - 1].kind = "entry" /\ EntryInv(i - 1) /\ log[i - 1].core \in Nat
      BY <1>1, <3>1, <3>2, EntryFields DEF Complete, IntactInv
    <3>4. ASSUME NEW k \in DOMAIN log, k < i
          PROVE  log[k].core <= log[i - 1].core
      <4>1. log[k].core \in Nat /\ log[k].kind = "entry"
        BY <1>1, EntryFields DEF Complete
      <4>2. CASE k = i - 1
        BY <3>3, <4>2
      <4>3. CASE k < i - 1
        <5>1. log[k].core < log[i - 1].core
          BY <3>3, <4>1, <4>3 DEF EntryInv
        <5>2. QED
          BY <3>3, <4>1, <5>1
      <4>4. QED
        BY <3>1, <3>2, <3>4, <4>2, <4>3
    <3>5. Skipped(skipped, log[i - 1].core, log[i].core)
      BY <1>1, <3>3, <3>4, NothingBetween
    <3>6. QED
      BY <2>1, <2>2, <2>4, <3>1, <3>3, <3>5 DEF Chained, HashBefore, OntoBefore
  <2>5. QED
    BY <2>3, <2>4
<1>2. TypeOK /\ IntactInv => CompleteLogVerifies
  BY <1>1 DEF CompleteLogVerifies, Verified
<1>3. QED
  BY <1>2, TypeCorrect, IntactInvariant, PTL

=============================================================================
