------------------------------ MODULE AuditLog ------------------------------
(***************************************************************************)
(* The hash-chained audit log (audit.js): monthly files of lines, the      *)
(* in-memory hash of the newest entry, and verifyAuditChain.               *)
(*                                                                         *)
(* The files are one sequence of lines, each with the month of the file it *)
(* is in: files are read in the order of their names. SHA-256 is taken to  *)
(* be injective, so a hash is the sequence of what has been hashed into    *)
(* it; it has no key, so whoever writes to the files can compute it too.   *)
(* Entries are numbered in the order of the calls of audit(), the calls    *)
(* that come to nothing included.                                          *)
(***************************************************************************)
EXTENDS Naturals, Sequences

CONSTANTS
  MaxEntries,  \* bound: calls of audit()
  MaxMonths,   \* bound: months that pass
  MaxRuns,     \* bound: runs of the server
  MaxLegacy,   \* bound: entries an earlier version, without hashes, has left
  Null,        \* null
  NoHash       \* the hash of a line that has none (undefined)

Hashes == Seq(Nat)
GENESIS == <<>>

ASSUME AuditAssumption ==
  /\ MaxEntries \in Nat /\ MaxMonths \in Nat
  /\ MaxRuns \in Nat /\ MaxLegacy \in Nat
  /\ Null \notin Hashes /\ NoHash \notin Hashes /\ Null # NoHash

VARIABLES
  log,       \* the lines of all files, in the order they are read
  month,     \* the current month
  lastHash,  \* _lastHash
  run,       \* history: which run of the server this is
  audited,   \* history: the runs in which entries 1, 2, ... were audited
  skipped,   \* history: the entries whose call threw before they had a hash
  intact,    \* history: no file has been touched by anything but audit()
  rehashed   \* history: when hashes on disk have been computed by others

vars == <<log, month, lastHash, run, audited, skipped, intact, rehashed>>

hashEntry(prevHash, core) == Append(prevHash, core)

Entries == [month : Nat, kind : {"entry"}, core : Nat, prev : Hashes, hash : Hashes,
            eol : BOOLEAN]
Legacies == [month : Nat, kind : {"legacy"}, eol : {TRUE}]
Garbage == [month : Nat, kind : {"garbage"}, eol : BOOLEAN]   \* does not parse
Lines == Entries \cup Legacies \cup Garbage

Times == {"never", "in this run", "before"}

TypeOK ==
  /\ log \in Seq(Lines)
  /\ month \in Nat
  /\ lastHash \in Hashes \cup {Null}
  /\ audited \in Seq(Nat)
  /\ skipped \in SUBSET Nat
  /\ run \in Nat
  /\ intact \in BOOLEAN
  /\ rehashed \in Times

Init ==
  /\ log \in {[i \in 1..n |-> [month |-> 0, kind |-> "legacy", eol |-> TRUE]]
                : n \in 0..MaxLegacy}
  /\ month = 0
  /\ lastHash = Null
  /\ audited = <<>>
  /\ skipped = {}
  /\ run = 0
  /\ intact = TRUE
  /\ rehashed = "never"
-----------------------------------------------------------------------------
(* Mutant of SeedLastHash: only the file of the current month is read.     *)
SeedLastHash_CurrentFile ==
  IF \E i \in DOMAIN log : log[i].kind # "garbage" /\ log[i].month = month
  THEN LET newest == CHOOSE i \in DOMAIN log :
                       /\ log[i].kind # "garbage"
                       /\ \A k \in DOMAIN log : k > i => log[k].kind = "garbage"
       IN  IF log[newest].kind = "entry" THEN log[newest].hash ELSE GENESIS
  ELSE GENESIS

(* seedLastHash: readAudit(1) is the newest line of all files that parses. *)
SeedLastHash ==
  IF \E i \in DOMAIN log : log[i].kind # "garbage"
  THEN LET newest == CHOOSE i \in DOMAIN log :
                       /\ log[i].kind # "garbage"
                       /\ \A k \in DOMAIN log : k > i => log[k].kind = "garbage"
       IN  IF log[newest].kind = "entry" THEN log[newest].hash ELSE GENESIS
  ELSE GENESIS

(* What appendFileSync does to the current file, given the line it writes: *)
(* after a line without an end it makes that line longer.                  *)
AppendFile(line) ==
  LET n == Len(log)
  IN  IF n > 0 /\ ~log[n].eol /\ log[n].month = month
      THEN [log EXCEPT ![n] = [month |-> month, kind |-> "garbage", eol |-> line.eol]]
      ELSE Append(log, line)

(* The call of audit() for the next entry, once mkdirSync and seedLastHash *)
(* have returned: whatever happens to the file then, _lastHash has been    *)
(* advanced before.                                                        *)
Prev == IF lastHash = Null THEN SeedLastHash ELSE lastHash

NewEntry(eol) ==
  LET core == Len(audited) + 1
  IN  [month |-> month, kind |-> "entry", core |-> core, prev |-> Prev,
       hash |-> hashEntry(Prev, core), eol |-> eol]

Called ==
  /\ Len(audited) < MaxEntries
  /\ lastHash' = hashEntry(Prev, Len(audited) + 1)
  /\ audited' = Append(audited, run)
  /\ UNCHANGED <<month, run, skipped, intact, rehashed>>

(* Lines as a write that stops short leaves them: cut within the entry, or *)
(* before the end of the line.                                             *)
Cut == {NewEntry(FALSE), [month |-> month, kind |-> "garbage", eol |-> FALSE]}

Audit ==
  /\ Called
  /\ log' = AppendFile(NewEntry(TRUE))

(* Mutant of AuditFails: _lastHash is advanced after the append.           *)
AuditFails_HashAfter ==
  /\ Len(audited) < MaxEntries
  /\ lastHash' = Prev
  /\ audited' = Append(audited, run)
  /\ UNCHANGED <<month, run, skipped, intact, rehashed>>
  /\ \/ UNCHANGED log
     \/ \E line \in Cut : log' = AppendFile(line)

(* Mutant of AuditFails: the catch makes _lastHash undefined, for it to be  *)
(* seeded again.                                                           *)
AuditFails_Undefined ==
  /\ Len(audited) < MaxEntries
  /\ lastHash' = NoHash
  /\ audited' = Append(audited, run)
  /\ UNCHANGED <<log, month, run, skipped, intact, rehashed>>

(* appendFileSync throws, having written nothing or part of the line (disk *)
(* full, volume gone); the exception is swallowed.                         *)
AuditFails ==
  /\ Called
  /\ \/ UNCHANGED log
     \/ \E line \in Cut : log' = AppendFile(line)

(* mkdirSync throws, or a file that seedLastHash reads cannot be read: the  *)
(* same catch swallows it, and nothing has changed but that the entry is   *)
(* lost.                                                                   *)
AuditThrows ==
  /\ Len(audited) < MaxEntries
  /\ audited' = Append(audited, run)
  /\ skipped' = skipped \cup {Len(audited) + 1}
  /\ UNCHANGED <<log, month, lastHash, run, intact, rehashed>>

(* A new run of the server has nothing in memory to compare the files to.  *)
NewRun ==
  /\ run < MaxRuns
  /\ lastHash' = Null
  /\ run' = run + 1
  /\ rehashed' = IF rehashed = "never" THEN "never" ELSE "before"

(* The server ends in the middle of appendFileSync, and is started again.  *)
AuditCut ==
  /\ NewRun
  /\ Len(audited) < MaxEntries
  /\ \E line \in Cut : log' = AppendFile(line)
  /\ audited' = Append(audited, run)
  /\ UNCHANGED <<month, skipped, intact>>

Restart ==
  /\ NewRun
  /\ UNCHANGED <<log, month, audited, skipped, intact>>

NextMonth ==
  /\ month < MaxMonths
  /\ month' = month + 1
  /\ UNCHANGED <<log, lastHash, run, audited, skipped, intact, rehashed>>

(* What the log is to reveal: lines lost, altered or exchanged on disk.    *)
Lose ==
  \E i \in DOMAIN log :
    log' = [k \in 1..(Len(log) - 1) |-> log[IF k < i THEN k ELSE k + 1]]

Alter ==
  \E i \in DOMAIN log :
    /\ log[i].kind = "entry"
    /\ log' = [log EXCEPT ![i].core = 0]

Exchange ==
  \E i, k \in DOMAIN log :
    /\ log[i].kind = "entry" /\ log[k].kind = "entry"
    /\ log[i].core < log[k].core
    /\ log' = [log EXCEPT ![i] = [log[k] EXCEPT !.month = log[i].month, !.eol = log[i].eol],
                            ![k] = [log[i] EXCEPT !.month = log[k].month, !.eol = log[k].eol]]

(* Others than audit() write to the files, and leave the hashes as they    *)
(* were,                                                                   *)
Damage ==
  /\ Lose \/ Alter \/ Exchange
  /\ intact' = FALSE
  /\ UNCHANGED <<month, lastHash, run, audited, skipped, rehashed>>

(* or make them fit what the lines now say. Until its first entry a run    *)
(* has no hash of its own, and will go on from what it finds.              *)
Cores(n) == [k \in 1..n |-> log[k].core]

Rehash ==
  /\ \A i \in DOMAIN log : log[i].kind = "entry"
  /\ log' = [i \in DOMAIN log |->
                [log[i] EXCEPT !.prev = Cores(i - 1), !.hash = Cores(i)]]
  /\ intact' = FALSE
  /\ rehashed' = IF lastHash = Null \/ rehashed = "before" THEN "before" ELSE "in this run"
  /\ UNCHANGED <<month, lastHash, run, audited, skipped>>

Next ==
  \/ Audit \/ AuditFails \/ AuditThrows \/ AuditCut
  \/ Restart \/ NextMonth
  \/ Damage \/ Rehash

Spec == Init /\ [][Next]_vars
-----------------------------------------------------------------------------
(* verifyAuditChain: line i is an entry whose prevHash is the hash of the  *)
(* line before it and whose hash is that of prevHash and the rest.         *)
HashBefore(i) ==
  IF i = 1 THEN GENESIS
  ELSE IF log[i - 1].kind = "entry" THEN log[i - 1].hash ELSE NoHash

(* Mutant of Chained: prevHash is not compared.                            *)
Chained_HashOnly(i) ==
  /\ log[i].kind = "entry"
  /\ log[i].hash = hashEntry(log[i].prev, log[i].core)

Chained(i) ==
  /\ log[i].kind = "entry"
  /\ log[i].prev = HashBefore(i)
  /\ log[i].hash = hashEntry(log[i].prev, log[i].core)

(* Mutant of Verified: only the newest file is verified.                   *)
Verified_NewestFile ==
  \A i \in DOMAIN log :
    (i > 1 /\ log[i].month = log[Len(log)].month /\ log[i - 1].month = log[i].month)
      => Chained(i)

Verified == \A i \in DOMAIN log : Chained(i)
-----------------------------------------------------------------------------
(* Properties. *)

(* Every entry that was given a hash is on disk, and nothing else is.      *)
Complete ==
  /\ intact
  /\ \A i \in DOMAIN log : log[i].kind = "entry"
  /\ \A m \in (1..Len(audited)) \ skipped : \E i \in DOMAIN log : log[i].core = m

(* No false alarm: a log that nobody has touched verifies if every append  *)
(* succeeded, across restarts, months and calls that threw before.         *)
CompleteLogVerifies == Complete => Verified

(* Hashes that others computed tell nothing, but for one thing: the last   *)
(* line is what this run has in memory, and from before they were.         *)
Trusted ==
  \/ rehashed = "never"
  \/ /\ rehashed = "in this run"
     /\ log # <<>> /\ log[Len(log)].hash = lastHash

(* What verifies is genuine, entries as they were audited, in that order,  *)
(* whatever has been lost, altered, exchanged or cut short. If hashes have *)
(* been made to fit, verification is still right to accept a log that ends *)
(* in the newest entry, as long as the server has not been restarted.      *)
VerifiedIsGenuine ==
  Verified /\ Trusted => \A i \in DOMAIN log :
                           /\ log[i].core \in (1..Len(audited)) \ skipped
                           /\ i > 1 => log[i - 1].core < log[i].core

(* How far audit.js:28 "Any edit/deletion/reordering breaks the chain"     *)
(* goes for a missing entry: one missing before one on disk goes unnoticed *)
(* only if its call threw before it had a hash, if the server was          *)
(* restarted between the two, or if hashes were made to fit.               *)
LossIsNoticed ==
  Verified /\ Trusted =>
    \A i \in DOMAIN log : \A m \in 1..(log[i].core - 1) :
      \/ \E k \in DOMAIN log : log[k].core = m
      \/ m \in skipped
      \/ audited[m] < audited[log[i].core]

(* Nothing audit() does repairs a chain: once verification fails, it goes  *)
(* on failing, through later entries, restarts and months, until others    *)
(* write to the files.                                                     *)
StaysBroken == [][~Verified /\ ~Damage /\ ~Rehash => ~Verified']_vars
=============================================================================
