---------------------------- MODULE Pack_proofs ----------------------------
(***************************************************************************)
(* Proofs about Pack: its types, that its entries are decided in turn, and *)
(* that each tells how its job ended.                                      *)
(***************************************************************************)
EXTENDS Pack, SequenceTheorems, TLAPS

USE PackAssumption DEF PackAssumption

-----------------------------------------------------------------------------
(* What a step of the session does to the jobs.                            *)

LEMMA ServesTypes ==
  ASSUME TypeOK, Serves
  PROVE  /\ submitted' \in Seq(Jobs) /\ status' \in [Jobs -> Statuses]
         /\ ranFor' \in 0..JobLimit
<1>1. submitted' \in Seq(Jobs)
  <2>1. submitted' = submitted \/ \E j \in Jobs : submitted' = Append(submitted, j)
    BY DEF Serves, Fifo!Serve
  <2>2. QED
    BY <2>1, AppendProperties DEF TypeOK
<1>2. status' \in [Jobs -> Statuses]
  <2>1. PICK j, k \in Jobs : \E sj \in After(status[j]), sk \in After(status[k]) :
               status' = [status EXCEPT ![j] = sj, ![k] = sk]
    BY DEF Serves
  <2>2. PICK sj \in After(status[j]), sk \in After(status[k]) :
               status' = [status EXCEPT ![j] = sj, ![k] = sk]
    BY <2>1
  <2>3. \A st \in Statuses : After(st) \subseteq Statuses
    BY DEF After, Statuses, Fifo!Moves
  <2>4. status[j] \in Statuses /\ status[k] \in Statuses
    BY DEF TypeOK
  <2>5. sj \in Statuses /\ sk \in Statuses
    BY <2>3, <2>4
  <2>6. QED
    BY <2>2, <2>5 DEF TypeOK
<1>3. ranFor' \in 0..JobLimit
  BY DEF Serves, TypeOK
<1>4. QED
  BY <1>1, <1>2, <1>3

LEMMA ServesMoves ==
  ASSUME TypeOK, Serves
  PROVE  /\ SessionServes'
         /\ \A j \in Jobs : status[j] \in Fifo!Over => status'[j] = status[j]
         /\ \A j \in Jobs : status[j] = "running" =>
              status'[j] = "running" \/ status'[j] \in Fifo!Over
         /\ \A j \in Jobs : status[j] = "new" => status'[j] # "completed"
<1>1. SessionServes'
  BY DEF Serves, Fifo!Serve, SessionServes
<1>2. \A j \in Jobs : status'[j] # status[j] => <<status[j], status'[j]>> \in Fifo!Moves
  BY DEF Serves, Fifo!Serve
<1>3. QED
  BY <1>1, <1>2 DEF Fifo!Moves, Fifo!Over

(* A job is new until it is submitted.                                     *)
LEMMA StaysNew ==
  ASSUME TypeOK, SessionServes, SessionServes',
         NEW o \in Jobs, submitted' = submitted \/ submitted' = Append(submitted, o),
         NEW j \in Jobs, j # o, status[j] = "new"
  PROVE  status'[j] = "new"
<1>1. Len(submitted) \in Nat /\ \A i \in 1..Len(submitted) : submitted[i] # j
  BY LenProperties DEF TypeOK, SessionServes
<1>2. CASE submitted' = submitted
  BY <1>1, <1>2 DEF SessionServes
<1>3. CASE submitted' = Append(submitted, o)
  <2>1. /\ Len(submitted') = Len(submitted) + 1
        /\ \A i \in 1..Len(submitted) : submitted'[i] = submitted[i]
        /\ submitted'[Len(submitted) + 1] = o
    BY <1>3, AppendProperties DEF TypeOK
  <2>2. \A i \in 1..Len(submitted') : i \in 1..Len(submitted) \/ i = Len(submitted) + 1
    BY <1>1, <2>1
  <2>3. \A i \in 1..Len(submitted') : submitted'[i] # j
    BY <1>1, <2>1, <2>2
  <2>4. QED
    BY <2>3 DEF SessionServes
<1>4. QED
  BY <1>2, <1>3

LEMMA NoLongerNew ==
  ASSUME TypeOK, SessionServes', NEW j \in Jobs, submitted' = Append(submitted, j)
  PROVE  status'[j] # "new"
<1>1. Len(submitted) \in Nat
  BY LenProperties DEF TypeOK
<1>2. Len(submitted') = Len(submitted) + 1 /\ submitted'[Len(submitted) + 1] = j
  BY AppendProperties DEF TypeOK
<1>3. Len(submitted) + 1 \in 1..Len(submitted')
  BY <1>1, <1>2
<1>4. QED
  BY <1>2, <1>3 DEF SessionServes

(* One job runs at a time.                                                 *)
LEMMA OneRuns ==
  ASSUME TypeOK, SessionServes,
         NEW j \in Jobs, NEW k \in Jobs, status[j] = "running", status[k] = "running"
  PROVE  j = k
<1>1. Len(submitted) \in Nat
  BY LenProperties DEF TypeOK
<1>2. PICK n \in 0..Len(submitted) :
        /\ \A i \in 1..n : status[submitted[i]] \in Fifo!Over
        /\ \A i \in 1..Len(submitted) : i > n + 1 => status[submitted[i]] = "queued"
  BY DEF SessionServes, Fifo!InOrder
<1>3. ASSUME NEW i \in 1..Len(submitted), status[submitted[i]] = "running"
      PROVE  i = n + 1
  <2>1. ~(i \in 1..n) /\ ~(i > n + 1)
    BY <1>2, <1>3 DEF Fifo!Over
  <2>2. QED
    BY <1>1, <2>1
<1>4. PICK a \in 1..Len(submitted) : submitted[a] = j
  BY DEF SessionServes
<1>5. PICK b \in 1..Len(submitted) : submitted[b] = k
  BY DEF SessionServes
<1>6. QED
  BY <1>3, <1>4, <1>5

-----------------------------------------------------------------------------
(* The loop of runPack.                                                    *)

(* Before the loop goes on with the i-th report, what is before it is      *)
(* decided, truly, and nothing after it is touched.                        *)
Decides(i, res) ==
  /\ i \in 1..(Length + 1)
  /\ res \in [Reports -> {"pending", "running"} \cup Decided]
  /\ \A k \in Reports : k < i => res[k] \in Decided
  /\ \A k \in Reports : k >= i => res[k] = "pending" /\ status[k] = "new"
  /\ \A k \in Reports :
       /\ res[k] = "completed" => status[k] = "completed"
       /\ res[k] = "error" /\ k \notin Unrunnable /\ k \notin behind => status[k] = "error"

LEMMA EntriesFollow ==
  ASSUME NEW i, NEW res, Decides(i, res), NEW next \in i..(Length + 1),
         \A k \in i..(next - 1) : ~Runnable(k)
  PROVE  LET e == Entries(res, i, next)
         IN  /\ e \in [Reports -> {"pending", "running"} \cup Decided]
             /\ \A k \in Reports : k < next => e[k] \in Decided
             /\ \A k \in Reports : k = next => e[k] = "running"
             /\ \A k \in Reports : k > next => e[k] = "pending"
             /\ \A k \in Reports : e[k] = "completed" => res[k] = "completed"
             /\ \A k \in Reports : e[k] = "error" => res[k] = "error" \/ k \in Unrunnable
<1> DEFINE e == Entries(res, i, next)
<1>1. \A k \in Reports : e[k] = IF k = next THEN "running"
                                ELSE IF k \in i..(next - 1) THEN Passed(k)
                                ELSE res[k]
  BY DEF Entries
<1>2. \A k \in i..(next - 1) :
        Passed(k) \in {"skipped", "error"} /\ (Passed(k) = "error" => k \in Unrunnable)
  BY DEF Passed, Runnable
<1>3. i \in Nat /\ next \in Nat /\ next >= i
  BY DEF Decides
<1>4. \A k \in Reports : k \in Nat
  BY DEF Reports
<1>5. e \in [Reports -> {"pending", "running"} \cup Decided]
  BY <1>1, <1>2 DEF Entries, Decides, Decided
<1>6. \A k \in Reports : k < next => e[k] \in Decided
  <2> SUFFICES ASSUME NEW k \in Reports, k < next PROVE e[k] \in Decided
    OBVIOUS
  <2>1. k \in Nat /\ k # next
    BY <1>3, <1>4
  <2>2. CASE k < i
    <3>1. ~(k \in i..(next - 1))
      BY <1>3, <2>1, <2>2
    <3>2. QED
      BY <1>1, <2>1, <2>2, <3>1 DEF Decides
  <2>3. CASE k >= i
    <3>1. k \in i..(next - 1)
      BY <1>3, <2>1, <2>3
    <3>2. QED
      BY <1>1, <1>2, <2>1, <3>1 DEF Decided
  <2>4. QED
    BY <1>3, <2>1, <2>2, <2>3
<1>7. \A k \in Reports : k = next => e[k] = "running"
  BY <1>1
<1>8. \A k \in Reports : k > next => e[k] = "pending"
  <2> SUFFICES ASSUME NEW k \in Reports, k > next PROVE e[k] = "pending"
    OBVIOUS
  <2>1. k # next /\ ~(k \in i..(next - 1)) /\ k >= i
    BY <1>3, <1>4
  <2>2. QED
    BY <1>1, <2>1 DEF Decides
<1>9. \A k \in Reports : e[k] = "completed" => res[k] = "completed"
  BY <1>1, <1>2
<1>10. \A k \in Reports : e[k] = "error" => res[k] = "error" \/ k \in Unrunnable
  BY <1>1, <1>2
<1>11. QED
  BY <1>5, <1>6, <1>7, <1>8, <1>9, <1>10

(* It goes on to a report that it submits and waits for, or to the end.    *)
LEMMA GoesOn ==
  ASSUME TypeOK, SessionServes, NEW i, NEW res, Decides(i, res), Goes(i, res)
  PROVE  TypeOK' /\ PackInv'
<1>1. PICK next \in i..(Length + 1) :
        /\ \A k \in i..(next - 1) : ~Runnable(k)
        /\ results' = Entries(res, i, next)
        /\ at' = next /\ waitedFor' = 0 /\ UNCHANGED connected
        /\ IF next \in Reports
           THEN /\ submitted' = Append(submitted, next)
                /\ Serves
                /\ behind' = IF status'[next] = "queued" THEN behind \cup {next} ELSE behind
                /\ UNCHANGED wedged
           ELSE UNCHANGED <<session, behind>>
  BY DEF Goes
<1>2. i \in 1..(Length + 1) /\ next \in 1..(Length + 1)
  BY <1>1 DEF Decides
<1>3. /\ results' \in [Reports -> {"pending", "running"} \cup Decided]
      /\ \A k \in Reports : k < next => results'[k] \in Decided
      /\ \A k \in Reports : k = next => results'[k] = "running"
      /\ \A k \in Reports : k > next => results'[k] = "pending"
      /\ \A k \in Reports : results'[k] = "completed" => res[k] = "completed"
      /\ \A k \in Reports : results'[k] = "error" => res[k] = "error" \/ k \in Unrunnable
  BY <1>1, EntriesFollow
<1>4. at' \in 0..(Length + 1) /\ waitedFor' \in 0..(WaitLimit + 1)
  BY <1>1, <1>2
<1>5. ASSUME behind \subseteq behind',
             \A k \in Jobs : status[k] \in Fifo!Over => status'[k] = status[k]
      PROVE  EntriesAreTrue'
  <2>1. \A k \in Reports : k \in Jobs
    BY DEF Jobs
  <2>2. QED
    BY <1>3, <1>5, <2>1 DEF EntriesAreTrue, Decides, Fifo!Over
<1>6. CASE next \in Reports
  <2>1. next \in Jobs /\ submitted' = Append(submitted, next) /\ Serves /\ UNCHANGED wedged
    BY <1>1, <1>6 DEF Jobs
  <2>2. /\ SessionServes'
        /\ \A j \in Jobs : status[j] \in Fifo!Over => status'[j] = status[j]
    BY <2>1, ServesMoves
  <2>3. behind' = IF status'[next] = "queued" THEN behind \cup {next} ELSE behind
    BY <1>1, <1>6
  <2>4. TypeOK'
    BY <1>1, <1>3, <1>4, <1>6, <2>1, <2>3, ServesTypes DEF TypeOK
  <2>5. EntriesInTurn'
    <3>1. \A k \in Reports : k > next => status'[k] = "new"
      <4> SUFFICES ASSUME NEW k \in Reports, k > next PROVE status'[k] = "new"
        OBVIOUS
      <4>1. k \in Jobs /\ k # next /\ k >= i
        BY <1>2, <1>1 DEF Reports, Jobs
      <4>2. QED
        BY <2>1, <2>2, <4>1, StaysNew DEF Decides
    <3>2. QED
      BY <1>1, <1>3, <3>1 DEF EntriesInTurn
  <2>6. RunsInTime'
    <3> SUFFICES ASSUME next \notin behind', status'[next] \notin Fifo!Over
                 PROVE  status'[next] = "running" /\ ~wedged' /\ waitedFor' <= ranFor'
      BY <1>1 DEF RunsInTime
    <3>1. status'[next] \in Statuses /\ status'[next] # "new" /\ status'[next] # "queued"
      BY <2>1, <2>2, <2>3, <2>4, NoLongerNew DEF TypeOK
    <3>2. status'[next] = "running"
      BY <3>1 DEF Statuses, Fifo!Over
    <3>3. status[next] = "new"
      BY <1>1, <1>2, <1>6 DEF Decides
    <3>4. ~wedged'
      BY <2>1, <3>2, <3>3 DEF Serves
    <3>5. waitedFor' <= ranFor'
      BY <1>1, <2>4 DEF TypeOK
    <3>6. QED
      BY <3>2, <3>4, <3>5
  <2>7. QED
    BY <1>5, <2>2, <2>3, <2>4, <2>5, <2>6 DEF PackInv
<1>7. CASE next \notin Reports
  <2>1. UNCHANGED <<submitted, status, wedged, ranFor, behind>>
    BY <1>1, <1>7 DEF session
  <2>2. TypeOK'
    BY <1>1, <1>3, <1>4, <2>1 DEF TypeOK
  <2>3. SessionServes'
    BY <2>1 DEF SessionServes, Fifo!InOrder
  <2>4. EntriesInTurn'
    <3>1. \A k \in Reports : k <= Length /\ k \in Nat
      BY DEF Reports
    <3>2. next = Length + 1
      BY <1>2, <1>7 DEF Reports
    <3>3. \A k \in Reports : k < next
      BY <3>1, <3>2
    <3>4. QED
      BY <1>1, <1>2, <1>3, <3>3, <3>1 DEF EntriesInTurn
  <2>5. RunsInTime'
    BY <1>1, <1>7 DEF RunsInTime, Waiting
  <2>6. QED
    BY <1>5, <2>1, <2>2, <2>3, <2>4, <2>5 DEF PackInv
<1>8. QED
  BY <1>6, <1>7

(* What the session does while the pack waits, or is not running.          *)
LEMMA SessionMoves ==
  ASSUME TypeOK, PackInv, Serves,
         submitted' = submitted \/ \E o \in Others : submitted' = Append(submitted, o),
         UNCHANGED <<wedged, connected, at, results, waitedFor, behind>>
  PROVE  TypeOK' /\ PackInv'
<1>1. TypeOK'
  BY ServesTypes DEF TypeOK
<1>2. /\ SessionServes'
      /\ \A j \in Jobs : status[j] \in Fifo!Over => status'[j] = status[j]
      /\ \A j \in Jobs : status[j] = "running" =>
           status'[j] = "running" \/ status'[j] \in Fifo!Over
  BY ServesMoves
<1>3. \A i \in Reports : i \in Jobs /\ i \notin Others
  BY DEF Jobs
<1>4. \A i \in Reports : status[i] = "new" => status'[i] = "new"
  <2> SUFFICES ASSUME NEW i \in Reports, status[i] = "new" PROVE status'[i] = "new"
    OBVIOUS
  <2>1. CASE submitted' = submitted
    BY <1>2, <1>3, <2>1 DEF SessionServes, PackInv
  <2>2. ASSUME NEW o \in Others, submitted' = Append(submitted, o) PROVE status'[i] = "new"
    <3>1. o \in Jobs /\ i \in Jobs /\ i # o
      BY <1>3 DEF Jobs
    <3>2. QED
      BY <1>2, <2>2, <3>1, StaysNew DEF PackInv
  <2>3. QED
    BY <2>1, <2>2
<1>5. EntriesInTurn'
  BY <1>4 DEF PackInv, EntriesInTurn
<1>6. EntriesAreTrue'
  BY <1>2, <1>3 DEF PackInv, EntriesAreTrue, Fifo!Over
<1>7. RunsInTime'
  <2> SUFFICES ASSUME at \in Reports, at \notin behind, status'[at] \notin Fifo!Over
               PROVE  status'[at] = "running" /\ ~wedged /\ waitedFor <= ranFor'
    BY DEF RunsInTime, Waiting
  <2>1. status[at] \notin Fifo!Over
    BY <1>2, <1>3
  <2>2. status[at] = "running" /\ ~wedged /\ waitedFor <= ranFor
    BY <2>1 DEF PackInv, RunsInTime, Waiting
  <2>3. status'[at] = "running"
    BY <1>2, <1>3, <2>2
  <2>4. ranFor' = ranFor
    BY <1>3, <2>2, <2>3 DEF Serves
  <2>5. QED
    BY <2>2, <2>3, <2>4
<1>8. QED
  BY <1>1, <1>2, <1>5, <1>6, <1>7 DEF PackInv

LEMMA PackStep ==
  TypeOK /\ PackInv /\ [Next]_vars => TypeOK' /\ PackInv'
<1> SUFFICES ASSUME TypeOK, PackInv, [Next]_vars PROVE TypeOK' /\ PackInv'
  OBVIOUS
<1>1. CASE RunPack
  <2>1. \A k \in Reports : k \in Nat /\ k >= 1
    BY DEF Reports
  <2>2. at = 0 /\ Goes(1, results)
    BY <1>1 DEF RunPack
  <2>3. Decides(1, results)
    <3>1. \A k \in Reports : results[k] = "pending" /\ status[k] = "new"
      BY <2>1, <2>2 DEF PackInv, EntriesInTurn
    <3>2. QED
      BY <2>1, <3>1 DEF Decides, TypeOK
  <2>4. QED
    BY <2>2, <2>3, GoesOn DEF PackInv
<1>2. CASE Resolve \/ GiveUp
  <2> DEFINE res(v) == [results EXCEPT ![at] = v]
  <2>1. PICK v \in {"completed", "error"} :
          /\ Goes(at + 1, res(v))
          /\ v = "completed" => status[at] = "completed"
          /\ v = "error" => \/ status[at] = "error"
                            \/ status[at] \notin Fifo!Over /\ waitedFor > WaitLimit
    BY <1>2 DEF Resolve, GiveUp, TimedOut, Fifo!Over
  <2>2. at \in Reports /\ at \in Nat /\ at >= 1 /\ at <= Length
    BY <1>2 DEF Resolve, GiveUp, Waiting, Reports
  <2>3. status[at] \notin Fifo!Over /\ waitedFor > WaitLimit => at \in behind
    <3> SUFFICES ASSUME status[at] \notin Fifo!Over, waitedFor > WaitLimit, at \notin behind
                 PROVE  FALSE
      OBVIOUS
    <3>1. waitedFor <= ranFor
      BY <2>2 DEF PackInv, RunsInTime, Waiting
    <3>2. QED
      BY <3>1 DEF TypeOK
  <2>4. Decides(at + 1, res(v))
    <3>1. at + 1 \in 1..(Length + 1)
      BY <2>2
    <3>2. \A k \in Reports : k \in Nat
      BY DEF Reports
    <3>3. /\ res(v) \in [Reports -> {"pending", "running"} \cup Decided]
          /\ res(v)[at] = v /\ \A k \in Reports : k # at => res(v)[k] = results[k]
      BY <2>2 DEF TypeOK, Decided
    <3>4. \A k \in Reports : k < at + 1 => res(v)[k] \in Decided
      <4> SUFFICES ASSUME NEW k \in Reports, k < at + 1, k # at PROVE res(v)[k] \in Decided
        BY <3>3 DEF Decided
      <4>1. k < at
        BY <2>2, <3>2
      <4>2. QED
        BY <3>3, <4>1 DEF PackInv, EntriesInTurn
    <3>5. \A k \in Reports : k >= at + 1 => res(v)[k] = "pending" /\ status[k] = "new"
      <4> SUFFICES ASSUME NEW k \in Reports, k >= at + 1
                   PROVE  res(v)[k] = "pending" /\ status[k] = "new"
        OBVIOUS
      <4>1. k > at /\ k # at
        BY <2>2, <3>2
      <4>2. QED
        BY <3>3, <4>1 DEF PackInv, EntriesInTurn
    <3> HIDE DEF res
    <3>6. \A k \in Reports :
            /\ res(v)[k] = "completed" => status[k] = "completed"
            /\ res(v)[k] = "error" /\ k \notin Unrunnable /\ k \notin behind =>
                 status[k] = "error"
      BY <2>1, <2>3, <3>3 DEF PackInv, EntriesAreTrue
    <3>7. QED
      BY <3>1, <3>3, <3>4, <3>5, <3>6 DEF Decides
  <2> HIDE DEF res
  <2>5. QED
    BY <2>1, <2>4, GoesOn DEF PackInv
<1>3. CASE Moves \/ OtherJob
  BY <1>3, SessionMoves DEF Moves, OtherJob
<1>4. CASE Wedges
  <2>1. TypeOK'
    BY <1>4 DEF Wedges, TypeOK
  <2>2. SessionServes' /\ EntriesInTurn' /\ EntriesAreTrue'
    BY <1>4 DEF Wedges, PackInv, SessionServes, Fifo!InOrder, EntriesInTurn, EntriesAreTrue
  <2>3. RunsInTime'
    <3> SUFFICES ASSUME at \in Reports, at \notin behind, status[at] \notin Fifo!Over
                 PROVE  FALSE
      BY <1>4 DEF Wedges, RunsInTime, Waiting
    <3>1. status[at] = "running"
      BY DEF PackInv, RunsInTime, Waiting
    <3>2. PICK o \in Others : status[o] = "running"
      BY <1>4 DEF Wedges
    <3>3. at \in Jobs /\ o \in Jobs /\ at # o
      BY <3>2 DEF Jobs
    <3>4. QED
      BY <3>1, <3>2, <3>3, OneRuns DEF PackInv
  <2>4. QED
    BY <2>1, <2>2, <2>3 DEF PackInv
<1>5. CASE ExchangeChanges \/ UNCHANGED vars
  <2>1. /\ UNCHANGED <<submitted, status, wedged, ranFor, at, results, waitedFor, behind>>
        /\ connected' \in {connected, ~connected}
    BY <1>5 DEF ExchangeChanges, session, vars
  <2>2. TypeOK'
    BY <2>1 DEF TypeOK
  <2>3. SessionServes'
    BY <2>1 DEF PackInv, SessionServes, Fifo!InOrder
  <2>4. EntriesInTurn' /\ EntriesAreTrue'
    BY <2>1 DEF PackInv, EntriesInTurn, EntriesAreTrue
  <2>5. RunsInTime'
    BY <2>1 DEF PackInv, RunsInTime, Waiting
  <2>6. QED
    BY <2>2, <2>3, <2>4, <2>5 DEF PackInv
<1>6. CASE Tick
  <2>1. UNCHANGED <<submitted, status, wedged, connected, at, results, behind>>
    BY <1>6 DEF Tick
  <2>2. ranFor' \in 0..JobLimit
    BY <1>6 DEF Tick, TypeOK
  <2>3. waitedFor' \in 0..(WaitLimit + 1)
    BY <1>6 DEF Tick, TypeOK
  <2>4. TypeOK'
    BY <2>1, <2>2, <2>3 DEF TypeOK
  <2>5. SessionServes' /\ EntriesInTurn' /\ EntriesAreTrue'
    BY <2>1 DEF PackInv, SessionServes, Fifo!InOrder, EntriesInTurn, EntriesAreTrue
  <2>6. RunsInTime'
    <3> SUFFICES ASSUME at \in Reports, at \notin behind, status[at] \notin Fifo!Over
                 PROVE  status[at] = "running" /\ ~wedged /\ waitedFor' <= ranFor'
      BY <2>1 DEF RunsInTime, Waiting
    <3>1. status[at] = "running" /\ ~wedged /\ waitedFor <= ranFor
      BY DEF PackInv, RunsInTime, Waiting
    <3>2. at \in Jobs
      BY DEF Jobs
    <3>3. ranFor' = ranFor + 1 /\ waitedFor' = waitedFor + 1
      BY <1>6, <3>1, <3>2 DEF Tick, Waiting
    <3>4. QED
      BY <3>1, <3>3 DEF TypeOK
  <2>7. QED
    BY <2>4, <2>5, <2>6 DEF PackInv
<1>7. QED
  BY <1>1, <1>2, <1>3, <1>4, <1>5, <1>6 DEF Next

LEMMA PackInitially == Init => TypeOK /\ PackInv
<1> SUFFICES ASSUME Init PROVE TypeOK /\ PackInv
  OBVIOUS
<1>1. /\ submitted = <<>> /\ status = [j \in Jobs |-> "new"]
      /\ at = 0 /\ results = [i \in Reports |-> "pending"] /\ behind = {}
      /\ wedged = FALSE /\ connected \in BOOLEAN /\ ranFor = 0 /\ waitedFor = 0
  BY DEF Init, Fifo!Init
<1>2. submitted \in Seq(Jobs) /\ Len(submitted) = 0
  BY <1>1
<1>3. TypeOK
  <2>1. status \in [Jobs -> Statuses]
    BY <1>1 DEF Statuses
  <2>2. results \in [Reports -> {"pending", "running"} \cup Decided]
    BY <1>1
  <2>3. ranFor \in 0..JobLimit /\ waitedFor \in 0..(WaitLimit + 1) /\ at \in 0..(Length + 1)
    BY <1>1
  <2>4. wedged \in BOOLEAN /\ connected \in BOOLEAN /\ behind \subseteq Reports
    BY <1>1
  <2>5. QED
    BY <1>2, <2>1, <2>2, <2>3, <2>4 DEF TypeOK
<1>4. SessionServes
  BY <1>1, <1>2 DEF SessionServes, Fifo!InOrder
<1>5. \A i \in Reports : i \in Nat /\ i >= 1 /\ i \in Jobs
  BY DEF Reports, Jobs
<1>6. EntriesInTurn
  BY <1>1, <1>5 DEF EntriesInTurn
<1>7. EntriesAreTrue
  BY <1>1 DEF EntriesAreTrue
<1>8. RunsInTime
  BY <1>1, <1>5 DEF RunsInTime, Waiting
<1>9. QED
  BY <1>3, <1>4, <1>6, <1>7, <1>8 DEF PackInv

(***************************************************************************)
(* The variables of a pack keep their types; in particular the clock of    *)
(* waitForJob never passes its limit by more than a tick.                  *)
(***************************************************************************)
THEOREM PackTypes == Spec => []TypeOK
BY PackInitially, PackStep, PTL DEF Spec

(***************************************************************************)
(* A job that started as it was submitted has run for as long as it was    *)
(* waited for, under a queue that is not wedged; and the entries are       *)
(* decided in turn and truly.                                              *)
(***************************************************************************)
THEOREM PackInvariant == Spec => []PackInv
BY PackInitially, PackStep, PTL DEF Spec

(***************************************************************************)
(* runPack takes its reports in turn: what is before the turn is decided,  *)
(* what is after it is untouched and not yet submitted.                    *)
(***************************************************************************)
THEOREM PackInTurn == Spec => []EntriesInTurn
<1>1. PackInv => EntriesInTurn
  BY DEF PackInv
<1>2. QED
  BY <1>1, PackInvariant, PTL

(***************************************************************************)
(* An entry tells how its job ended; waitForJob gives up only on a job     *)
(* that had to wait for its turn.                                          *)
(***************************************************************************)
THEOREM PackIsTrue == Spec => []EntriesAreTrue
<1>1. PackInv => EntriesAreTrue
  BY DEF PackInv
<1>2. QED
  BY <1>1, PackInvariant, PTL
=============================================================================
