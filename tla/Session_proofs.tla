--------------------------- MODULE Session_proofs ---------------------------
(***************************************************************************)
(* Proofs about Session, for any set of jobs, any number of processes and  *)
(* timers, and any faults.                                                 *)
(***************************************************************************)
EXTENDS Session, SequenceTheorems, TLAPS

(* What PumpQueue keeps of the types, whatever queue and statuses it is    *)
(* given.                                                                  *)
LEMMA PumpType ==
  ASSUME TypeOK, psProc' \in 0..MaxProcs,
         NEW q \in Seq(Jobs),
         NEW st \in [Jobs -> Statuses],
         NEW n \in Nat, NEW c,
         PumpQueue(q, st, n, c)
  PROVE  /\ server' \in Servers
         /\ status' \in [Jobs -> Statuses]
         /\ error' \in [Jobs -> Errors]
         /\ queue' \in Seq(Jobs)
         /\ active' \in Jobs \cup {None}
         /\ pumps' \in Nat
         /\ pollers' \in SUBSET Jobs
         /\ stdin' \in [Procs -> Seq(Jobs)]
         /\ target' \in [Jobs -> 0..MaxProcs]
<1>1. CASE active # None \/ q = <<>>
  BY <1>1 DEF PumpQueue, TypeOK
<1>2. CASE ~(active # None \/ q = <<>>)
  <2>1. Head(q) \in Jobs /\ Tail(q) \in Seq(Jobs)
    BY <1>2, HeadTailProperties
  <2>2. Refuse(q, st, n) \/ Send(q, st, n) \/ Wedge(q, st, n, c)
    BY <1>2 DEF PumpQueue
  <2>3. CASE Refuse(q, st, n)
    BY <2>1, <2>3 DEF Refuse, TypeOK, Statuses, Terminal, Errors
  <2>4. CASE Send(q, st, n)
    <3>1. psProc' \in Procs
      BY <2>4 DEF Send, Writable, Procs
    <3>2. stdin' \in [Procs -> Seq(Jobs)]
      <4>1. Append(stdin[psProc'], Head(q)) \in Seq(Jobs)
        BY <2>1, <3>1, AppendProperties DEF TypeOK
      <4>2. QED
        BY <2>4, <3>1, <4>1 DEF Send, TypeOK
    <3>3. server' \in Servers
      BY <2>4 DEF Send, TypeOK, Servers
    <3>4. QED
      BY <2>1, <2>4, <3>1, <3>2, <3>3 DEF Send, TypeOK, Statuses, Terminal, Procs
  <2>5. CASE Wedge(q, st, n, c)
    <3>1. server' \in Servers
      BY <2>5 DEF Wedge, TypeOK, Servers
    <3>2. QED
      BY <2>1, <2>5, <3>1 DEF Wedge, TypeOK, Statuses, Terminal
  <2>6. QED
    BY <2>2, <2>3, <2>4, <2>5
<1>3. QED
  BY <1>1, <1>2

(* A spawn takes the next free process number, within the bound.           *)
LEMMA SpawnsType ==
  ASSUME TypeOK, Spawns
  PROVE  psProc' \in 0..MaxProcs /\ phase' \in [Procs -> Phases]
BY SessionAssumption DEF SessionAssumption, TypeOK, Spawns, Procs, Phases

(* startSession keeps the types of the process variables.                  *)
LEMMA StartType ==
  ASSUME TypeOK, StartSession
  PROVE  /\ psProc' \in 0..MaxProcs
         /\ psAlive' \in BOOLEAN
         /\ phase' \in [Procs -> Phases]
<1>1. CASE Spawns /\ psAlive' = TRUE
  BY <1>1, SpawnsType
<1>2. CASE UNCHANGED <<psProc, phase, psAlive>>
  BY <1>2 DEF TypeOK
<1>3. QED
  BY <1>1, <1>2 DEF StartSession

(* So does getSession, which may call it.                                  *)
LEMMA GetType ==
  ASSUME TypeOK, GetSession
  PROVE  /\ psProc' \in 0..MaxProcs
         /\ psAlive' \in BOOLEAN
         /\ phase' \in [Procs -> Phases]
<1>1. CASE UNCHANGED <<psProc, phase, psAlive>>
  BY <1>1 DEF TypeOK
<1>2. CASE StartSession
  BY <1>2, StartType
<1>3. QED
  BY <1>1, <1>2 DEF GetSession

(* What runInSession keeps of the types, in a step that has already chosen *)
(* the next psProc.                                                        *)
LEMMA RunType ==
  ASSUME TypeOK, psProc' \in 0..MaxProcs, NEW j \in Jobs, RunInSession(j)
  PROVE  /\ server' \in Servers
         /\ status' \in [Jobs -> Statuses]
         /\ error' \in [Jobs -> Errors]
         /\ queue' \in Seq(Jobs)
         /\ active' \in Jobs \cup {None}
         /\ pumps' \in Nat
         /\ pollers' \in SUBSET Jobs
         /\ stdin' \in [Procs -> Seq(Jobs)]
         /\ target' \in [Jobs -> 0..MaxProcs]
         /\ submitted' \in Seq(Jobs)
         /\ executing' \in [Procs -> Jobs \cup {None}]
         /\ files' \in [Jobs -> Results]
         /\ heard' \in SUBSET Jobs
<1>1. /\ Append(queue, j) \in Seq(Jobs)
      /\ Append(submitted, j) \in Seq(Jobs)
  BY AppendProperties DEF TypeOK
<1>2. [status EXCEPT ![j] = "queued"] \in
        [Jobs -> Statuses]
  BY DEF TypeOK, Statuses
<1>3. PICK c \in BOOLEAN :
        PumpQueue(Append(queue, j), [status EXCEPT ![j] = "queued"], pumps, c)
  BY DEF RunInSession
<1>4. pumps \in Nat
  BY DEF TypeOK
<1>5. /\ submitted' \in Seq(Jobs)
      /\ executing' \in [Procs -> Jobs \cup {None}]
      /\ files' \in [Jobs -> Results]
      /\ heard' \in SUBSET Jobs
  BY <1>1 DEF RunInSession, TypeOK
<1>6. QED
  BY <1>1, <1>2, <1>3, <1>4, <1>5, PumpType

(* A poller that ends its job keeps the types.                             *)
LEMMA SettleType ==
  ASSUME TypeOK, NEW j \in Jobs, NEW st \in Terminal,
         NEW err \in {"none", "parse", "script", "timeout"}, Settle(j, st, err)
  PROVE  TypeOK'
<1>1. UNCHANGED procVars
  BY DEF Settle
<1>2. pumps' \in Nat
  BY DEF Settle, TypeOK
<1>3. /\ status' \in [Jobs -> Statuses]
      /\ error' \in [Jobs -> Errors]
      /\ pollers' \in SUBSET Jobs
      /\ heard' \in SUBSET Jobs
      /\ active' \in Jobs \cup {None}
  BY DEF Settle, TypeOK, Statuses, Errors
<1>4. QED
  BY <1>1, <1>2, <1>3 DEF Settle, TypeOK, procVars

(***************************************************************************)
(* Every variable keeps its type: in particular the queue and the pipes    *)
(* stay sequences of jobs and no counter goes below zero.                  *)
(***************************************************************************)
THEOREM TypeCorrect == Spec => []TypeOK
<1>1. Init => TypeOK
  <2> SUFFICES ASSUME Init PROVE TypeOK
    OBVIOUS
  <2>1. psProc = 1 \/ psProc = 0
    BY DEF Init
  <2>2. psProc \in 0..MaxProcs
    BY <2>1, SessionAssumption DEF SessionAssumption
  <2>3. psAlive \in BOOLEAN
    BY DEF Init
  <2>4. phase \in [Procs -> Phases]
    BY DEF Init, Phases
  <2>5. /\ queue \in Seq(Jobs)
        /\ submitted \in Seq(Jobs)
        /\ stdin \in [Procs -> Seq(Jobs)]
    BY EmptySeq DEF Init
  <2>6. /\ status \in [Jobs -> Statuses]
        /\ error \in [Jobs -> Errors]
        /\ files \in [Jobs -> Results]
        /\ target \in [Jobs -> 0..MaxProcs]
        /\ executing \in [Procs -> Jobs \cup {None}]
    BY SessionAssumption DEF Init, Results, Statuses, Errors, SessionAssumption
  <2>7. QED
    <3>1. timers \in 0..MaxTimers
      BY SessionAssumption DEF Init, SessionAssumption
    <3>2. /\ active \in Jobs \cup {None}
          /\ pumps \in Nat
          /\ pollers \in SUBSET Jobs
          /\ heard \in SUBSET Jobs
          /\ killed \in SUBSET Procs
      BY DEF Init
    <3>3. pooled \in BOOLEAN
      BY DEF Init
    <3>4. server \in Servers
      BY DEF Init, Servers
    <3>5. QED
      BY <2>2, <2>3, <2>4, <2>5, <2>6, <3>1, <3>2, <3>3, <3>4 DEF TypeOK
<1>2. TypeOK /\ [Next]_vars => TypeOK'
  <2> SUFFICES ASSUME TypeOK, [Next]_vars PROVE TypeOK'
    OBVIOUS
  <2>1. CASE UNCHANGED vars
    BY <2>1 DEF vars, jobVars, procVars, pwshVars, TypeOK
  <2>2. ASSUME NEW j \in Jobs, RequestJob(j) PROVE TypeOK'
    <3>1. /\ psProc' \in 0..MaxProcs
          /\ psAlive' \in BOOLEAN
          /\ phase' \in [Procs -> Phases]
      BY <2>2, GetType DEF RequestJob
    <3>2. UNCHANGED <<pooled, timers, killed>> /\ RunInSession(j)
      BY <2>2 DEF RequestJob
    <3>3. QED
      BY <3>1, <3>2, RunType DEF TypeOK
  <2>3. ASSUME NEW j \in Jobs, HolderJob(j) PROVE TypeOK'
    <3>1. UNCHANGED procVars /\ RunInSession(j)
      BY <2>3 DEF HolderJob
    <3>2. psProc' \in 0..MaxProcs
      BY <3>1 DEF procVars, TypeOK
    <3>3. QED
      BY <3>1, <3>2, RunType DEF TypeOK, procVars
  <2>4. ASSUME NEW j \in Jobs, Poll(j) PROVE TypeOK'
    BY <2>4, SettleType DEF Poll, PollParseError, PollDone, PollTimeout, Terminal
  <2>5. CASE PumpTick
    <3>1. UNCHANGED <<submitted, executing, files, heard, procVars>>
      BY <2>5 DEF PumpTick
    <3>2. PumpQueue(queue, status, pumps - 1, FALSE)
      BY <2>5 DEF PumpTick
    <3>3. /\ pumps - 1 \in Nat
          /\ psProc' \in 0..MaxProcs
      <4>1. pumps > 0
        BY <2>5 DEF PumpTick
      <4>2. QED
        BY <3>1, <4>1 DEF TypeOK, procVars
    <3>4. QED
      BY <3>1, <3>2, <3>3, PumpType DEF TypeOK, procVars
  <2>15. CASE ResolveSession
    <3>1. /\ psProc' \in 0..MaxProcs
          /\ psAlive' \in BOOLEAN
          /\ phase' \in [Procs -> Phases]
      BY <2>15, GetType DEF ResolveSession
    <3>2. QED
      BY <2>15, <3>1 DEF ResolveSession, TypeOK, jobVars, pwshVars
  <2>6. CASE RestartSession
    <3>1. /\ psProc' \in 0..MaxProcs
          /\ phase' \in [Procs -> Phases]
      <4>1. CASE Spawns
        BY <4>1, SpawnsType
      <4>2. CASE UNCHANGED <<psProc, phase>>
        BY <4>2 DEF TypeOK
      <4>3. QED
        BY <2>6, <4>1, <4>2 DEF RestartSession
    <3>2. killed' \in SUBSET Procs
      BY <2>6, <3>1 DEF RestartSession, TypeOK, Procs
    <3>3. timers' \in 0..MaxTimers
      BY <2>6, SessionAssumption DEF RestartSession, TypeOK, SessionAssumption
    <3>4. QED
      BY <2>6, <3>1, <3>2, <3>3 DEF RestartSession, TypeOK, jobVars, pwshVars
  <2>7. CASE RestartTimer
    <3>1. /\ psProc' \in 0..MaxProcs
          /\ psAlive' \in BOOLEAN
          /\ phase' \in [Procs -> Phases]
      BY <2>7, StartType DEF RestartTimer
    <3>2. timers' \in 0..MaxTimers
      BY <2>7, SessionAssumption DEF RestartTimer, TypeOK, SessionAssumption
    <3>3. QED
      BY <2>7, <3>1, <3>2 DEF RestartTimer, TypeOK, jobVars, pwshVars
  <2>8. CASE DestroySession
    <3>1. killed' \in SUBSET Procs
      BY <2>8 DEF DestroySession, TypeOK, Procs
    <3>2. QED
      BY <2>8, <3>1 DEF DestroySession, TypeOK, jobVars, pwshVars
  <2>9. ASSUME NEW g \in Procs, ProcessEnds(g) PROVE TypeOK'
    BY <2>9, EmptySeq DEF ProcessEnds, TypeOK, jobVars, Phases
  <2>10. ASSUME NEW g \in Procs, ExitNoticed(g) \/ CloseEvent(g) PROVE TypeOK'
    BY <2>10 DEF ExitNoticed, CloseEvent, TypeOK, jobVars, pwshVars, Phases
  <2>11. ASSUME NEW g \in Procs, ReadScript(g) PROVE TypeOK'
    <3>1. stdin[g] \in Seq(Jobs) /\ stdin[g] # <<>>
      BY <2>11 DEF ReadScript, TypeOK
    <3>2. Head(stdin[g]) \in Jobs /\ Tail(stdin[g]) \in Seq(Jobs)
      BY <3>1, HeadTailProperties
    <3>3. QED
      BY <2>11, <3>2 DEF ReadScript, TypeOK, jobVars, procVars
  <2>12. ASSUME NEW g \in Procs, FinishScript(g) PROVE TypeOK'
    BY <2>12 DEF FinishScript, TypeOK, jobVars, procVars
  <2>13. ASSUME NEW g \in Procs, ScriptDoesNotParse(g) PROVE TypeOK'
    BY <2>13 DEF ScriptDoesNotParse, TypeOK, jobVars, procVars
  <2>14. QED
    BY <2>1, <2>2, <2>3, <2>4, <2>5, <2>6, <2>7, <2>8, <2>9, <2>10, <2>11,
       <2>12, <2>13, <2>15 DEF Next
<1>3. QED
  BY <1>1, <1>2, PTL DEF Spec

-----------------------------------------------------------------------------
(* The books of the queue. *)

(* A new job may be appended to the queue and to the submissions together. *)
LEMMA BooksSubmit ==
  ASSUME NEW sub \in Seq(Jobs), NEW q \in Seq(Jobs), NEW st \in [Jobs -> Statuses],
         NEW act \in Jobs \cup {None}, NEW j \in Jobs,
         Books(sub, q, st, act), st[j] = "new"
  PROVE  Books(Append(sub, j), Append(q, j), [st EXCEPT ![j] = "queued"], act)
<1> DEFINE sub2 == Append(sub, j)
           q2 == Append(q, j)
           st2 == [st EXCEPT ![j] = "queued"]
           taken == Len(sub) - Len(q)
<1>1. /\ sub2 \in Seq(Jobs) /\ Len(sub2) = Len(sub) + 1
      /\ \A i \in 1..Len(sub) : sub2[i] = sub[i]
      /\ sub2[Len(sub) + 1] = j
  BY AppendProperties
<1>2. /\ q2 \in Seq(Jobs) /\ Len(q2) = Len(q) + 1
      /\ \A i \in 1..Len(q) : q2[i] = q[i]
      /\ q2[Len(q) + 1] = j
  BY AppendProperties
<1>3. /\ Len(sub) \in Nat /\ Len(q) \in Nat
      /\ \A i \in 1..Len(sub) : sub[i] \in Jobs
  BY LenProperties, ElementOfSeq
<1>4. /\ \A i \in 1..Len(sub) : sub[i] # j
      /\ \A i, k \in 1..Len(sub) : sub[i] = sub[k] => i = k
      /\ \A k \in Jobs : st[k] = "new" <=> \A i \in 1..Len(sub) : sub[i] # k
  BY DEF Books
<1>5. Len(sub2) - Len(q2) = taken /\ taken >= 0 /\ taken \in Nat
  BY <1>1, <1>2, <1>3 DEF Books
<1>6. st2[j] = "queued" /\ \A k \in Jobs : k # j => st2[k] = st[k]
  OBVIOUS
<1> HIDE DEF sub2, q2, st2
<1>7. \A i \in 1..Len(q2) : q2[i] = sub2[taken + i]
  <2> TAKE i \in 1..Len(q2)
  <2>1. CASE i = Len(q) + 1
    BY <2>1, <1>1, <1>2, <1>3 DEF taken
  <2>2. CASE i \in 1..Len(q)
    <3>1. taken + i \in 1..Len(sub)
      BY <2>2, <1>3, <1>5 DEF taken
    <3>2. QED
      BY <2>2, <3>1, <1>1, <1>2 DEF Books
  <2>3. QED
    BY <2>1, <2>2, <1>2, <1>3
<1>8. \A i, k \in 1..Len(sub2) : sub2[i] = sub2[k] => i = k
  <2> TAKE i, k \in 1..Len(sub2)
  <2>1. CASE i \in 1..Len(sub) /\ k \in 1..Len(sub)
    BY <2>1, <1>1, <1>4
  <2>2. CASE i = Len(sub) + 1 \/ k = Len(sub) + 1
    BY <2>2, <1>1, <1>3, <1>4
  <2>3. QED
    BY <2>1, <2>2, <1>1, <1>3
<1>9. \A k \in Jobs : st2[k] = "new" <=> \A i \in 1..Len(sub2) : sub2[i] # k
  <2> TAKE k \in Jobs
  <2>1. CASE k = j
    BY <2>1, <1>1, <1>3, <1>6
  <2>2. CASE k # j
    BY <2>2, <1>1, <1>3, <1>4, <1>6
  <2>3. QED
    BY <2>1, <2>2
<1>10. \A i \in 1..Len(sub2) :
         /\ i > taken => st2[sub2[i]] = "queued"
         /\ i < taken => st2[sub2[i]] \in Terminal
         /\ i = taken /\ act = None => st2[sub2[i]] \in Terminal
         /\ i = taken /\ act # None => act = sub2[i] /\ st2[act] = "running"
  <2> TAKE i \in 1..Len(sub2)
  <2>1. CASE i = Len(sub) + 1
    BY <2>1, <1>1, <1>3, <1>6 DEF taken
  <2>2. CASE i \in 1..Len(sub)
    <3>1. sub2[i] = sub[i] /\ st2[sub2[i]] = st[sub[i]]
      BY <2>2, <1>1, <1>3, <1>4, <1>6
    <3>2. QED
      BY <2>2, <3>1 DEF Books
  <2>3. QED
    BY <2>1, <2>2, <1>1, <1>3
<1>11. act # None => taken > 0
  BY DEF Books
<1>12. Books(sub2, q2, st2, act)
  BY <1>5, <1>7, <1>8, <1>9, <1>10, <1>11 DEF Books
<1>13. QED
  BY <1>12 DEF sub2, q2, st2

(* Taking the head off the queue while nothing is active: it either fails  *)
(* at once or becomes the active job.                                      *)
LEMMA BooksTake ==
  ASSUME NEW sub \in Seq(Jobs), NEW q \in Seq(Jobs), NEW st \in [Jobs -> Statuses],
         Books(sub, q, st, None), q # <<>>, None \notin Jobs
  PROVE  /\ st[Head(q)] = "queued"
         /\ Books(sub, Tail(q), [st EXCEPT ![Head(q)] = "error"], None)
         /\ Books(sub, Tail(q), [st EXCEPT ![Head(q)] = "running"], Head(q))
<1> DEFINE t == Tail(q)
           h == Head(q)
           taken == Len(sub) - Len(q)
           stE == [st EXCEPT ![h] = "error"]
           stR == [st EXCEPT ![h] = "running"]
<1>1. /\ t \in Seq(Jobs) /\ h \in Jobs /\ Len(t) = Len(q) - 1
      /\ \A i \in 1..Len(t) : t[i] = q[i + 1]
  BY HeadTailProperties
<1>2. /\ Len(sub) \in Nat /\ Len(q) \in Nat \ {0} /\ Len(t) \in Nat
      /\ \A i \in 1..Len(sub) : sub[i] \in Jobs
  BY <1>1, EmptySeq, LenProperties, ElementOfSeq
<1>3. taken \in Nat /\ Len(sub) - Len(t) = taken + 1
  BY <1>1, <1>2 DEF Books
<1>4. h = q[1] /\ q[1] = sub[taken + 1] /\ taken + 1 \in 1..Len(sub)
  BY <1>2, <1>3 DEF Books
<1>5. st[h] = "queued"
  BY <1>2, <1>3, <1>4 DEF Books
<1>6. /\ stE[h] = "error" /\ \A k \in Jobs : k # h => stE[k] = st[k]
      /\ stR[h] = "running" /\ \A k \in Jobs : k # h => stR[k] = st[k]
  BY <1>1
<1> HIDE DEF t, h, stE, stR
<1>7. \A i \in 1..Len(t) : t[i] = sub[taken + 1 + i]
  <2> TAKE i \in 1..Len(t)
  <2>1. i + 1 \in 1..Len(q) /\ t[i] = q[i + 1]
    BY <1>1, <1>2
  <2>2. q[i + 1] = sub[taken + (i + 1)]
    BY <2>1 DEF Books
  <2>3. QED
    BY <2>1, <2>2, <1>3
<1>8. \A i, k \in 1..Len(sub) : sub[i] = sub[k] => i = k
  BY DEF Books
<1>9. \A k \in Jobs :
        /\ stE[k] = "new" <=> st[k] = "new"
        /\ stR[k] = "new" <=> st[k] = "new"
  BY <1>5, <1>6
<1>10. \A i \in 1..Len(sub) : i # taken + 1 => sub[i] # h
  BY <1>4, <1>8
<1>11. \A i \in 1..Len(sub) :
         /\ i > taken + 1 => st[sub[i]] = "queued"
         /\ i < taken + 1 => st[sub[i]] \in Terminal
  BY <1>2, <1>3 DEF Books
<1>12. \A i \in 1..Len(sub) :
         /\ i > taken + 1 => stE[sub[i]] = "queued" /\ stR[sub[i]] = "queued"
         /\ i < taken + 1 => stE[sub[i]] \in Terminal /\ stR[sub[i]] \in Terminal
         /\ i = taken + 1 => /\ stE[sub[i]] \in Terminal
                             /\ h = sub[i] /\ stR[sub[i]] = "running"
  BY <1>2, <1>3, <1>4, <1>6, <1>10, <1>11 DEF Terminal
<1>13. \A k \in Jobs : st[k] = "new" <=> \A i \in 1..Len(sub) : sub[i] # k
  BY DEF Books
<1>14. taken + 1 >= 0 /\ taken + 1 > 0
  BY <1>3
<1> HIDE DEF taken
<1>15. Books(sub, t, stE, None)
  <2>1. \A i \in 1..Len(sub) :
          /\ i > taken + 1 => stE[sub[i]] = "queued"
          /\ i < taken + 1 => stE[sub[i]] \in Terminal
          /\ i = taken + 1 => stE[sub[i]] \in Terminal
    BY <1>12
  <2>2. \A k \in Jobs : stE[k] = "new" <=> \A i \in 1..Len(sub) : sub[i] # k
    BY <1>9, <1>13
  <2>3. QED
    BY <2>1, <2>2, <1>3, <1>7, <1>8, <1>14 DEF Books
<1>16. Books(sub, t, stR, h)
  BY <1>1, <1>3, <1>7, <1>8, <1>9, <1>12, <1>13, <1>14 DEF Books
<1>17. QED
  BY <1>5, <1>15, <1>16 DEF t, h, stE, stR

(* The active job may be given any verdict when the queue is freed.        *)
LEMMA BooksSettle ==
  ASSUME NEW sub \in Seq(Jobs), NEW q \in Seq(Jobs), NEW st \in [Jobs -> Statuses],
         NEW j \in Jobs, NEW v \in Terminal,
         Books(sub, q, st, j), None \notin Jobs
  PROVE  Books(sub, q, [st EXCEPT ![j] = v], None)
<1> DEFINE taken == Len(sub) - Len(q)
           st2 == [st EXCEPT ![j] = v]
<1>1. /\ Len(sub) \in Nat /\ Len(q) \in Nat
      /\ \A i \in 1..Len(sub) : sub[i] \in Jobs
  BY LenProperties, ElementOfSeq
<1>2. taken \in 1..Len(sub) /\ sub[taken] = j /\ st[j] = "running"
  <2>1. j # None
    OBVIOUS
  <2>2. taken > 0
    BY <2>1 DEF Books
  <2>3. taken \in 1..Len(sub)
    BY <2>2, <1>1
  <2>4. \A i \in 1..Len(sub) : i = taken => j = sub[i] /\ st[j] = "running"
    BY <2>1 DEF Books
  <2>5. QED
    BY <2>3, <2>4
<1>3. \A i \in 1..Len(sub) : i # taken => sub[i] # j
  BY <1>1, <1>2 DEF Books
<1>4. st2[j] = v /\ \A k \in Jobs : k # j => st2[k] = st[k]
  OBVIOUS
<1> HIDE DEF st2
<1>5. \A i \in 1..Len(sub) :
        /\ i > taken => st2[sub[i]] = "queued"
        /\ i < taken => st2[sub[i]] \in Terminal
        /\ i = taken => st2[sub[i]] \in Terminal
  BY <1>1, <1>2, <1>3, <1>4 DEF Books
<1>6. \A k \in Jobs : st2[k] = "new" <=> st[k] = "new"
  BY <1>2, <1>4 DEF Terminal
<1>7. Books(sub, q, st2, None)
  BY <1>5, <1>6 DEF Books
<1>8. QED
  BY <1>7 DEF st2

-----------------------------------------------------------------------------
(* QueueInv is kept by whatever pumpQueue does, once the books are right   *)
(* for the queue and the statuses it is called with.                       *)
LEMMA PumpInv ==
  ASSUME TypeOK, None \notin Jobs, psProc' \in 0..MaxProcs, submitted' \in Seq(Jobs),
         NEW q \in Seq(Jobs), NEW st \in [Jobs -> Statuses], NEW n \in Nat, NEW c,
         Books(submitted', q, st, active),
         OnlyActivePolled, WedgedIsUnsent,
         \A j \in Jobs : st[j] \in {"new", "queued"} => target[j] = 0,
         PumpQueue(q, st, n, c)
  PROVE  QueueInv'
<1>1. CASE active # None \/ q = <<>>
  <2>1. /\ queue' = q /\ status' = st
        /\ UNCHANGED <<active, pollers, target>>
    BY <1>1 DEF PumpQueue
  <2>2. QED
    BY <1>1, <2>1
    DEF QueueInv, OnlyActivePolled, NoLostWakeup, WedgedIsUnsent, Wedged
<1>2. CASE active = None /\ q # <<>>
  <2> DEFINE h == Head(q)
  <2>1. h \in Jobs
    BY <1>2, HeadTailProperties
  <2>2. /\ st[h] = "queued"
        /\ Books(submitted', Tail(q), [st EXCEPT ![h] = "error"], None)
        /\ Books(submitted', Tail(q), [st EXCEPT ![h] = "running"], h)
    BY <1>2, BooksTake
  <2>3. pollers = {}
    BY <1>2 DEF OnlyActivePolled, TypeOK
  <2>4. Refuse(q, st, n) \/ Send(q, st, n) \/ Wedge(q, st, n, c)
    BY <1>2 DEF PumpQueue
  <2>5. CASE Refuse(q, st, n)
    <3>1. /\ queue' = Tail(q) /\ status' = [st EXCEPT ![h] = "error"]
          /\ pumps' = n + 1 /\ UNCHANGED <<active, pollers, target>>
      BY <2>5 DEF Refuse
    <3>2. \A j \in Jobs : status'[j] \in {"new", "queued"} => target'[j] = 0
      BY <2>1, <3>1
    <3>3. NoLostWakeup'
      BY <3>1 DEF NoLostWakeup
    <3>4. QED
      BY <1>2, <2>2, <2>3, <3>1, <3>2, <3>3
      DEF QueueInv, OnlyActivePolled, WedgedIsUnsent, Wedged
  <2>6. CASE Send(q, st, n)
    <3>1. /\ queue' = Tail(q) /\ status' = [st EXCEPT ![h] = "running"]
          /\ active' = h /\ pollers' = pollers \cup {h}
          /\ target' = [target EXCEPT ![h] = psProc']
      BY <2>6 DEF Send
    <3>2. \A j \in Jobs : status'[j] \in {"new", "queued"} => target'[j] = 0
      BY <2>1, <3>1 DEF TypeOK
    <3>3. QED
      BY <2>1, <2>2, <2>3, <3>1, <3>2
      DEF QueueInv, OnlyActivePolled, NoLostWakeup, WedgedIsUnsent, Wedged
  <2>7. CASE Wedge(q, st, n, c)
    <3>1. /\ queue' = Tail(q) /\ status' = [st EXCEPT ![h] = "running"]
          /\ active' = h /\ UNCHANGED <<pollers, target>>
      BY <2>7 DEF Wedge
    <3>2. \A j \in Jobs : status'[j] \in {"new", "queued"} => target'[j] = 0
      BY <2>1, <3>1
    <3>3. target'[h] = 0
      BY <2>1, <2>2, <3>1
    <3>4. QED
      BY <2>1, <2>2, <2>3, <3>1, <3>2, <3>3
      DEF QueueInv, OnlyActivePolled, NoLostWakeup, WedgedIsUnsent, Wedged
  <2>8. QED
    BY <2>4, <2>5, <2>6, <2>7
<1>3. QED
  BY <1>1, <1>2

(* runInSession keeps QueueInv.                                            *)
LEMMA RunInv ==
  ASSUME TypeOK, TypeOK', None \notin Jobs, QueueInv, NEW j \in Jobs, RunInSession(j)
  PROVE  QueueInv'
<1> DEFINE st == [status EXCEPT ![j] = "queued"]
<1>1. /\ status[j] = "new" /\ submitted' = Append(submitted, j)
      /\ \E c \in BOOLEAN : PumpQueue(Append(queue, j), st, pumps, c)
  BY DEF RunInSession
<1>2. Append(queue, j) \in Seq(Jobs) /\ st \in [Jobs -> Statuses]
  BY AppendProperties DEF TypeOK, Statuses
<1>3. Books(submitted', Append(queue, j), st, active)
  BY <1>1, BooksSubmit DEF QueueInv, TypeOK
<1>4. \A k \in Jobs : st[k] \in {"new", "queued"} => target[k] = 0
  BY <1>1 DEF QueueInv, TypeOK
<1>5. psProc' \in 0..MaxProcs /\ submitted' \in Seq(Jobs) /\ pumps \in Nat
  BY DEF TypeOK
<1>6. OnlyActivePolled /\ WedgedIsUnsent
  BY DEF QueueInv
<1> HIDE DEF st
<1>7. QED
  BY <1>1, <1>2, <1>3, <1>4, <1>5, <1>6, PumpInv

(* A poller that ends its job keeps QueueInv.                              *)
LEMMA SettleInv ==
  ASSUME TypeOK, None \notin Jobs, QueueInv, NEW j \in pollers, NEW v \in Terminal,
         NEW err, Settle(j, v, err)
  PROVE  QueueInv'
<1>1. j \in Jobs /\ j = active /\ pollers = {j}
  BY DEF TypeOK, QueueInv, OnlyActivePolled
<1>2. /\ status' = [status EXCEPT ![j] = v]
      /\ active' = None /\ pollers' = {} /\ pumps' = pumps + 1
      /\ UNCHANGED <<queue, submitted, target>>
  BY <1>1 DEF Settle
<1>3. Books(submitted', queue', status', None)
  BY <1>1, <1>2, BooksSettle DEF QueueInv, TypeOK
<1>4. \A k \in Jobs : status'[k] \in {"new", "queued"} => target'[k] = 0
  BY <1>1, <1>2 DEF QueueInv, TypeOK, Terminal
<1>5. NoLostWakeup'
  BY <1>2 DEF NoLostWakeup, TypeOK
<1>6. QED
  BY <1>2, <1>3, <1>4, <1>5 DEF QueueInv, OnlyActivePolled, WedgedIsUnsent, Wedged

(* QueueInv speaks of variables that only the queue's own steps touch.     *)
LEMMA FrameInv ==
  ASSUME QueueInv, UNCHANGED <<submitted, queue, status, active, pollers, pumps, target>>
  PROVE  QueueInv'
BY DEF QueueInv, OnlyActivePolled, NoLostWakeup, WedgedIsUnsent, Wedged

(***************************************************************************)
(* The books of the queue are right in every reachable state: what is      *)
(* waiting is the tail of what was submitted, the job before it is the one *)
(* that runs, only that one is polled, a waiting job always has somebody   *)
(* to start it, and the queue is wedged only by a job never sent.          *)
(***************************************************************************)
THEOREM QueueInvariant == Spec => []QueueInv
<1>1. Init => QueueInv
  BY EmptySeq DEF Init, QueueInv, Books, OnlyActivePolled, NoLostWakeup,
                  WedgedIsUnsent, Wedged
<1>2. TypeOK /\ TypeOK' /\ QueueInv /\ [Next]_vars => QueueInv'
  <2> SUFFICES ASSUME TypeOK, TypeOK', QueueInv, [Next]_vars PROVE QueueInv'
    OBVIOUS
  <2>1. None \notin Jobs
    BY SessionAssumption DEF SessionAssumption
  <2>2. CASE UNCHANGED vars
    BY <2>2, FrameInv DEF vars, jobVars, pwshVars
  <2>3. ASSUME NEW j \in Jobs, RequestJob(j) \/ HolderJob(j) PROVE QueueInv'
    BY <2>1, <2>3, RunInv DEF RequestJob, HolderJob
  <2>4. ASSUME NEW j \in Jobs, Poll(j) PROVE QueueInv'
    <3>1. j \in pollers
      BY <2>4 DEF Poll, PollParseError, PollDone, PollTimeout
    <3>2. PICK v \in Terminal, err \in Errors : Settle(j, v, err)
      BY <2>4 DEF Poll, PollParseError, PollDone, PollTimeout, Terminal, Errors
    <3>3. QED
      BY <2>1, <3>1, <3>2, SettleInv
  <2>5. CASE PumpTick
    <3>1. PumpQueue(queue, status, pumps - 1, FALSE)
      BY <2>5 DEF PumpTick
    <3>2. UNCHANGED submitted /\ pumps > 0
      BY <2>5 DEF PumpTick
    <3>3. pumps - 1 \in Nat
      BY <3>2 DEF TypeOK
    <3>4. Books(submitted', queue, status, active)
      BY <3>2 DEF QueueInv
    <3>5. QED
      BY <2>1, <3>1, <3>3, <3>4, PumpInv DEF QueueInv, TypeOK
  <2>6. CASE ResolveSession \/ RestartSession \/ RestartTimer \/ DestroySession
    BY <2>6, FrameInv DEF ResolveSession, RestartSession, RestartTimer, DestroySession, jobVars, pwshVars
  <2>7. ASSUME NEW g \in Procs,
               \/ ProcessEnds(g) \/ ExitNoticed(g) \/ CloseEvent(g)
               \/ ReadScript(g) \/ FinishScript(g) \/ ScriptDoesNotParse(g)
        PROVE  QueueInv'
    BY <2>7, FrameInv DEF ProcessEnds, ExitNoticed, CloseEvent, ReadScript,
                          FinishScript, ScriptDoesNotParse, jobVars, pwshVars
  <2>8. QED
    BY <2>2, <2>3, <2>4, <2>5, <2>6, <2>7 DEF Next
<1>3. QED
  BY <1>1, <1>2, TypeCorrect, PTL DEF Spec

(* A waiting job always has somebody to start it: the job that is active,  *)
(* or a pumpQueue that is already scheduled.                               *)
THEOREM WakeupNotLost == Spec => []NoLostWakeup
<1>1. QueueInv => NoLostWakeup
  BY DEF QueueInv
<1>2. QED
  BY <1>1, QueueInvariant, PTL

(* No interval outlives its job: the only live poller is the active job's, *)
(* so no stale poller can free the queue under the job that runs.          *)
THEOREM PollerIsActive == Spec => []OnlyActivePolled
<1>1. QueueInv => OnlyActivePolled
  BY DEF QueueInv
<1>2. QED
  BY <1>1, QueueInvariant, PTL

(* The queue is wedged only by a job whose script file was never written.  *)
THEOREM WedgeIsUnsent == Spec => []WedgedIsUnsent
<1>1. QueueInv => WedgedIsUnsent
  BY DEF QueueInv
<1>2. QED
  BY <1>1, QueueInvariant, PTL

-----------------------------------------------------------------------------
(* The session implements the FIFO service.                                *)

(* Right books are in submission order: the cursor of the FIFO is before   *)
(* the active job, or after the last job taken if none is active.          *)
LEMMA BooksInOrder ==
  ASSUME NEW sub \in Seq(Jobs), NEW q \in Seq(Jobs), NEW st,
         NEW act, Books(sub, q, st, act)
  PROVE  Fifo!InOrder(sub, st)
<1> DEFINE taken == Len(sub) - Len(q)
<1>1. Len(sub) \in Nat /\ Len(q) \in Nat
  BY LenProperties
<1>2. taken \in 0..Len(sub)
  BY <1>1 DEF Books
<1>3. \A i \in 1..Len(sub) :
        /\ i > taken => st[sub[i]] = "queued"
        /\ i < taken => st[sub[i]] \in Terminal
        /\ i = taken /\ act = None => st[sub[i]] \in Terminal
        /\ i = taken /\ act # None => st[sub[i]] = "running"
  BY DEF Books
<1>4. act # None => taken > 0
  BY DEF Books
<1> HIDE DEF taken
<1>5. CASE act = None
  <2>1. /\ \A i \in 1..taken : st[sub[i]] \in Fifo!Over
        /\ taken < Len(sub) => st[sub[taken + 1]] \in {"queued", "running"}
        /\ \A i \in 1..Len(sub) : i > taken + 1 => st[sub[i]] = "queued"
    BY <1>1, <1>2, <1>3, <1>5 DEF Terminal, Fifo!Over
  <2>2. QED
    BY <1>2, <2>1 DEF Fifo!InOrder
<1>6. CASE act # None
  <2>1. taken - 1 \in 0..Len(sub) /\ taken \in 1..Len(sub)
    BY <1>1, <1>2, <1>4, <1>6
  <2>2. st[sub[taken]] = "running" /\ (taken - 1) + 1 = taken
    BY <1>3, <1>6, <2>1
  <2>3. /\ \A i \in 1..(taken - 1) : st[sub[i]] \in Fifo!Over
        /\ \A i \in 1..Len(sub) : i > (taken - 1) + 1 => st[sub[i]] = "queued"
    BY <1>1, <1>3, <2>1 DEF Terminal, Fifo!Over
  <2>4. QED
    BY <2>1, <2>2, <2>3 DEF Fifo!InOrder
<1>7. QED
  BY <1>5, <1>6

(* pumpQueue moves no job but the head of the queue, and that one forward. *)
LEMMA PumpMoves ==
  ASSUME None \notin Jobs, submitted' \in Seq(Jobs),
         NEW q \in Seq(Jobs), NEW st \in [Jobs -> Statuses], NEW n, NEW c,
         Books(submitted', q, st, active), PumpQueue(q, st, n, c),
         NEW j \in Jobs, status'[j] # st[j]
  PROVE  st[j] = "queued" /\ status'[j] \in {"running", "error"}
<1>1. active = None /\ q # <<>>
  BY DEF PumpQueue
<1>2. st[Head(q)] = "queued" /\ Head(q) \in Jobs
  BY <1>1, BooksTake, HeadTailProperties
<1>3. \E v \in {"running", "error"} : status' = [st EXCEPT ![Head(q)] = v]
  BY <1>1 DEF PumpQueue, Refuse, Send, Wedge
<1>4. QED
  BY <1>2, <1>3

(* A submission moves its job from new, and possibly, by the pumpQueue it  *)
(* ends with, the head of the queue.                                       *)
LEMMA RunMoves ==
  ASSUME TypeOK, TypeOK', None \notin Jobs, QueueInv,
         NEW k \in Jobs, RunInSession(k),
         NEW j \in Jobs, status'[j] # status[j]
  PROVE  <<status[j], status'[j]>> \in Fifo!Moves
<1> DEFINE st == [status EXCEPT ![k] = "queued"]
<1>1. /\ status[k] = "new" /\ submitted' = Append(submitted, k)
      /\ \E c \in BOOLEAN : PumpQueue(Append(queue, k), st, pumps, c)
  BY DEF RunInSession
<1>2. Append(queue, k) \in Seq(Jobs) /\ st \in [Jobs -> Statuses]
  BY AppendProperties DEF TypeOK, Statuses
<1>3. Books(submitted', Append(queue, k), st, active)
  BY <1>1, BooksSubmit DEF QueueInv, TypeOK
<1>4. submitted' \in Seq(Jobs)
  BY DEF TypeOK
<1>5. st[k] = "queued" /\ (j # k => st[j] = status[j])
  BY DEF TypeOK
<1> HIDE DEF st
<1>6. status'[j] # st[j] => st[j] = "queued" /\ status'[j] \in {"running", "error"}
  BY <1>1, <1>2, <1>3, <1>4, PumpMoves
<1>7. QED
  BY <1>1, <1>5, <1>6 DEF Fifo!Moves

(***************************************************************************)
(* The session implements the FIFO service: whatever becomes of its pwsh,  *)
(* jobs start in the order of submission, one at a time, and a job that is *)
(* over never gets another verdict.                                        *)
(***************************************************************************)
THEOREM ImplementsFifo == Spec => IsFifoService
<1>1. Init => Fifo!Init
  BY DEF Init, Fifo!Init
<1>2. TypeOK /\ TypeOK' /\ QueueInv /\ QueueInv' /\ [Next]_vars => [Fifo!Serve]_(Fifo!vars)
  <2> SUFFICES ASSUME TypeOK, TypeOK', QueueInv, QueueInv', [Next]_vars,
                      ~UNCHANGED <<submitted, status>>
               PROVE  Fifo!Serve
    BY DEF Fifo!vars
  <2>1. None \notin Jobs
    BY SessionAssumption DEF SessionAssumption
  <2>2. /\ Fifo!InOrder(submitted', status')
        /\ \A j \in Jobs :
             status'[j] = "new" <=> \A i \in 1..Len(submitted') : submitted'[i] # j
    <3>1. Books(submitted', queue', status', active')
      BY DEF QueueInv
    <3>2. submitted' \in Seq(Jobs) /\ queue' \in Seq(Jobs)
      BY DEF TypeOK
    <3>3. Fifo!InOrder(submitted', status')
      BY <3>1, <3>2, BooksInOrder
    <3>4. QED
      BY <3>1, <3>3 DEF Books
  <2>3. /\ \/ UNCHANGED submitted
           \/ \E j \in Jobs : status[j] = "new" /\ submitted' = Append(submitted, j)
        /\ \A j \in Jobs : status'[j] # status[j] => <<status[j], status'[j]>> \in Fifo!Moves
    <3>1. ASSUME NEW k \in Jobs, RequestJob(k) \/ HolderJob(k) PROVE <2>3
      <4>1. RunInSession(k)
        BY <3>1 DEF RequestJob, HolderJob
      <4>2. QED
        BY <2>1, <4>1, RunMoves DEF RunInSession
    <3>2. ASSUME NEW k \in Jobs, Poll(k) PROVE <2>3
      <4>1. k \in pollers
        BY <3>2 DEF Poll, PollParseError, PollDone, PollTimeout
      <4>2. PICK v \in {"completed", "error"} :
              status' = [status EXCEPT ![k] = v] /\ UNCHANGED submitted
        BY <3>2 DEF Poll, PollParseError, PollDone, PollTimeout, Settle
      <4>3. status[k] = "running"
        <5>1. k = active /\ active # None
          BY <2>1, <4>1 DEF QueueInv, OnlyActivePolled
        <5>2. LET taken == Len(submitted) - Len(queue) IN
                /\ taken > 0 /\ taken <= Len(submitted)
                /\ \A i \in 1..Len(submitted) : i = taken => status[active] = "running"
          <6>1. Len(submitted) \in Nat /\ Len(queue) \in Nat
            BY LenProperties DEF TypeOK
          <6>2. QED
            BY <5>1, <6>1 DEF QueueInv, Books
        <5>3. Len(submitted) \in Nat /\ Len(queue) \in Nat
          BY LenProperties DEF TypeOK
        <5>4. QED
          BY <5>1, <5>2, <5>3
      <4>4. QED
        BY <4>2, <4>3 DEF Fifo!Moves, TypeOK
    <3>3. CASE PumpTick
      <4>1. /\ PumpQueue(queue, status, pumps - 1, FALSE)
            /\ UNCHANGED submitted
        BY <3>3 DEF PumpTick
      <4>2. Books(submitted', queue, status, active)
        BY <4>1 DEF QueueInv
      <4>3. ASSUME NEW j \in Jobs, status'[j] # status[j]
            PROVE  status[j] = "queued" /\ status'[j] \in {"running", "error"}
        BY <2>1, <4>1, <4>2, <4>3, PumpMoves DEF TypeOK
      <4>4. QED
        BY <4>1, <4>3 DEF Fifo!Moves
    <3>4. UNCHANGED <<submitted, status>> => <2>3
      OBVIOUS
    <3>5. (\/ UNCHANGED vars \/ ResolveSession
           \/ RestartSession \/ RestartTimer \/ DestroySession)
            => UNCHANGED <<submitted, status>>
      BY DEF vars, jobVars, ResolveSession, RestartSession, RestartTimer, DestroySession
    <3>6. ASSUME NEW g \in Procs,
                 \/ ProcessEnds(g) \/ ExitNoticed(g) \/ CloseEvent(g)
                 \/ ReadScript(g) \/ FinishScript(g) \/ ScriptDoesNotParse(g)
          PROVE  UNCHANGED <<submitted, status>>
      BY <3>6 DEF ProcessEnds, ExitNoticed, CloseEvent, ReadScript,
                  FinishScript, ScriptDoesNotParse, jobVars
    <3>7. QED
      BY <3>1, <3>2, <3>3, <3>4, <3>5, <3>6 DEF Next
  <2>4. QED
    BY <2>2, <2>3 DEF Fifo!Serve
<1>3. QED
  BY <1>1, <1>2, TypeCorrect, QueueInvariant, PTL DEF Spec, IsFifoService, Fifo!Spec

-----------------------------------------------------------------------------
(* The processes.                                                          *)

(* startSession leaves the flag up only over a process that is up, or      *)
(* leaves everything as it is.                                             *)
LEMMA StartAlive ==
  ASSUME TypeOK, AliveIsNotClosed, StartSession
  PROVE  AliveIsNotClosed'
<1>1. CASE Spawns
  <2>1. psProc' \in Procs /\ psProc' # 0
    BY <1>1, SessionAssumption DEF Spawns, TypeOK, Procs, SessionAssumption
  <2>2. phase'[psProc'] = "up"
    BY <1>1, <2>1 DEF Spawns, TypeOK
  <2>3. QED
    BY <2>1, <2>2 DEF AliveIsNotClosed
<1>2. CASE UNCHANGED <<psProc, phase, psAlive>>
  BY <1>2 DEF AliveIsNotClosed
<1>3. QED
  BY <1>1, <1>2 DEF StartSession

(***************************************************************************)
(* The flag that makes getSession keep a process is never up over one      *)
(* whose close event has been handled, in whatever order processes were    *)
(* spawned, restarted, revived and closed.                                 *)
(***************************************************************************)
THEOREM AliveProcess == Spec => []AliveIsNotClosed
<1>1. Init => AliveIsNotClosed
  BY SessionAssumption DEF Init, AliveIsNotClosed, Procs, SessionAssumption
<1>2. TypeOK /\ AliveIsNotClosed /\ [Next]_vars => AliveIsNotClosed'
  <2> SUFFICES ASSUME TypeOK, AliveIsNotClosed, [Next]_vars
               PROVE  AliveIsNotClosed'
    OBVIOUS
  <2>1. UNCHANGED <<psProc, phase, psAlive>> => AliveIsNotClosed'
    BY DEF AliveIsNotClosed
  <2>2. ASSUME GetSession PROVE AliveIsNotClosed'
    BY <2>1, <2>2, StartAlive DEF GetSession
  <2>3. ASSUME NEW j \in Jobs, HolderJob(j) \/ Poll(j) PROVE AliveIsNotClosed'
    BY <2>1, <2>3 DEF HolderJob, Poll, PollParseError, PollDone, PollTimeout,
                      Settle, procVars
  <2>4. CASE PumpTick
    BY <2>1, <2>4 DEF PumpTick, procVars
  <2>5. CASE RestartSession \/ DestroySession
    BY <2>5 DEF RestartSession, DestroySession, AliveIsNotClosed
  <2>6. CASE RestartTimer
    BY <2>6, StartAlive DEF RestartTimer
  <2>7. ASSUME NEW g \in Procs, ProcessEnds(g) PROVE AliveIsNotClosed'
    <3>1. \A h \in Procs : phase'[h] = "closed" => phase[h] = "closed"
      BY <2>7 DEF ProcessEnds, TypeOK
    <3>2. psProc # 0 => psProc \in Procs
      BY SessionAssumption DEF TypeOK, Procs, SessionAssumption
    <3>3. QED
      BY <2>7, <3>1, <3>2 DEF ProcessEnds, AliveIsNotClosed
  <2>8. ASSUME NEW g \in Procs, ExitNoticed(g) PROVE AliveIsNotClosed'
    <3>1. \A h \in Procs : phase'[h] = "closed" => phase[h] = "closed"
      BY <2>8 DEF ExitNoticed, TypeOK
    <3>2. psProc # 0 => psProc \in Procs
      BY SessionAssumption DEF TypeOK, Procs, SessionAssumption
    <3>3. QED
      BY <2>8, <3>1, <3>2 DEF ExitNoticed, AliveIsNotClosed
  <2>9. ASSUME NEW g \in Procs,
               \/ CloseEvent(g)
               \/ ReadScript(g) \/ FinishScript(g) \/ ScriptDoesNotParse(g)
        PROVE  AliveIsNotClosed'
    BY <2>1, <2>9 DEF CloseEvent, ReadScript, FinishScript, ScriptDoesNotParse,
                      procVars, AliveIsNotClosed
  <2>10. CASE UNCHANGED vars
    BY <2>1, <2>10 DEF vars, procVars
  <2>11. QED
    BY <2>2, <2>3, <2>4, <2>5, <2>6, <2>7, <2>8, <2>9, <2>10
    DEF Next, RequestJob, ResolveSession
<1>3. QED
  BY <1>1, <1>2, TypeCorrect, PTL DEF Spec

(* The inductive form of EvictedIsSilent: an evicted session is not alive  *)
(* and nothing is left that could make it so.                              *)
EvictedIsDead == ~pooled => ~psAlive /\ timers = 0

(* Nothing brings an evicted session back to life: its object gets no      *)
(* process from getSession, and it was evicted with no timer pending.      *)
LEMMA EvictedStaysDead == Spec => []EvictedIsDead
<1>1. Init => EvictedIsDead
  BY DEF Init, EvictedIsDead
<1>2. EvictedIsDead /\ [Next]_vars => EvictedIsDead'
  <2> SUFFICES ASSUME EvictedIsDead, [Next]_vars PROVE EvictedIsDead'
    OBVIOUS
  <2>1. UNCHANGED <<pooled, psAlive, timers>> => EvictedIsDead'
    BY DEF EvictedIsDead
  <2>2. ASSUME GetSession, UNCHANGED pooled PROVE EvictedIsDead'
    BY <2>2 DEF GetSession, EvictedIsDead
  <2>3. ASSUME NEW j \in Jobs, HolderJob(j) \/ Poll(j) PROVE EvictedIsDead'
    BY <2>1, <2>3 DEF HolderJob, Poll, PollParseError, PollDone, PollTimeout,
                      Settle, procVars
  <2>4. CASE PumpTick \/ UNCHANGED vars
    BY <2>1, <2>4 DEF PumpTick, procVars, vars
  <2>5. CASE RestartSession \/ RestartTimer \/ DestroySession
    BY <2>5 DEF RestartSession, RestartTimer, DestroySession, EvictedIsDead
  <2>6. ASSUME NEW g \in Procs,
               \/ ProcessEnds(g) \/ ExitNoticed(g) \/ CloseEvent(g)
               \/ ReadScript(g) \/ FinishScript(g) \/ ScriptDoesNotParse(g)
        PROVE  EvictedIsDead'
    BY <2>6 DEF ProcessEnds, ExitNoticed, CloseEvent, ReadScript, FinishScript,
                ScriptDoesNotParse, procVars, EvictedIsDead
  <2>7. QED
    BY <2>2, <2>3, <2>4, <2>5, <2>6 DEF Next, RequestJob, ResolveSession
<1>3. QED
  BY <1>1, <1>2, PTL DEF Spec

(* A pumpQueue on a session that is not alive writes nothing to any pwsh.  *)
LEMMA DeadPumpIsSilent ==
  ASSUME ~psAlive', NEW q, NEW st, NEW n, NEW c, PumpQueue(q, st, n, c)
  PROVE  UNCHANGED stdin
BY DEF PumpQueue, Refuse, Send, Wedge, Writable

(***************************************************************************)
(* No line is written to any pwsh for a session that was evicted, whoever  *)
(* still holds the object and submits jobs to it.                          *)
(***************************************************************************)
THEOREM NothingAfterEviction == Spec => EvictedIsSilent
<1> DEFINE Shrinks == \A g \in Procs : Len(stdin'[g]) <= Len(stdin[g])
<1>1. TypeOK /\ TypeOK' /\ EvictedIsDead /\ EvictedIsDead' /\ [Next]_vars
        => [~pooled => Shrinks]_vars
  <2> SUFFICES ASSUME TypeOK, TypeOK', EvictedIsDead, EvictedIsDead', [Next]_vars, ~pooled
               PROVE  Shrinks
    BY DEF vars
  <2>1. UNCHANGED stdin => Shrinks
    BY LenProperties DEF TypeOK
  <2>2. ~psAlive
    BY DEF EvictedIsDead
  <2>3. ASSUME NEW j \in Jobs, RequestJob(j) PROVE Shrinks
    BY <2>3 DEF RequestJob, GetSession
  <2>4. ASSUME NEW j \in Jobs, HolderJob(j) PROVE Shrinks
    BY <2>1, <2>2, <2>4, DeadPumpIsSilent DEF HolderJob, RunInSession, procVars
  <2>5. CASE PumpTick
    BY <2>1, <2>2, <2>5, DeadPumpIsSilent DEF PumpTick, procVars
  <2>6. ASSUME NEW j \in Jobs, Poll(j) PROVE Shrinks
    BY <2>1, <2>6 DEF Poll, PollParseError, PollDone, PollTimeout, Settle
  <2>7. CASE \/ ResolveSession \/ RestartSession \/ RestartTimer
             \/ DestroySession \/ UNCHANGED vars
    BY <2>1, <2>7 DEF ResolveSession, RestartSession, RestartTimer, DestroySession, pwshVars, vars
  <2>8. ASSUME NEW h \in Procs, ProcessEnds(h) PROVE Shrinks
    <3>1. stdin' = [stdin EXCEPT ![h] = <<>>]
      BY <2>8 DEF ProcessEnds
    <3>2. Len(<<>>) = 0 /\ \A g \in Procs : Len(stdin[g]) \in Nat
      BY LenProperties, EmptySeq DEF TypeOK
    <3>3. QED
      BY <3>1, <3>2 DEF TypeOK
  <2>9. ASSUME NEW h \in Procs, ReadScript(h) PROVE Shrinks
    <3>1. stdin' = [stdin EXCEPT ![h] = Tail(@)] /\ stdin[h] # <<>>
      BY <2>9 DEF ReadScript
    <3>2. Len(Tail(stdin[h])) = Len(stdin[h]) - 1
      BY <3>1, HeadTailProperties DEF TypeOK
    <3>3. \A g \in Procs : Len(stdin[g]) \in Nat
      BY LenProperties DEF TypeOK
    <3>4. QED
      BY <3>1, <3>2, <3>3 DEF TypeOK
  <2>10. ASSUME NEW h \in Procs,
                \/ ExitNoticed(h) \/ CloseEvent(h)
                \/ FinishScript(h) \/ ScriptDoesNotParse(h)
         PROVE  Shrinks
    BY <2>1, <2>10 DEF ExitNoticed, CloseEvent, FinishScript, ScriptDoesNotParse, pwshVars
  <2>11. QED
    BY <2>3, <2>4, <2>5, <2>6, <2>7, <2>8, <2>9, <2>10 DEF Next
<1>2. QED
  BY <1>1, TypeCorrect, EvictedStaysDead, PTL DEF Spec, EvictedIsSilent
-----------------------------------------------------------------------------
(* The scripts. What each step does to the scripts that are in flight is   *)
(* said once, in the lemmas that follow; the invariant is proved from them.*)

(* A script in flight is one of a job that has been sent.                  *)
LEMMA FlightFacts ==
  ASSUME TypeOK, None \notin Jobs, NEW g \in Procs
  PROVE  /\ InFlight(g) \subseteq Jobs
         /\ \A i \in 1..Len(stdin[g]) : stdin[g][i] \in Jobs
         /\ executing[g] # None => executing[g] \in InFlight(g)
<1>1. \A i \in 1..Len(stdin[g]) : stdin[g][i] \in Jobs
  BY ElementOfSeq DEF TypeOK
<1>2. executing[g] \in Jobs \cup {None}
  BY DEF TypeOK
<1>3. QED
  BY <1>1, <1>2 DEF InFlight, Unread

(* Steps that leave the pipes and the interpreters alone.                  *)
LEMMA FlightFrame ==
  ASSUME UNCHANGED <<stdin, executing>>, NEW g \in Procs
  PROVE  /\ InFlight(g)' = InFlight(g)
         /\ AtOnePlace(g) => AtOnePlace(g)'
BY DEF InFlight, Unread, AtOnePlace

(* A process that reads its next line only moves the script.               *)
LEMMA FlightRead ==
  ASSUME TypeOK, None \notin Jobs, NEW h \in Procs, ReadScript(h), NEW g \in Procs
  PROVE  /\ InFlight(g)' = InFlight(g)
         /\ AtOnePlace(g) => AtOnePlace(g)'
<1>1. CASE g # h
  BY <1>1 DEF ReadScript, TypeOK, InFlight, Unread, AtOnePlace
<1>2. CASE g = h
  <2> DEFINE s == stdin[g]
             t == Tail(stdin[g])
  <2>1. /\ s \in Seq(Jobs) /\ s # <<>> /\ executing[g] = None
        /\ stdin'[g] = t /\ executing'[g] = Head(s)
    BY <1>2 DEF ReadScript, TypeOK
  <2>2. /\ t \in Seq(Jobs) /\ Head(s) \in Jobs /\ Head(s) = s[1]
        /\ Len(s) \in Nat /\ Len(t) = Len(s) - 1
        /\ \A i \in 1..Len(t) : t[i] = s[i + 1]
    BY <2>1, HeadTailProperties, LenProperties
  <2>3. Len(s) \in Nat \ {0} /\ Len(t) \in Nat
    BY <2>1, <2>2, EmptySeq, LenProperties
  <2> HIDE DEF s, t
  <2>4. {s[i] : i \in 1..Len(s)} = {t[i] : i \in 1..Len(t)} \cup {Head(s)}
    <3>1. ASSUME NEW i \in 1..Len(s)
          PROVE  s[i] \in {t[k] : k \in 1..Len(t)} \cup {Head(s)}
      <4>1. CASE i = 1
        BY <4>1, <2>2
      <4>2. CASE i # 1
        <5>1. i - 1 \in 1..Len(t) /\ (i - 1) + 1 = i
          BY <4>2, <2>2, <2>3
        <5>2. t[i - 1] = s[i]
          BY <5>1, <2>2
        <5>3. QED
          BY <5>1, <5>2
      <4>3. QED
        BY <4>1, <4>2
    <3>2. ASSUME NEW i \in 1..Len(t) PROVE t[i] \in {s[k] : k \in 1..Len(s)}
      <4>1. i + 1 \in 1..Len(s)
        BY <2>2, <2>3
      <4>2. QED
        BY <4>1, <2>2
    <3>3. 1 \in 1..Len(s)
      BY <2>3
    <3>4. QED
      BY <3>1, <3>2, <3>3, <2>2
  <2>5. Head(s) # None
    BY <2>2
  <2>6. InFlight(g)' = InFlight(g)
    BY <2>1, <2>4, <2>5 DEF InFlight, Unread, s, t
  <2>7. ASSUME AtOnePlace(g) PROVE AtOnePlace(g)'
    <3>1. \A i, k \in 1..Len(s) : s[i] = s[k] => i = k
      BY <2>7 DEF AtOnePlace, s
    <3>2. \A i, k \in 1..Len(t) : t[i] = t[k] => i = k
      <4> TAKE i, k \in 1..Len(t)
      <4>1. i + 1 \in 1..Len(s) /\ k + 1 \in 1..Len(s)
        BY <2>2, <2>3
      <4>2. t[i] = t[k] => i + 1 = k + 1
        BY <4>1, <3>1, <2>2
      <4>3. QED
        BY <4>2, <2>3
    <3>3. \A i \in 1..Len(t) : t[i] # Head(s)
      <4> TAKE i \in 1..Len(t)
      <4>1. i + 1 \in 1..Len(s) /\ 1 \in 1..Len(s) /\ i + 1 # 1
        BY <2>2, <2>3
      <4>2. QED
        BY <4>1, <3>1, <2>2
    <3>4. QED
      BY <2>1, <3>2, <3>3 DEF AtOnePlace, Unread, t
  <2>8. QED
    BY <2>6, <2>7
<1>3. QED
  BY <1>1, <1>2

(* A script that ends, or does not parse, is no longer in flight; nothing  *)
(* else moves.                                                             *)
LEMMA FlightEnds ==
  ASSUME TypeOK, None \notin Jobs, NEW h \in Procs, AtOnePlace(h),
         executing[h] # None, executing' = [executing EXCEPT ![h] = None],
         UNCHANGED stdin, NEW g \in Procs
  PROVE  /\ InFlight(g)' = IF g = h THEN InFlight(h) \ {executing[h]} ELSE InFlight(g)
         /\ AtOnePlace(g) => AtOnePlace(g)'
<1>1. CASE g # h
  BY <1>1 DEF TypeOK, InFlight, Unread, AtOnePlace
<1>2. CASE g = h
  <2>1. Unread(g)' = Unread(g) /\ executing'[g] = None
    BY <1>2 DEF Unread, TypeOK
  <2>2. None \notin Unread(g)
    BY FlightFacts DEF Unread
  <2>3. executing[h] \notin Unread(h)
    BY DEF AtOnePlace
  <2>4. InFlight(g)' = InFlight(h) \ {executing[h]}
    BY <1>2, <2>1, <2>3 DEF InFlight
  <2>5. QED
    BY <1>2, <2>1, <2>2, <2>4 DEF AtOnePlace
<1>3. QED
  BY <1>1, <1>2

(* A process that ends takes what it was running and had not read with it. *)
LEMMA FlightDies ==
  ASSUME TypeOK, NEW h \in Procs, ProcessEnds(h), NEW g \in Procs
  PROVE  /\ InFlight(g)' \subseteq InFlight(g)
         /\ AtOnePlace(g) => AtOnePlace(g)'
<1>1. CASE g # h
  BY <1>1 DEF ProcessEnds, TypeOK, InFlight, Unread, AtOnePlace
<1>2. CASE g = h
  <2>1. stdin'[g] = <<>> /\ executing'[g] = None
    BY <1>2 DEF ProcessEnds, TypeOK
  <2>2. Len(<<>>) = 0 /\ 1..0 = {}
    BY EmptySeq
  <2>3. QED
    BY <2>1, <2>2 DEF InFlight, Unread, AtOnePlace
<1>3. QED
  BY <1>1, <1>2

(* A line that is written is read once: the job has none in flight before. *)
LEMMA FlightSend ==
  ASSUME TypeOK, None \notin Jobs, NEW p \in Procs, NEW j \in Jobs,
         j \notin InFlight(p), UNCHANGED executing,
         stdin' = [stdin EXCEPT ![p] = Append(stdin[p], j)], NEW g \in Procs
  PROVE  /\ InFlight(g)' = IF g = p THEN InFlight(p) \cup {j} ELSE InFlight(g)
         /\ AtOnePlace(g) => AtOnePlace(g)'
<1>1. CASE g # p
  BY <1>1 DEF TypeOK, InFlight, Unread, AtOnePlace
<1>2. CASE g = p
  <2> DEFINE s == stdin[g]
             t == Append(stdin[g], j)
  <2>1. stdin'[g] = t /\ s \in Seq(Jobs)
    BY <1>2 DEF TypeOK
  <2>2. /\ Len(s) \in Nat /\ Len(t) = Len(s) + 1
        /\ \A i \in 1..Len(s) : t[i] = s[i]
        /\ t[Len(s) + 1] = j
    BY <2>1, AppendProperties, LenProperties
  <2>3. /\ \A i \in 1..Len(s) : s[i] # j
        /\ executing[g] # j
    BY <1>2 DEF InFlight, Unread
  <2> HIDE DEF s, t
  <2>4. \A i \in 1..Len(t) : i \in 1..Len(s) \/ i = Len(s) + 1
    BY <2>2
  <2>5. 1..Len(s) \subseteq 1..Len(t) /\ Len(s) + 1 \in 1..Len(t)
    BY <2>2
  <2>6. {t[i] : i \in 1..Len(t)} = {s[i] : i \in 1..Len(s)} \cup {j}
    BY <2>2, <2>4, <2>5
  <2>7. InFlight(g)' = InFlight(p) \cup {j}
    BY <1>2, <2>1, <2>6 DEF InFlight, Unread, s
  <2>8. ASSUME AtOnePlace(g) PROVE AtOnePlace(g)'
    <3>1. \A i, k \in 1..Len(s) : s[i] = s[k] => i = k
      BY <2>8 DEF AtOnePlace, s
    <3>2. \A i, k \in 1..Len(t) : t[i] = t[k] => i = k
      BY <3>1, <2>2, <2>3, <2>4
    <3>3. executing'[g] \notin {t[i] : i \in 1..Len(t)}
      BY <2>3, <2>6, <2>8 DEF AtOnePlace, Unread, s
    <3>4. stdin'[g] = t
      BY <2>1
    <3>5. QED
      BY <3>2, <3>3, <3>4 DEF AtOnePlace, Unread
  <2>9. QED
    BY <1>2, <2>7, <2>8
<1>3. QED
  BY <1>1, <1>2

(* The job that is active is running.                                      *)
LEMMA ActiveRuns ==
  ASSUME TypeOK, QueueInv, active # None
  PROVE  status[active] = "running"
<1> DEFINE taken == Len(submitted) - Len(queue)
<1>1. Len(submitted) \in Nat /\ Len(queue) \in Nat
  BY LenProperties DEF TypeOK
<1>2. taken \in 1..Len(submitted)
  BY <1>1 DEF QueueInv, Books
<1>3. \A i \in 1..Len(submitted) : i = taken => status[active] = "running"
  BY DEF QueueInv, Books
<1>4. QED
  BY <1>2, <1>3

(* Steps that touch no script and no verdict.                              *)
LEMMA ScriptFrame ==
  ASSUME ScriptInv, UNCHANGED <<status, error, active, pollers, heard,
                                stdin, executing, target, files>>
  PROVE  ScriptInv'
BY DEF ScriptInv, AtOnePlace, InFlight, Unread, Abandoned, NeverSent, DidNotRun

(* A pumpQueue that finds nothing to do, or a job it cannot write.         *)
LEMMA ScriptRefuse ==
  ASSUME TypeOK, None \notin Jobs, ScriptInv,
         NEW h \in Jobs, NEW st \in [Jobs -> Statuses],
         \A j \in Jobs : st[j] = status[j] \/ (status[j] = "new" /\ st[j] = "queued"),
         target[h] = 0,
         \/ status' = st /\ UNCHANGED error
         \/ /\ status' = [st EXCEPT ![h] = "error"]
            /\ error' = [error EXCEPT ![h] = "refused"],
         UNCHANGED <<active, pollers, heard, stdin, executing, target, files>>
  PROVE  ScriptInv'
<1>1. \A g \in Procs : InFlight(g)' = InFlight(g) /\ AtOnePlace(g)'
  BY FlightFrame DEF ScriptInv
<1>2. NeverSent(h)
  BY DEF ScriptInv
<1>3. \A j \in Jobs : \/ j = h /\ error'[j] \in {"none", "refused"}
                      \/ error'[j] = error[j]
  BY <1>2 DEF TypeOK, NeverSent
<1>4. \A j \in Jobs : j # h /\ Abandoned(j) => Abandoned(j)'
  BY DEF Abandoned, TypeOK
<1>5. \A g \in Procs : \A j \in InFlight(g)' :
        target'[j] = g /\ files'[j] = "none" /\ (j = active' \/ Abandoned(j)')
  <2> TAKE g \in Procs
  <2> TAKE j \in InFlight(g)'
  <2>1. j \in InFlight(g) /\ j \in Jobs
    BY <1>1, FlightFacts
  <2>2. target[j] = g /\ files[j] = "none" /\ (j = active \/ Abandoned(j))
    BY <2>1 DEF ScriptInv
  <2>3. g # 0
    BY DEF Procs
  <2>4. j # h
    BY <2>2, <2>3
  <2>5. QED
    BY <1>4, <2>1, <2>2, <2>4
<1>6. \A j \in Jobs : target'[j] = 0 => NeverSent(j)'
  BY <1>2, <1>3 DEF ScriptInv, NeverSent
<1>7. \A j \in Jobs : status'[j] \notin Terminal => error'[j] = "none"
  <2> TAKE j \in Jobs
  <2>1. status[j] \notin Terminal => error[j] = "none"
    BY DEF ScriptInv
  <2>2. status'[j] \notin Terminal => status[j] \notin Terminal /\ error'[j] = error[j]
    BY DEF Terminal, TypeOK
  <2>3. QED
    BY <2>1, <2>2
<1>8. (\A j \in Jobs : error'[j] # "timeout") =>
        \A j \in Jobs : error'[j] = "parse" \/ j \in heard' => DidNotRun(j)'
  <2> SUFFICES ASSUME \A j \in Jobs : error'[j] # "timeout",
                      NEW j \in Jobs, error'[j] = "parse" \/ j \in heard'
               PROVE  DidNotRun(j)'
    OBVIOUS
  <2>1. \A k \in Jobs : error[k] # "timeout"
    BY <1>2, <1>3 DEF NeverSent
  <2>2. error[j] = "parse" \/ j \in heard
    BY <1>3
  <2>3. DidNotRun(j)
    BY <2>1, <2>2 DEF ScriptInv
  <2>4. QED
    BY <1>1, <2>3 DEF DidNotRun
<1>9. \A j \in pollers' : target'[j] # 0
  BY DEF ScriptInv
<1>10. QED
  BY <1>1, <1>5, <1>6, <1>7, <1>8, <1>9 DEF ScriptInv

(* A pumpQueue that makes a job the active one, whether its line has been  *)
(* written or not.                                                         *)
LEMMA ScriptStart ==
  ASSUME TypeOK, None \notin Jobs, ScriptInv,
         NEW h \in Jobs, NEW st \in [Jobs -> Statuses],
         \A j \in Jobs : st[j] = status[j] \/ (status[j] = "new" /\ st[j] = "queued"),
         target[h] = 0, st[h] = "queued", active = None,
         status' = [st EXCEPT ![h] = "running"], active' = h,
         NEW p \in 0..MaxProcs, target' = [target EXCEPT ![h] = p],
         pollers' \subseteq pollers \cup {h}, p = 0 => pollers' = pollers,
         \A g \in Procs : AtOnePlace(g)',
         \A g \in Procs : InFlight(g)' = InFlight(g)
                            \/ (g = p /\ InFlight(g)' = InFlight(g) \cup {h}),
         UNCHANGED <<error, heard, files>>
  PROVE  ScriptInv'
<1>1. NeverSent(h)
  BY DEF ScriptInv
<1>2. \A j \in Jobs : j # h => target'[j] = target[j]
  BY DEF TypeOK
<1>3. target'[h] = p
  BY DEF TypeOK
<1>4. \A j \in Jobs : j # h /\ Abandoned(j) => Abandoned(j)'
  BY DEF Abandoned, TypeOK
<1>5. \A g \in Procs : \A j \in InFlight(g)' :
        target'[j] = g /\ files'[j] = "none" /\ (j = active' \/ Abandoned(j)')
  <2> TAKE g \in Procs
  <2> TAKE j \in InFlight(g)'
  <2>1. j \in InFlight(g) \/ (g = p /\ j = h)
    OBVIOUS
  <2>2. CASE j \in InFlight(g)
    <3>1. j \in Jobs
      BY <2>2, FlightFacts
    <3>2. target[j] = g /\ files[j] = "none" /\ (j = active \/ Abandoned(j))
      BY <2>2 DEF ScriptInv
    <3>3. g # 0
      BY DEF Procs
    <3>4. j # h
      BY <3>2, <3>3
    <3>5. QED
      BY <1>2, <1>4, <3>1, <3>2, <3>4
  <2>3. CASE g = p /\ j = h
    BY <1>1, <1>3, <2>3 DEF NeverSent
  <2>4. QED
    BY <2>1, <2>2, <2>3
<1>6. \A j \in Jobs : target'[j] = 0 => NeverSent(j)'
  BY <1>1, <1>2 DEF ScriptInv, NeverSent
<1>7. \A j \in Jobs : status'[j] \notin Terminal => error'[j] = "none"
  <2> TAKE j \in Jobs
  <2>1. status[j] \notin Terminal => error[j] = "none"
    BY DEF ScriptInv
  <2>2. status[h] \notin Terminal
    BY DEF Terminal
  <2>3. status'[j] \notin Terminal => status[j] \notin Terminal
    BY <2>2 DEF Terminal, TypeOK
  <2>4. QED
    BY <2>1, <2>3
<1>8. (\A j \in Jobs : error'[j] # "timeout") =>
        \A j \in Jobs : error'[j] = "parse" \/ j \in heard' => DidNotRun(j)'
  <2> SUFFICES ASSUME \A j \in Jobs : error[j] # "timeout",
                      NEW j \in Jobs, error[j] = "parse" \/ j \in heard
               PROVE  DidNotRun(j)'
    OBVIOUS
  <2>1. DidNotRun(j) /\ j # h
    BY <1>1 DEF ScriptInv, NeverSent
  <2>2. QED
    BY <2>1 DEF DidNotRun
<1>9. \A j \in pollers' : target'[j] # 0
  <2>1. \A j \in pollers : j # h /\ j \in Jobs
    BY DEF ScriptInv, TypeOK
  <2>2. QED
    BY <1>2, <1>3, <2>1 DEF ScriptInv
<1>10. QED
  BY <1>5, <1>6, <1>7, <1>8, <1>9 DEF ScriptInv

(* ScriptInv is kept by whatever pumpQueue does.                           *)
LEMMA ScriptPump ==
  ASSUME TypeOK, None \notin Jobs, ScriptInv, psProc' \in 0..MaxProcs,
         submitted' \in Seq(Jobs),
         NEW q \in Seq(Jobs), NEW st \in [Jobs -> Statuses], NEW n, NEW c,
         Books(submitted', q, st, active),
         \A j \in Jobs : st[j] = status[j] \/ (status[j] = "new" /\ st[j] = "queued"),
         \A j \in Jobs : st[j] = "queued" => target[j] = 0,
         PumpQueue(q, st, n, c), UNCHANGED <<executing, files, heard>>
  PROVE  ScriptInv'
<1>1. CASE active # None \/ q = <<>>
  <2>1. status' = st /\ UNCHANGED <<error, active, pollers, stdin, target>>
    BY <1>1 DEF PumpQueue
  <2>2. CASE \E j \in Jobs : target[j] = 0
    BY <2>1, <2>2, ScriptRefuse
  <2>3. CASE \A j \in Jobs : target[j] # 0
    <3>1. \A j \in Jobs : st[j] = status[j]
      BY <2>3
    <3>2. st = status
      BY <3>1 DEF TypeOK
    <3>3. QED
      BY <2>1, <3>2, ScriptFrame
  <2>4. QED
    BY <2>2, <2>3
<1>2. CASE active = None /\ q # <<>>
  <2> DEFINE h == Head(q)
  <2>1. h \in Jobs
    BY <1>2, HeadTailProperties
  <2>2. st[h] = "queued"
    BY <1>2, BooksTake
  <2>3. target[h] = 0
    BY <2>1, <2>2
  <2>4. \A g \in Procs : h \notin InFlight(g)
    BY <2>3, FlightFacts DEF ScriptInv, Procs
  <2>5. Refuse(q, st, n) \/ Send(q, st, n) \/ Wedge(q, st, n, c)
    BY <1>2 DEF PumpQueue
  <2>6. CASE Refuse(q, st, n)
    <3>1. /\ status' = [st EXCEPT ![h] = "error"]
          /\ error' = [error EXCEPT ![h] = "refused"]
          /\ UNCHANGED <<active, pollers, stdin, target>>
      BY <2>6 DEF Refuse
    <3> HIDE DEF h
    <3>2. QED
      BY <2>1, <2>3, <3>1, ScriptRefuse
  <2>7. CASE Send(q, st, n)
    <3>0. psProc' \in Procs
      BY <2>7 DEF Send, Writable, Procs
    <3> PICK p \in Procs : p = psProc'
      BY <3>0
    <3>1. /\ p # 0
          /\ status' = [st EXCEPT ![h] = "running"] /\ active' = h
          /\ pollers' = pollers \cup {h} /\ target' = [target EXCEPT ![h] = p]
          /\ UNCHANGED error
      BY <2>7 DEF Send, Writable, Procs
    <3>2. /\ \A g \in Procs : AtOnePlace(g)'
          /\ \A g \in Procs : \/ InFlight(g)' = InFlight(g)
                              \/ (g = p /\ InFlight(g)' = InFlight(g) \cup {h})
      <4>1. CASE UNCHANGED stdin
        BY <4>1, FlightFrame DEF ScriptInv
      <4>2. CASE stdin' = [stdin EXCEPT ![p] = Append(stdin[p], h)]
        <5> HIDE DEF h
        <5>1. \A g \in Procs : AtOnePlace(g)
          BY DEF ScriptInv
        <5>2. ASSUME NEW g \in Procs
              PROVE  /\ InFlight(g)' = IF g = p THEN InFlight(p) \cup {h} ELSE InFlight(g)
                     /\ AtOnePlace(g) => AtOnePlace(g)'
          <6>1. h \notin InFlight(p)
            BY <2>4
          <6>2. QED
            BY <2>1, <6>1, <4>2, FlightSend
        <5>3. QED
          BY <5>1, <5>2
      <4>3. QED
        BY <2>7, <4>1, <4>2 DEF Send
    <3> HIDE DEF h
    <3>3. p \in 0..MaxProcs
      OBVIOUS
    <3>4. QED
      BY <1>2, <2>1, <2>2, <2>3, <3>1, <3>2, <3>3, ScriptStart
  <2>8. CASE Wedge(q, st, n, c)
    <3>1. /\ status' = [st EXCEPT ![h] = "running"] /\ active' = h
          /\ UNCHANGED <<error, pollers>>
      BY <2>8 DEF Wedge
    <3>2. \A g \in Procs : InFlight(g)' = InFlight(g) /\ AtOnePlace(g)'
      BY <2>8, FlightFrame DEF Wedge, ScriptInv
    <3>3. target' = [target EXCEPT ![h] = 0] /\ 0 \in 0..MaxProcs
      <4>1. [target EXCEPT ![h] = 0] = target
        BY <2>1, <2>3 DEF TypeOK
      <4>2. QED
        BY <2>8, <4>1, SessionAssumption DEF Wedge, SessionAssumption
    <3> HIDE DEF h
    <3>4. QED
      BY <1>2, <2>1, <2>2, <2>3, <3>1, <3>2, <3>3, ScriptStart
  <2>9. QED
    BY <2>5, <2>6, <2>7, <2>8
<1>3. QED
  BY <1>1, <1>2

(* So is it by a submission,                                               *)
LEMMA ScriptRun ==
  ASSUME TypeOK, TypeOK', None \notin Jobs, QueueInv, ScriptInv,
         NEW j \in Jobs, RunInSession(j)
  PROVE  ScriptInv'
<1> DEFINE st == [status EXCEPT ![j] = "queued"]
<1>1. /\ status[j] = "new" /\ submitted' = Append(submitted, j)
      /\ \E c \in BOOLEAN : PumpQueue(Append(queue, j), st, pumps, c)
      /\ UNCHANGED <<executing, files, heard>>
  BY DEF RunInSession
<1>2. Append(queue, j) \in Seq(Jobs) /\ st \in [Jobs -> Statuses]
  BY AppendProperties DEF TypeOK, Statuses
<1>3. Books(submitted', Append(queue, j), st, active)
  BY <1>1, BooksSubmit DEF QueueInv, TypeOK
<1>4. /\ \A k \in Jobs : st[k] = status[k] \/ (status[k] = "new" /\ st[k] = "queued")
      /\ \A k \in Jobs : st[k] = "queued" => target[k] = 0
  BY <1>1 DEF QueueInv, TypeOK
<1>5. psProc' \in 0..MaxProcs /\ submitted' \in Seq(Jobs)
  BY DEF TypeOK
<1> HIDE DEF st
<1>6. QED
  BY <1>1, <1>2, <1>3, <1>4, <1>5, ScriptPump

(* and by a poller that ends its job: a job that ends well, or with the    *)
(* error of its script, has left its result and nothing is in flight for   *)
(* it; one that ends otherwise is given up.                                *)
LEMMA ScriptSettle ==
  ASSUME TypeOK, None \notin Jobs, QueueInv, ScriptInv, NEW j \in pollers,
         NEW v \in Terminal, NEW err \in {"none", "parse", "script", "timeout"},
         Settle(j, v, err),
         files[j] = "none" => v = "error" /\ err \in {"parse", "timeout"},
         err = "parse" => j \in heard
  PROVE  ScriptInv'
<1>1. j \in Jobs /\ j = active /\ active # None
  BY DEF TypeOK, QueueInv, OnlyActivePolled
<1>2. status[j] = "running" /\ error[j] = "none" /\ target[j] # 0
  <2>1. status[j] = "running"
    BY <1>1, ActiveRuns
  <2>2. QED
    BY <1>1, <2>1 DEF ScriptInv, Terminal
<1>3. /\ status' = [status EXCEPT ![j] = v] /\ error' = [error EXCEPT ![j] = err]
      /\ heard' = heard \ {j} /\ pollers' = pollers \ {j} /\ active' = None
      /\ UNCHANGED <<stdin, executing, target, files>>
  BY DEF Settle
<1>4. \A g \in Procs : InFlight(g)' = InFlight(g) /\ AtOnePlace(g)'
  BY <1>3, FlightFrame DEF ScriptInv
<1>5. \A k \in Jobs : k # j => status'[k] = status[k] /\ error'[k] = error[k]
  BY <1>3 DEF TypeOK
<1>6. status'[j] = v /\ error'[j] = err
  BY <1>1, <1>3 DEF TypeOK
<1>7. \A g \in Procs : \A k \in InFlight(g)' :
        target'[k] = g /\ files'[k] = "none" /\ (k = active' \/ Abandoned(k)')
  <2> TAKE g \in Procs
  <2> TAKE k \in InFlight(g)'
  <2>1. k \in InFlight(g) /\ k \in Jobs
    BY <1>4, FlightFacts
  <2>2. target[k] = g /\ files[k] = "none" /\ (k = active \/ Abandoned(k))
    BY <2>1 DEF ScriptInv
  <2>3. CASE k = j
    BY <1>3, <1>6, <2>2, <2>3 DEF Abandoned
  <2>4. CASE k # j
    BY <1>1, <1>3, <1>5, <2>1, <2>2, <2>4 DEF Abandoned
  <2>5. QED
    BY <2>3, <2>4
<1>8. \A k \in Jobs : target'[k] = 0 => NeverSent(k)'
  BY <1>2, <1>3, <1>5 DEF ScriptInv, NeverSent
<1>9. \A k \in Jobs : status'[k] \notin Terminal => error'[k] = "none"
  BY <1>5, <1>6 DEF ScriptInv
<1>10. (\A k \in Jobs : error'[k] # "timeout") =>
         \A k \in Jobs : error'[k] = "parse" \/ k \in heard' => DidNotRun(k)'
  <2> SUFFICES ASSUME \A k \in Jobs : error'[k] # "timeout",
                      NEW k \in Jobs, error'[k] = "parse" \/ k \in heard'
               PROVE  DidNotRun(k)'
    OBVIOUS
  <2>1. \A i \in Jobs : error[i] # "timeout"
    BY <1>2, <1>5
  <2>2. error[k] = "parse" \/ k \in heard
    BY <1>3, <1>5, <1>6
  <2>3. DidNotRun(k)
    BY <2>1, <2>2 DEF ScriptInv
  <2>4. QED
    BY <1>3, <1>4, <2>3 DEF DidNotRun
<1>11. \A k \in pollers' : target'[k] # 0
  BY <1>3 DEF ScriptInv
<1>12. QED
  BY <1>4, <1>7, <1>8, <1>9, <1>10, <1>11 DEF ScriptInv

(* Steps of pwsh and of Node that only take scripts out of flight.         *)
LEMMA ScriptShrink ==
  ASSUME TypeOK, None \notin Jobs, ScriptInv,
         \A g \in Procs : InFlight(g)' \subseteq InFlight(g) /\ AtOnePlace(g)',
         UNCHANGED <<status, error, active, pollers, heard, target, files>>
  PROVE  ScriptInv'
<1>1. \A g \in Procs : \A j \in InFlight(g)' :
        target'[j] = g /\ files'[j] = "none" /\ (j = active' \/ Abandoned(j)')
  BY DEF ScriptInv, Abandoned
<1>2. \A j \in Jobs : DidNotRun(j) => DidNotRun(j)'
  BY DEF DidNotRun
<1>3. QED
  BY <1>1, <1>2 DEF ScriptInv, NeverSent

(* The script that ends is that of one job, and in flight nowhere else.    *)
LEMMA ScriptOut ==
  ASSUME TypeOK, None \notin Jobs, ScriptInv, NEW h \in Procs, executing[h] # None,
         executing' = [executing EXCEPT ![h] = None], UNCHANGED stdin
  PROVE  /\ executing[h] \in Jobs /\ target[executing[h]] = h /\ h # 0
         /\ files[executing[h]] = "none"
         /\ executing[h] = active \/ Abandoned(executing[h])
         /\ executing[h] \in InFlight(h)
         /\ \A g \in Procs : /\ InFlight(g)' \subseteq InFlight(g)
                             /\ executing[h] \notin InFlight(g)'
                             /\ AtOnePlace(g)'
<1> DEFINE e == executing[h]
<1>1. e \in Jobs /\ e \in InFlight(h)
  BY FlightFacts
<1>2. \A g \in Procs : e \in InFlight(g) => g = h
  BY <1>1 DEF ScriptInv
<1>3. \A g \in Procs :
        /\ InFlight(g)' = IF g = h THEN InFlight(h) \ {e} ELSE InFlight(g)
        /\ AtOnePlace(g)'
  BY FlightEnds DEF ScriptInv
<1>4. target[e] = h /\ files[e] = "none" /\ (e = active \/ Abandoned(e))
  BY <1>1 DEF ScriptInv
<1>5. h # 0
  BY DEF Procs
<1>6. QED
  BY <1>1, <1>2, <1>3, <1>4, <1>5

(* A script ends and leaves its result.                                    *)
LEMMA ScriptFinish ==
  ASSUME TypeOK, None \notin Jobs, ScriptInv, NEW h \in Procs, FinishScript(h)
  PROVE  ScriptInv'
<1> DEFINE e == executing[h]
<1>1. /\ e # None /\ executing' = [executing EXCEPT ![h] = None]
      /\ UNCHANGED <<status, error, active, pollers, heard, target, stdin>>
  BY DEF FinishScript, jobVars
<1>2. PICK r \in Results \ {"none"} : files' = [files EXCEPT ![e] = r]
  BY DEF FinishScript
<1>3. /\ e \in Jobs /\ target[e] = h /\ h # 0 /\ e \in InFlight(h)
      /\ \A g \in Procs : /\ InFlight(g)' \subseteq InFlight(g)
                          /\ e \notin InFlight(g)' /\ AtOnePlace(g)'
  BY <1>1, ScriptOut
<1>4. \A j \in Jobs : j # e => files'[j] = files[j]
  BY <1>2 DEF TypeOK
<1> HIDE DEF e
<1>5. \A g \in Procs : \A j \in InFlight(g)' :
        target'[j] = g /\ files'[j] = "none" /\ (j = active' \/ Abandoned(j)')
  <2> TAKE g \in Procs
  <2> TAKE j \in InFlight(g)'
  <2>1. j \in InFlight(g) /\ j # e /\ j \in Jobs
    BY <1>3, FlightFacts
  <2>2. target[j] = g /\ files[j] = "none" /\ (j = active \/ Abandoned(j))
    BY <2>1 DEF ScriptInv
  <2>3. QED
    BY <1>1, <1>4, <2>1, <2>2 DEF Abandoned
<1>6. \A j \in Jobs : target'[j] = 0 => NeverSent(j)'
  BY <1>1, <1>3, <1>4 DEF ScriptInv, NeverSent
<1>7. \A j \in Jobs : DidNotRun(j) => DidNotRun(j)'
  BY <1>3, <1>4 DEF DidNotRun
<1>8. QED
  BY <1>1, <1>3, <1>5, <1>6, <1>7 DEF ScriptInv

(* A script does not parse: as long as no job has timed out, the job that  *)
(* listens to the process is the one whose script it was.                  *)
LEMMA ScriptParse ==
  ASSUME TypeOK, None \notin Jobs, QueueInv, ScriptInv,
         NEW h \in Procs, ScriptDoesNotParse(h)
  PROVE  ScriptInv'
<1>0. executing[h] \in Jobs
  BY SessionAssumption DEF ScriptDoesNotParse, SessionAssumption
<1> PICK e \in Jobs : e = executing[h]
  BY <1>0
<1>1. /\ e # None /\ executing' = [executing EXCEPT ![h] = None]
      /\ heard' = heard \cup {j \in pollers : target[j] = h}
      /\ UNCHANGED <<status, error, active, pollers, target, stdin, files>>
  BY SessionAssumption DEF ScriptDoesNotParse, jobVars, SessionAssumption
<1>2. /\ e \in Jobs /\ h # 0 /\ files[e] = "none" /\ (e = active \/ Abandoned(e))
      /\ e \in InFlight(h)
      /\ \A g \in Procs : /\ InFlight(g)' \subseteq InFlight(g)
                          /\ e \notin InFlight(g)' /\ AtOnePlace(g)'
  BY <1>1, ScriptOut
<1>3. \A g \in Procs : \A j \in InFlight(g)' :
        target'[j] = g /\ files'[j] = "none" /\ (j = active' \/ Abandoned(j)')
  BY <1>1, <1>2 DEF ScriptInv, Abandoned
<1>4. \A j \in Jobs : target'[j] = 0 => NeverSent(j)'
  BY <1>1, <1>2 DEF ScriptInv, NeverSent
<1>5. \A j \in Jobs : DidNotRun(j) => DidNotRun(j)'
  BY <1>1, <1>2 DEF DidNotRun
<1>6. DidNotRun(e)'
  BY <1>1, <1>2 DEF DidNotRun
<1>7. (\A j \in Jobs : error[j] # "timeout") =>
        \A j \in Jobs : error[j] = "parse" \/ j \in heard' => DidNotRun(j)'
  <2> SUFFICES ASSUME \A j \in Jobs : error[j] # "timeout",
                      NEW j \in Jobs, error[j] = "parse" \/ j \in heard'
               PROVE  DidNotRun(j)'
    OBVIOUS
  <2>1. CASE error[j] = "parse" \/ j \in heard
    BY <1>5, <2>1 DEF ScriptInv
  <2>2. CASE j \in pollers
    <3>1. error[e] # "parse"
      BY <1>2 DEF ScriptInv, DidNotRun
    <3>2. e = active
      BY <1>2, <3>1 DEF Abandoned
    <3>3. j = e
      BY <2>2, <3>2 DEF QueueInv, OnlyActivePolled
    <3>4. QED
      BY <1>6, <3>3
  <2>3. QED
    BY <1>1, <2>1, <2>2
<1>8. QED
  BY <1>1, <1>2, <1>3, <1>4, <1>7 DEF ScriptInv

(***************************************************************************)
(* The scripts a session has written are where they belong, in every       *)
(* interleaving of pollers, pumps, crashes, restarts and of the processes  *)
(* that read them: at one place, without a result, and, but for that of    *)
(* the active job, given up by their jobs.                                 *)
(***************************************************************************)
THEOREM ScriptInvariant == Spec => []ScriptInv
<1>1. Init => ScriptInv
  <2> SUFFICES ASSUME Init PROVE ScriptInv
    OBVIOUS
  <2>1. Len(<<>>) = 0 /\ 1..0 = {}
    BY EmptySeq
  <2>2. \A g \in Procs : InFlight(g) = {} /\ AtOnePlace(g)
    BY <2>1 DEF Init, InFlight, Unread, AtOnePlace
  <2>3. QED
    BY <2>2 DEF Init, ScriptInv, NeverSent, DidNotRun, Terminal
<1>2. TypeOK /\ TypeOK' /\ QueueInv /\ ScriptInv /\ [Next]_vars => ScriptInv'
  <2> SUFFICES ASSUME TypeOK, TypeOK', QueueInv, ScriptInv, [Next]_vars
               PROVE  ScriptInv'
    OBVIOUS
  <2>1. None \notin Jobs
    BY SessionAssumption DEF SessionAssumption
  <2>2. CASE UNCHANGED vars
    BY <2>2, ScriptFrame DEF vars, jobVars, pwshVars
  <2>3. ASSUME NEW j \in Jobs, RequestJob(j) \/ HolderJob(j) PROVE ScriptInv'
    BY <2>1, <2>3, ScriptRun DEF RequestJob, HolderJob
  <2>4. ASSUME NEW j \in Jobs, PollParseError(j) PROVE ScriptInv'
    BY <2>1, <2>4, ScriptSettle DEF PollParseError, Terminal
  <2>5. ASSUME NEW j \in Jobs, PollDone(j) PROVE ScriptInv'
    BY <2>1, <2>5, ScriptSettle DEF PollDone, Terminal
  <2>6. ASSUME NEW j \in Jobs, PollTimeout(j) PROVE ScriptInv'
    BY <2>1, <2>6, ScriptSettle DEF PollTimeout, Terminal
  <2>7. CASE PumpTick
    <3>1. /\ PumpQueue(queue, status, pumps - 1, FALSE)
          /\ UNCHANGED <<submitted, executing, files, heard>>
      BY <2>7 DEF PumpTick
    <3>2. Books(submitted', queue, status, active)
      BY <3>1 DEF QueueInv
    <3>3. \A j \in Jobs : status[j] = "queued" => target[j] = 0
      BY DEF QueueInv
    <3>4. /\ psProc' \in 0..MaxProcs /\ submitted' \in Seq(Jobs)
          /\ queue \in Seq(Jobs) /\ status \in [Jobs -> Statuses]
      BY DEF TypeOK
    <3>5. QED
      BY <2>1, <3>1, <3>2, <3>3, <3>4, ScriptPump
  <2>8. CASE ResolveSession \/ RestartSession \/ RestartTimer \/ DestroySession
    BY <2>8, ScriptFrame
    DEF ResolveSession, RestartSession, RestartTimer, DestroySession, jobVars, pwshVars
  <2>9. ASSUME NEW g \in Procs, ExitNoticed(g) \/ CloseEvent(g) PROVE ScriptInv'
    BY <2>9, ScriptFrame DEF ExitNoticed, CloseEvent, jobVars, pwshVars
  <2>10. ASSUME NEW g \in Procs, ProcessEnds(g) PROVE ScriptInv'
    <3>1. \A i \in Procs : InFlight(i)' \subseteq InFlight(i) /\ AtOnePlace(i)'
      BY <2>10, FlightDies DEF ScriptInv
    <3>2. QED
      BY <2>1, <2>10, <3>1, ScriptShrink DEF ProcessEnds, jobVars
  <2>11. ASSUME NEW g \in Procs, ReadScript(g) PROVE ScriptInv'
    <3>1. \A i \in Procs : InFlight(i)' \subseteq InFlight(i) /\ AtOnePlace(i)'
      BY <2>1, <2>11, FlightRead DEF ScriptInv
    <3>2. QED
      BY <2>1, <2>11, <3>1, ScriptShrink DEF ReadScript, jobVars
  <2>12. ASSUME NEW g \in Procs, FinishScript(g) \/ ScriptDoesNotParse(g)
         PROVE  ScriptInv'
    BY <2>1, <2>12, ScriptFinish, ScriptParse
  <2>13. QED
    BY <2>2, <2>3, <2>4, <2>5, <2>6, <2>7, <2>8, <2>9, <2>10, <2>11, <2>12 DEF Next, Poll
<1>3. QED
  BY <1>1, <1>2, TypeCorrect, QueueInvariant, PTL DEF Spec

(***************************************************************************)
(* A script that runs or waits in a pipe is that of the active job or of   *)
(* one that timed out or was told it does not parse: no job is reported    *)
(* completed, or in error by its script, while that script still runs.     *)
(***************************************************************************)
THEOREM OnlyAbandonedInFlight == Spec => []OnlyAbandonedScriptsLinger
<1>1. ScriptInv => OnlyAbandonedScriptsLinger
  BY DEF ScriptInv, OnlyAbandonedScriptsLinger, Abandoned
<1>2. QED
  BY <1>1, ScriptInvariant, PTL

(***************************************************************************)
(* As long as no job has timed out, a job that is told its file does not   *)
(* parse is the one whose file it was, and nothing of it has run or will.  *)
(***************************************************************************)
THEOREM ParseErrorIsNotBorrowed == Spec => []ParseErrorIsOwn
<1>1. ScriptInv => ParseErrorIsOwn
  BY DEF ScriptInv, ParseErrorIsOwn, DidNotRun
<1>2. QED
  BY <1>1, ScriptInvariant, PTL
=============================================================================
