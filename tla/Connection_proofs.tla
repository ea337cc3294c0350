------------------------- MODULE Connection_proofs -------------------------
(***************************************************************************)
(* Proofs about Connection: its steps are steps of Session, so that what   *)
(* is proved of a session holds of one under the connection routes; what   *)
(* becomes of a staged certificate; its types; and that what the pwsh is   *)
(* connected to, and a prompt on the page, are always known to somebody.   *)
(***************************************************************************)
EXTENDS Connection, Session_proofs

(* What a step of the routes does to the session.                          *)
LEMMA ConnStepIsStep == [ConnNext]_allVars => [Next]_vars
<1> SUFFICES ASSUME [ConnNext]_allVars PROVE [Next]_vars
  OBVIOUS
<1>1. ASSUME NEW j \in Jobs, NEW s \in Services, NEW t \in Tenants,
             Connect(j, s, t) \/ ConnectAppOnly(j, s, t)
      PROVE  Next
  BY <1>1 DEF Connect, ConnectAppOnly, Next
<1>2. ASSUME NEW j \in Jobs,
             CertStaged(j) \/ Disconnect(j) \/ Browse(j) \/ Report(j) \/ PollInTurn(j)
      PROVE  Next
  BY <1>2 DEF CertStaged, Disconnect, Browse, Report, PollInTurn, Next
<1>3. ASSUME NEW j \in Jobs, StagingFails(j) \/ Watch(j) \/ GiveUpWaiting(j)
      PROVE  UNCHANGED vars
  BY <1>3 DEF StagingFails, Watch, Record, GiveUpWaiting
<1>4. CASE OnlyResolve \/ Restart \/ Evict
  BY <1>4 DEF OnlyResolve, Restart, Evict, Next
<1>5. CASE PumpTick \/ RestartTimer
  BY <1>5 DEF Next
<1>6. ASSUME NEW g \in Procs,
             \/ Finish(g) \/ Prompt(g) \/ End(g)
             \/ ExitNoticed(g) \/ CloseEvent(g) \/ ReadScript(g) \/ ScriptDoesNotParse(g)
      PROVE  Next \/ UNCHANGED vars
  BY <1>6 DEF Finish, Prompt, End, Next
<1>7. CASE UNCHANGED allVars
  BY <1>7 DEF allVars
<1>8. QED
  BY <1>1, <1>2, <1>3, <1>4, <1>5, <1>6, <1>7 DEF ConnNext

(***************************************************************************)
(* The connection routes use a session only as any request does: every     *)
(* behaviour of theirs is one of Session.                                  *)
(***************************************************************************)
THEOREM ConnectionImplementsSession == ConnSpec => Spec
<1>1. ConnInit => Init
  BY DEF ConnInit
<1>2. QED
  BY <1>1, ConnStepIsStep, PTL DEF ConnSpec, Spec

(***************************************************************************)
(* So connects, disconnects and cached reads are served in the order in    *)
(* which they were asked for, one at a time, each once.                    *)
(***************************************************************************)
THEOREM ConnectionKeepsFifo == ConnSpec => IsFifoService
BY ConnectionImplementsSession, ImplementsFifo

(* A connect that gave up stages no more; and whatever stages for a        *)
(* session that has been evicted was at it when that happened.             *)
CertInv ==
  /\ staging \cap gaveUp = {}
  /\ ~pooled => /\ staging \subseteq late
                /\ cert => \E j \in late : j \notin staging \cup gaveUp

(***************************************************************************)
(* In whatever order connects, fetches, failures, restarts and eviction    *)
(* come, an evicted session leaves a certificate on disk only through a    *)
(* connect that was still fetching it when the session was evicted.        *)
(***************************************************************************)
THEOREM LateCertOnly == ConnSpec => []CertOnlyOfLateConnect
<1>1. ConnInit => CertInv
  BY DEF ConnInit, Init, CertInv
<1>2. CertInv /\ [ConnNext]_allVars => CertInv'
  <2> SUFFICES ASSUME CertInv, [ConnNext]_allVars PROVE CertInv'
    OBVIOUS
  <2>1. ASSUME NEW j \in Jobs, NEW s \in Services, NEW t \in Tenants, Connect(j, s, t)
        PROVE  CertInv'
    BY <2>1 DEF Connect, RequestJob, CertInv
  <2>2. ASSUME NEW j \in Jobs, NEW s \in Services, NEW t \in Tenants, ConnectAppOnly(j, s, t)
        PROVE  CertInv'
    BY <2>2 DEF ConnectAppOnly, Fresh, ResolveSession, GetSession, CertInv
  <2>3. ASSUME NEW j \in Jobs, CertStaged(j)
        PROVE  CertInv'
    BY <2>3 DEF CertStaged, HolderJob, procVars, CertInv
  <2>4. ASSUME NEW j \in Jobs, StagingFails(j)
        PROVE  CertInv'
    BY <2>4 DEF StagingFails, vars, procVars, CertInv
  <2>5. ASSUME NEW j \in Jobs, Disconnect(j) \/ Browse(j)
        PROVE  CertInv'
    BY <2>5 DEF Disconnect, Browse, RequestJob, CertInv
  <2>6. ASSUME NEW j \in Jobs, Report(j)
        PROVE  CertInv'
    BY <2>6 DEF Report, RequestJob, HolderJob, procVars, connVars, CertInv
  <2>7. ASSUME NEW j \in Jobs, Watch(j) \/ GiveUpWaiting(j)
        PROVE  CertInv'
    BY <2>7 DEF Watch, Record, GiveUpWaiting, vars, procVars, CertInv
  <2>8. ASSUME NEW j \in Jobs, PollInTurn(j)
        PROVE  CertInv'
    BY <2>8 DEF PollInTurn, Poll, PollParseError, PollDone, PollTimeout, Settle,
                procVars, connVars, CertInv
  <2>9. CASE OnlyResolve \/ Restart
    BY <2>9 DEF OnlyResolve, ResolveSession, Restart, RestartSession, CertInv
  <2>10. CASE Evict
    BY <2>10 DEF Evict, CertInv
  <2>11. CASE (PumpTick \/ RestartTimer) /\ UNCHANGED connVars
    BY <2>11 DEF PumpTick, RestartTimer, procVars, connVars, CertInv
  <2>12. ASSUME NEW g \in Procs, Finish(g) \/ Prompt(g) \/ End(g)
         PROVE  CertInv'
    BY <2>12 DEF Finish, FinishScript, Prompt, End, ProcessEnds, vars, procVars, CertInv
  <2>13. ASSUME NEW g \in Procs,
                ExitNoticed(g) \/ CloseEvent(g) \/ ReadScript(g) \/ ScriptDoesNotParse(g),
                UNCHANGED connVars
         PROVE  CertInv'
    BY <2>13 DEF ExitNoticed, CloseEvent, ReadScript, ScriptDoesNotParse, procVars,
                 connVars, CertInv
  <2>14. CASE UNCHANGED allVars
    BY <2>14 DEF allVars, vars, procVars, connVars, CertInv
  <2>15. QED
    BY <2>1, <2>2, <2>3, <2>4, <2>5, <2>6, <2>7, <2>8, <2>9, <2>10, <2>11, <2>12, <2>13,
       <2>14 DEF ConnNext
<1>3. CertInv => CertOnlyOfLateConnect
  BY DEF CertInv, CertOnlyOfLateConnect
<1>4. QED
  BY <1>1, <1>2, <1>3, PTL DEF ConnSpec

-----------------------------------------------------------------------------
(* Types.                                                                  *)

(***************************************************************************)
(* Every variable of the routes keeps its type; in particular what a pwsh  *)
(* is linked to, and what the banner says, is a tenant or nothing.         *)
(***************************************************************************)
THEOREM ConnTypeCorrect == ConnSpec => []ConnTypeOK
<1>1. ConnInit /\ TypeOK => ConnTypeOK
  <2> SUFFICES ASSUME ConnInit, TypeOK PROVE ConnTypeOK
    OBVIOUS
  <2>1. /\ kind \in [Jobs -> Kinds \cup {None}]
        /\ goal \in [Jobs -> Tenants \cup {None}]
        /\ result \in [Jobs -> Tenants \cup {None}]
        /\ info \in Links /\ linked \in [Procs -> Links]
    BY DEF ConnInit, Links, NoLink
  <2>2. /\ staging \in SUBSET Jobs /\ gaveUp \in SUBSET Jobs /\ watchers \in SUBSET Jobs
        /\ cache \in Tenants \cup {None} /\ cert \in BOOLEAN /\ code \in BOOLEAN
        /\ late \in SUBSET Jobs
    BY DEF ConnInit
  <2>3. QED
    BY <2>1, <2>2 DEF ConnTypeOK
<1>2. ConnTypeOK /\ TypeOK' /\ [ConnNext]_allVars => ConnTypeOK'
  <2> SUFFICES ASSUME ConnTypeOK, TypeOK', [ConnNext]_allVars PROVE ConnTypeOK'
    OBVIOUS
  <2>1. UNCHANGED connVars => ConnTypeOK'
    BY DEF connVars, ConnTypeOK
  <2>2. ASSUME NEW j \in Jobs, NEW s \in Services, NEW t \in Tenants, Connect(j, s, t)
        PROVE  ConnTypeOK'
    BY <2>2 DEF Connect, ConnTypeOK, Kinds
  <2>3. ASSUME NEW j \in Jobs, NEW s \in Services, NEW t \in Tenants, ConnectAppOnly(j, s, t)
        PROVE  ConnTypeOK'
    BY <2>3 DEF ConnectAppOnly, ConnTypeOK, Kinds
  <2>4. ASSUME NEW j \in Jobs, CertStaged(j) \/ StagingFails(j) PROVE ConnTypeOK'
    BY <2>4 DEF CertStaged, StagingFails, ConnTypeOK
  <2>5. ASSUME NEW j \in Jobs, Disconnect(j) PROVE ConnTypeOK'
    <3>1. NoLink \in Links
      BY DEF NoLink, Links
    <3>2. QED
      BY <2>5, <3>1 DEF Disconnect, ConnTypeOK, Kinds
  <2>6. ASSUME NEW j \in Jobs, Browse(j) PROVE ConnTypeOK'
    BY <2>6 DEF Browse, ConnTypeOK, Kinds
  <2>7. ASSUME NEW j \in Jobs, Report(j) \/ PollInTurn(j) PROVE ConnTypeOK'
    BY <2>1, <2>7 DEF Report, PollInTurn
  <2>8. ASSUME NEW j \in Jobs, Watch(j) PROVE ConnTypeOK'
    <3>1. Output(j) \in Tenants \cup {None}
      BY DEF Output, ConnTypeOK
    <3>2. watchers' \in SUBSET Jobs
      BY <2>8 DEF Watch, Record, ConnTypeOK
    <3>3. info' \in Links
      BY <2>8, <3>1 DEF Watch, Record, ConnTypeOK, Links
    <3>4. cache' \in Tenants \cup {None}
      BY <2>8, <3>1 DEF Watch, Record, ConnTypeOK
    <3>5. code' \in BOOLEAN
      BY <2>8 DEF Watch, ClearDeviceCode
    <3>6. QED
      BY <2>8, <3>2, <3>3, <3>4, <3>5 DEF Watch, Record, ConnTypeOK
  <2>9. ASSUME NEW j \in Jobs, GiveUpWaiting(j) PROVE ConnTypeOK'
    BY <2>9 DEF GiveUpWaiting, ConnTypeOK
  <2>10. CASE OnlyResolve
    BY <2>10 DEF OnlyResolve, ConnTypeOK
  <2>11. CASE Restart \/ Evict
    <3>1. NoLink \in Links
      BY DEF NoLink, Links
    <3>2. QED
      BY <2>11, <3>1 DEF Restart, Evict, ConnTypeOK
  <2>12. ASSUME NEW g \in Procs, Finish(g) PROVE ConnTypeOK'
    <3> DEFINE j == executing[g]
               r == files'[j]
    <3>1. j \in Jobs
      BY <2>12 DEF Finish, FinishScript, ConnTypeOK, TypeOK
    <3>2. UNCHANGED <<kind, goal, staging, gaveUp, watchers, info, cache, cert, code, late>>
      BY <2>12 DEF Finish
    <3>3. ASSUME kind[j] \in Services, ConnectScript(g, kind[j], goal[j], r)
          PROVE  linked' \in [Procs -> Links]
      <4>1. PICK v \in Leaves(g, kind[j], goal[j], r) :
              linked' = [linked EXCEPT ![g][kind[j]] = v]
        BY <3>3 DEF ConnectScript
      <4>2. goal[j] \in Tenants \cup {None} /\ linked[g][kind[j]] \in Tenants \cup {None}
        BY <3>1, <3>3 DEF ConnTypeOK, Links
      <4>3. v \in Tenants \cup {None}
        BY <4>1, <4>2 DEF Leaves
      <4>4. QED
        BY <3>3, <4>1, <4>3 DEF ConnTypeOK, Links
    <3>4. ASSUME DisconnectScript(g) PROVE linked' \in [Procs -> Links]
      <4>1. linked[g]["exchange"] \in Tenants \cup {None}
        BY DEF ConnTypeOK, Links, Services
      <4>2. PICK v \in Links : linked' = [linked EXCEPT ![g] = v]
        BY <3>4, <4>1 DEF DisconnectScript, Links
      <4>3. QED
        BY <4>2 DEF ConnTypeOK
    <3>5. linked' \in [Procs -> Links]
      BY <2>12, <3>3, <3>4 DEF Finish, ConnTypeOK
    <3>6. result' \in [Jobs -> Tenants \cup {None}]
      <4>1. goal[j] \in Tenants \cup {None} /\ linked[g]["graph"] \in Tenants \cup {None}
        BY <3>1 DEF ConnTypeOK, Links, Services
      <4>2. \/ UNCHANGED result
            \/ \E v \in Tenants \cup {None} : result' = [result EXCEPT ![j] = v]
        BY <2>12, <4>1 DEF Finish
      <4>3. QED
        BY <4>2 DEF ConnTypeOK
    <3>7. QED
      BY <3>2, <3>5, <3>6 DEF ConnTypeOK
  <2>13. ASSUME NEW g \in Procs, Prompt(g) PROVE ConnTypeOK'
    BY <2>13 DEF Prompt, ConnTypeOK
  <2>14. ASSUME NEW g \in Procs, End(g) PROVE ConnTypeOK'
    BY <2>14 DEF End, ConnTypeOK, NoLink, Links
  <2>15. CASE UNCHANGED allVars
    BY <2>1, <2>15 DEF allVars
  <2>16. QED
    BY <2>1, <2>2, <2>3, <2>4, <2>5, <2>6, <2>7, <2>8, <2>9, <2>10, <2>11, <2>12, <2>13,
       <2>14, <2>15 DEF ConnNext
<1>3. QED
  BY <1>1, <1>2, ConnectionImplementsSession, TypeCorrect, PTL DEF ConnSpec

-----------------------------------------------------------------------------
(* What the routes rely on of a step of the session. It is said once, for  *)
(* every step but those of a poller: a job among "fresh" is submitted, or  *)
(* none is.                                                                *)

(* As long as nothing is refused, jobs only move on in the queue, and a    *)
(* job becomes the active one only as it is sent.                          *)
Calm ==
  /\ \A k \in Jobs : \/ status'[k] = status[k]
                     \/ /\ status[k] \in {"new", "queued"}
                        /\ status'[k] \in {"queued", "running"}
  /\ \A k \in Jobs : status[k] = "error" => error'[k] = error[k]
  /\ \/ active' = active /\ (active # None => target'[active] = target[active])
     \/ /\ active = None /\ active' \in Jobs
        /\ files[active'] = "none" /\ target'[active'] = psProc'

SessionStep(fresh) ==
  /\ UNCHANGED files
  /\ \A k \in Jobs : status'[k] # status[k] => k \in fresh \/ status[k] = "queued"
  /\ \A k \in Jobs : status[k] \in Terminal => status'[k] = status[k]
  /\ \A k \in Jobs : error[k] = "timeout" => error'[k] = "timeout"
  /\ \A k \in Jobs : target'[k] = target[k] \/ target'[k] = psProc'
  /\ OnlyScriptErrors' => Calm

(* A step that leaves the jobs alone is one.                               *)
LEMMA StillStep ==
  ASSUME UNCHANGED <<status, error, active, target, files>>
  PROVE  SessionStep({})
BY DEF SessionStep, Calm

(* pumpQueue is one, ...                                                   *)
LEMMA PumpStep ==
  ASSUME TypeOK, None \notin Jobs, "disk" \notin Faults, ScriptInv,
         submitted' \in Seq(Jobs),
         NEW fresh \in SUBSET Jobs,
         NEW q \in Seq(Jobs), NEW st \in [Jobs -> Statuses], NEW n, NEW c,
         Books(submitted', q, st, active),
         \A k \in Jobs : \/ st[k] = status[k]
                         \/ k \in fresh /\ status[k] = "new" /\ st[k] = "queued",
         \A k \in Jobs : st[k] = "queued" => target[k] = 0,
         PumpQueue(q, st, n, c), UNCHANGED files
  PROVE  SessionStep(fresh)
<1>1. CASE active # None \/ q = <<>>
  <2>1. status' = st /\ UNCHANGED <<error, active, target>>
    BY <1>1 DEF PumpQueue
  <2>2. QED
    BY <2>1 DEF SessionStep, Calm, Terminal
<1>2. CASE active = None /\ q # <<>>
  <2> DEFINE h == Head(q)
  <2>1. h \in Jobs
    BY <1>2, HeadTailProperties
  <2>2. st[h] = "queued"
    BY <1>2, BooksTake
  <2>3. NeverSent(h)
    BY <2>1, <2>2 DEF ScriptInv
  <2>4. Refuse(q, st, n) \/ Send(q, st, n)
    BY <1>2 DEF PumpQueue, Wedge
  <2> HIDE DEF h
  <2>5. /\ status[h] = "queued" \/ (h \in fresh /\ status[h] = "new")
        /\ \A k \in Jobs : k # h => status'[k] = st[k]
        /\ \A k \in Jobs : k # h => error'[k] = error[k]
    BY <2>1, <2>2, <2>4 DEF Refuse, Send, TypeOK, h
  <2>6. error[h] # "timeout"
    BY <2>3 DEF NeverSent
  <2>7. /\ \A k \in Jobs : status'[k] # status[k] => k \in fresh \/ status[k] = "queued"
        /\ \A k \in Jobs : status[k] \in Terminal => status'[k] = status[k]
        /\ \A k \in Jobs : error[k] = "timeout" => error'[k] = "timeout"
        /\ \A k \in Jobs : k # h /\ status[k] = "error" => error'[k] = error[k]
    BY <2>1, <2>5, <2>6 DEF Terminal
  <2>8. CASE Refuse(q, st, n)
    <3>1. status'[h] = "error" /\ error'[h] = "refused"
      BY <2>1, <2>8 DEF Refuse, TypeOK, h
    <3>2. ~OnlyScriptErrors'
      BY <2>1, <3>1 DEF OnlyScriptErrors
    <3>3. UNCHANGED target
      BY <2>8 DEF Refuse
    <3>4. QED
      BY <2>7, <3>2, <3>3 DEF SessionStep
  <2>9. CASE Send(q, st, n)
    <3>1. /\ status'[h] = "running" /\ UNCHANGED error /\ active' = h
          /\ target' = [target EXCEPT ![h] = psProc']
      BY <2>1, <2>9 DEF Send, TypeOK, h
    <3>2. /\ target'[h] = psProc'
          /\ \A k \in Jobs : target'[k] = target[k] \/ target'[k] = psProc'
      BY <2>1, <3>1 DEF TypeOK
    <3>3. Calm
      BY <1>2, <2>1, <2>3, <2>5, <3>1, <3>2 DEF Calm, NeverSent
    <3>4. QED
      BY <2>7, <3>2, <3>3 DEF SessionStep
  <2>10. QED
    BY <2>4, <2>8, <2>9
<1>3. QED
  BY <1>1, <1>2

(* ... and with it a submission                                            *)
LEMMA RunStep ==
  ASSUME TypeOK, TypeOK', None \notin Jobs, "disk" \notin Faults, QueueInv, ScriptInv,
         NEW j \in Jobs, RunInSession(j)
  PROVE  SessionStep({j})
<1> DEFINE st == [status EXCEPT ![j] = "queued"]
<1>1. /\ status[j] = "new" /\ submitted' = Append(submitted, j)
      /\ \E c \in BOOLEAN : PumpQueue(Append(queue, j), st, pumps, c)
      /\ UNCHANGED files
  BY DEF RunInSession
<1>2. Append(queue, j) \in Seq(Jobs) /\ st \in [Jobs -> Statuses]
  BY AppendProperties DEF TypeOK, Statuses
<1>3. Books(submitted', Append(queue, j), st, active)
  BY <1>1, BooksSubmit DEF QueueInv, TypeOK
<1>4. /\ \A k \in Jobs : \/ st[k] = status[k]
                         \/ k \in {j} /\ status[k] = "new" /\ st[k] = "queued"
      /\ \A k \in Jobs : st[k] = "queued" => target[k] = 0
  BY <1>1 DEF QueueInv, TypeOK
<1>5. submitted' \in Seq(Jobs)
  BY DEF TypeOK
<1> HIDE DEF st
<1>6. QED
  BY <1>1, <1>2, <1>3, <1>4, <1>5, PumpStep

(* and the setImmediate of finishActive.                                   *)
LEMMA TickStep ==
  ASSUME TypeOK, TypeOK', None \notin Jobs, "disk" \notin Faults, QueueInv, ScriptInv, PumpTick
  PROVE  SessionStep({})
<1>1. /\ PumpQueue(queue, status, pumps - 1, FALSE)
      /\ UNCHANGED <<submitted, files>>
  BY DEF PumpTick
<1>2. Books(submitted', queue, status, active)
  BY <1>1 DEF QueueInv
<1>3. \A k \in Jobs : status[k] = "queued" => target[k] = 0
  BY DEF QueueInv
<1>4. submitted' \in Seq(Jobs) /\ queue \in Seq(Jobs) /\ status \in [Jobs -> Statuses]
  BY DEF TypeOK
<1>5. QED
  BY <1>1, <1>2, <1>3, <1>4, PumpStep

(* Processes are numbered as they are spawned.                             *)
Numbered == psProc' = psProc \/ (psProc' = psProc + 1 /\ psProc' \in Procs)

(* getSession, restartSession and its timer spawn one process at most.     *)
LEMMA SpawnStep ==
  ASSUME TypeOK, Spawns \/ StartSession \/ GetSession
  PROVE  Numbered
<1>1. CASE Spawns
  BY <1>1, SessionAssumption DEF Spawns, TypeOK, Procs, Numbered, SessionAssumption
<1>2. CASE UNCHANGED psProc
  BY <1>2 DEF Numbered
<1>3. QED
  BY <1>1, <1>2 DEF StartSession, GetSession

(* What the session's pwsh is linked to, in a step in which nothing is     *)
(* linked: as before, or nothing if it is a new process.                   *)
LEMMA LinksKept ==
  ASSUME ConnTypeOK, OnlySpawnedLinked, Numbered,
         \A g \in Procs : linked'[g] = linked[g] \/ linked'[g] = NoLink
  PROVE  /\ \A s \in Services : Link(s)' = None \/ Link(s)' = Link(s)
         /\ psProc' # psProc => \A s \in Services : Link(s)' = None
<1>1. \A s \in Services : NoLink[s] = None
  BY DEF NoLink
<1>2. CASE psProc' = psProc
  <2>1. psProc = 0 \/ psProc \in Procs
    BY SessionAssumption DEF ConnTypeOK, TypeOK, Procs, SessionAssumption
  <2>2. QED
    BY <1>1, <1>2, <2>1 DEF Link
<1>3. CASE psProc' # psProc
  <2>1. psProc' \in Procs /\ psProc' > psProc
    BY <1>3, SessionAssumption DEF Numbered, ConnTypeOK, TypeOK, SessionAssumption
  <2>2. linked'[psProc'] = NoLink
    BY <2>1 DEF OnlySpawnedLinked
  <2>3. QED
    BY <1>1, <2>2 DEF Link
<1>4. QED
  BY <1>2, <1>3

-----------------------------------------------------------------------------
(* The connection.                                                         *)

(* What the steps of the routes, of Node and of pwsh other than watchers,  *)
(* pollers and scripts that end leave of the connection.                   *)
RouteStep(fresh) ==
  /\ SessionStep(fresh)
  /\ Numbered
  /\ killed \subseteq killed'
  /\ \A g \in Procs : linked'[g] = linked[g] \/ linked'[g] = NoLink
  /\ UNCHANGED result
  /\ \A k \in Jobs : kind'[k] = kind[k] \/ (kind[k] = None /\ status[k] = "new")
  /\ \A k \in watchers' : k \in watchers \/ status[k] = "new"
  /\ \A k \in watchers : k \in watchers' \/ kind[k] = "browse"
  /\ \A k \in Jobs : kind'[k] # kind[k] \/ k \in fresh =>
                       k \in watchers' \/ kind'[k] \notin Services \/ status'[k] = "new"
  /\ OnlyScriptErrors' => info' = info \/ Leaving' \/ psProc' \in killed' \cup {0}

(* They keep a connect watched,                                            *)
LEMMA RouteWatched ==
  ASSUME ConnTypeOK, ConnectWatched, NEW fresh, RouteStep(fresh)
  PROVE  ConnectWatched'
<1> SUFFICES ASSUME NEW k \in Jobs, kind'[k] \in Services, status'[k] # "new"
             PROVE  k \in watchers' \/ status'[k] \in Terminal
  BY DEF ConnectWatched
<1>1. CASE kind'[k] # kind[k] \/ k \in fresh
  BY <1>1 DEF RouteStep
<1>2. CASE kind'[k] = kind[k] /\ k \notin fresh
  <2>1. status[k] # "new"
    BY <1>2 DEF RouteStep, SessionStep
  <2>2. k \in watchers \/ status[k] \in Terminal
    BY <1>2, <2>1 DEF ConnectWatched
  <2>3. CASE k \in watchers
    <3>1. kind[k] # "browse"
      BY <1>2 DEF Services
    <3>2. QED
      BY <2>3, <3>1 DEF RouteStep
  <2>4. CASE status[k] \in Terminal
    BY <2>4 DEF RouteStep, SessionStep
  <2>5. QED
    BY <2>2, <2>3, <2>4
<1>3. QED
  BY <1>1, <1>2

(* the prompt, if they do not put one up,                                  *)
LEMMA RoutePrompt ==
  ASSUME ConnTypeOK, PromptWatched, NEW fresh, RouteStep(fresh), code' => code,
         None \notin Services
  PROVE  PromptWatched'
<1> SUFFICES ASSUME code', \A j \in Jobs : error'[j] # "timeout"
             PROVE  ~Hosted /\ \E j \in watchers' : kind'[j] \in Services
  BY DEF PromptWatched
<1>1. \A j \in Jobs : error[j] # "timeout"
  BY DEF RouteStep, SessionStep
<1>2. ~Hosted /\ \E j \in watchers : kind[j] \in Services
  BY <1>1 DEF PromptWatched
<1>3. PICK j \in watchers : kind[j] \in Services
  BY <1>2
<1>4. j \in watchers' /\ j \in Jobs
  BY <1>3 DEF RouteStep, Services, ConnTypeOK
<1>5. kind'[j] = kind[j]
  BY <1>3, <1>4 DEF RouteStep
<1>6. QED
  BY <1>2, <1>3, <1>4, <1>5

(* the numbers of the processes                                            *)
LEMMA RouteSpawned ==
  ASSUME ConnTypeOK, TypeOK', OnlySpawnedLinked, NEW fresh, RouteStep(fresh)
  PROVE  OnlySpawnedLinked'
<1>1. psProc \in Nat /\ psProc' \in Nat /\ psProc' >= psProc
  BY SessionAssumption DEF ConnTypeOK, TypeOK, RouteStep, Numbered, SessionAssumption
<1>2. \A j \in Jobs : target'[j] <= psProc'
  <2> TAKE j \in Jobs
  <2>1. target[j] <= psProc /\ target[j] \in Nat /\ (target'[j] = target[j] \/ target'[j] = psProc')
    BY SessionAssumption DEF OnlySpawnedLinked, RouteStep, SessionStep, ConnTypeOK, TypeOK,
       SessionAssumption
  <2>2. QED
    BY <1>1, <2>1
<1>3. \A g \in Procs : g > psProc' => linked'[g] = NoLink
  <2> TAKE g \in Procs
  <2>1. g \in Nat
    BY DEF Procs
  <2>2. g > psProc' => g > psProc
    BY <1>1, <2>1
  <2>3. QED
    BY <2>2 DEF OnlySpawnedLinked, RouteStep
<1>4. QED
  BY <1>2, <1>3 DEF OnlySpawnedLinked

(* and, as long as jobs end with errors of their scripts only, the order   *)
(* in which results are taken and what is known of the links.              *)
LEMMA RouteLinks ==
  ASSUME ConnTypeOK, ConnTypeOK', None \notin Jobs, None \notin Tenants, QueueInv, ConnInv,
         NEW fresh, RouteStep(fresh), OnlyScriptErrors'
  PROVE  LinkOrder' /\ LinkKnown'
<1>1. Calm /\ UNCHANGED <<files, result>> /\ Numbered
  BY DEF RouteStep, SessionStep
<1>2. OnlyScriptErrors
  <2> SUFFICES ASSUME NEW j \in Jobs, status[j] = "error" PROVE error[j] = "script"
    BY DEF OnlyScriptErrors
  <2>1. status'[j] = "error" /\ error'[j] = error[j]
    BY <1>1 DEF Calm
  <2>2. QED
    BY <2>1 DEF OnlyScriptErrors
<1>3. LinkOrder /\ LinkKnown /\ OnlySpawnedLinked
  BY <1>2 DEF ConnInv
<1>4. /\ \A s \in Services : Link(s)' = None \/ Link(s)' = Link(s)
      /\ psProc' # psProc => \A s \in Services : Link(s)' = None
  BY <1>1, <1>3, LinksKept DEF RouteStep
<1>5. \A k \in Jobs : /\ kind'[k] = kind[k] \/ (kind[k] = None /\ status[k] = "new")
                      /\ status'[k] \in Terminal <=> status[k] \in Terminal
                      /\ status'[k] = "completed" <=> status[k] = "completed"
                      /\ status[k] # "new" => kind'[k] = kind[k]
  BY <1>1 DEF Calm, RouteStep, Terminal
<1>6. active # None => active' = active /\ active \in Jobs /\ status[active] = "running"
  BY <1>1, ActiveRuns DEF Calm, ConnTypeOK, TypeOK
<1>7. \A k \in watchers' : k \in Jobs /\ (status'[k] \in Terminal => k \in watchers)
  <2> TAKE k \in watchers'
  <2>1. k \in Jobs
    BY DEF ConnTypeOK
  <2>2. k \in watchers \/ status[k] = "new"
    BY DEF RouteStep
  <2>3. QED
    BY <1>5, <2>1, <2>2 DEF Terminal
<1>8. active # None /\ target[active] \notin {0, psProc} => \A s \in Services : Link(s) = None
  BY <1>3 DEF LinkOrder
<1>9. active' # None /\ target'[active'] \notin {0, psProc'} =>
        \A s \in Services : Link(s)' = None
  <2> SUFFICES ASSUME active' # None, target'[active'] \notin {0, psProc'}
               PROVE  \A s \in Services : Link(s)' = None
    OBVIOUS
  <2>1. active' = active /\ target'[active] = target[active]
    BY <1>1 DEF Calm
  <2>2. CASE psProc' = psProc
    BY <1>4, <1>8, <2>1, <2>2
  <2>3. QED
    BY <1>4, <2>2
<1>10. \A s \in Services : Newest(s)' => Newest(s)
  <2> SUFFICES ASSUME NEW s \in Services,
                      active' # None, kind'[active'] = s, files'[active'] = "good"
               PROVE  active # None /\ kind[active] = s /\ files[active] = "good"
    BY DEF Newest
  <2>1. active' = active
    BY <1>1 DEF Calm
  <2>2. kind'[active] = kind[active]
    BY <1>5, <1>6, <2>1
  <2>3. QED
    BY <1>1, <2>1, <2>2
<1>11. \A s \in Services : Newest(s) => Newest(s)' /\ active' = active
  <2> SUFFICES ASSUME NEW s \in Services, Newest(s) PROVE Newest(s)' /\ active' = active
    OBVIOUS
  <2>1. active' = active /\ kind'[active] = kind[active]
    BY <1>5, <1>6 DEF Newest
  <2>2. QED
    BY <1>1, <2>1 DEF Newest
<1>12. \A s \in Services : Newest(s)' /\ Link(s)' # None => result'[active'] = Link(s)'
  <2> TAKE s \in Services
  <2>1. Newest(s) /\ Link(s) # None => result[active] = Link(s)
    BY <1>3 DEF LinkOrder
  <2>2. QED
    BY <1>1, <1>4, <1>10, <1>11, <2>1
<1>13. \A i, j \in watchers' : status'[i] \in Terminal /\ status'[j] \in Terminal => i = j
  <2>1. \A i, j \in watchers : status[i] \in Terminal /\ status[j] \in Terminal => i = j
    BY <1>3 DEF LinkOrder
  <2>2. QED
    BY <1>5, <1>7, <2>1
<1>14. \A s \in Services : \A j \in watchers' :
         Unlinked(s) /\ kind'[j] = s /\ Output(j)' # None /\ Link(s)' # None =>
           Output(j)' = Link(s)' \/ Newest(s)'
  <2> SUFFICES ASSUME NEW s \in Services, NEW j \in watchers', Unlinked(s), kind'[j] = s,
                      Output(j)' # None, Link(s)' # None
               PROVE  Output(j)' = Link(s)' \/ Newest(s)'
    OBVIOUS
  <2>1. status'[j] = "completed" /\ Output(j)' = result'[j]
    BY DEF Output
  <2>2. j \in watchers /\ j \in Jobs /\ status[j] = "completed" /\ kind[j] = s
    BY <1>5, <1>7, <2>1 DEF Terminal
  <2>3. Output(j) = Output(j)' /\ Link(s) = Link(s)'
    BY <1>1, <1>4, <2>1, <2>2 DEF Output
  <2>4. Output(j) = Link(s) \/ Newest(s)
    BY <1>3, <2>2, <2>3 DEF LinkOrder
  <2>5. QED
    BY <1>11, <2>3, <2>4
<1>15. LinkOrder'
  BY <1>9, <1>12, <1>13, <1>14 DEF LinkOrder
<1>16. \A s \in Services : Reported(s) /\ Link(s)' = Link(s) => Reported(s)'
  <2> SUFFICES ASSUME NEW s \in Services, Reported(s), Link(s)' = Link(s)
               PROVE  Reported(s)'
    OBVIOUS
  <2>1. PICK j \in watchers : /\ kind[j] = s /\ result[j] = Link(s) /\ files[j] = "good"
                              /\ j = active \/ status[j] = "completed"
    BY DEF Reported
  <2>2. j \in Jobs /\ j # None /\ status[j] # "new" /\ kind[j] # "browse"
    BY <1>6, <2>1 DEF ConnTypeOK, Services
  <2>3. j \in watchers' /\ kind'[j] = s
    BY <1>5, <2>1, <2>2 DEF RouteStep
  <2>4. j = active' \/ status'[j] = "completed"
    BY <1>5, <1>6, <2>1, <2>2
  <2>5. result'[j] = Link(s)' /\ files'[j] = "good"
    BY <1>1, <2>1
  <2>6. QED
    BY <2>3, <2>4, <2>5 DEF Reported
<1>17. Leaving => Leaving'
  <2> SUFFICES ASSUME NEW d \in Jobs, kind[d] = "disconnect",
                      status[d] \in {"queued", "running"}, files[d] = "none"
               PROVE  Leaving'
    BY DEF Leaving
  <2>1. kind'[d] = kind[d] /\ status'[d] \in {"queued", "running"} /\ files'[d] = "none"
    BY <1>1, <1>5 DEF Calm
  <2>2. QED
    BY <2>1 DEF Leaving
<1>18. LinkKnown'
  <2> SUFFICES ASSUME psProc' \notin killed', NEW s \in Services, Unlinked(s), Link(s)' # None
               PROVE  info'[s] = Link(s)' \/ Reported(s)' \/ Leaving'
    BY DEF LinkKnown, Unlinked
  <2>1. psProc' = psProc /\ Link(s)' = Link(s) /\ Link(s) # None /\ psProc' # 0
    BY <1>4 DEF Link
  <2>2. psProc \notin killed
    BY <2>1 DEF RouteStep
  <2>3. info[s] = Link(s) \/ Reported(s) \/ Leaving
    BY <1>3, <2>1, <2>2 DEF LinkKnown
  <2>4. info' = info \/ Leaving'
    BY <2>1 DEF RouteStep
  <2>5. QED
    BY <1>16, <1>17, <2>1, <2>3, <2>4
<1>19. QED
  BY <1>15, <1>18

-----------------------------------------------------------------------------
(* What is known of a session already.                                     *)
Basis ==
  /\ ConnTypeOK
  /\ QueueInv
  /\ ScriptInv

(* The steps of the routes ...                                             *)
LEMMA RequestRoute ==
  ASSUME Basis, Basis', SessionAssumption, ConnectionAssumption,
         NEW j \in Jobs, RequestJob(j) \/ HolderJob(j)
  PROVE  /\ SessionStep({j}) /\ Numbered /\ killed' = killed
         /\ status[j] = "new" /\ status'[j] # "new" /\ files'[j] = "none"
<1>1. RunInSession(j) /\ killed' = killed /\ Numbered
  <2>1. CASE RequestJob(j)
    BY <2>1, SpawnStep DEF RequestJob, Basis, ConnTypeOK
  <2>2. CASE HolderJob(j)
    BY <2>2 DEF HolderJob, procVars, Numbered
  <2>3. QED
    BY <2>1, <2>2
<1>2. SessionStep({j})
  BY <1>1, RunStep DEF Basis, ConnTypeOK, SessionAssumption, ConnectionAssumption
<1>3. status[j] = "new" /\ target[j] = 0
  BY <1>1 DEF RunInSession, Basis, QueueInv
<1>4. files'[j] = "none"
  BY <1>1, <1>3 DEF RunInSession, Basis, ScriptInv, NeverSent
<1>5. status'[j] # "new"
  <2>1. j \in Jobs /\ submitted' = Append(submitted, j) /\ submitted \in Seq(Jobs)
    BY <1>1 DEF RunInSession, Basis, ConnTypeOK, TypeOK
  <2>2. Len(submitted') = Len(submitted) + 1 /\ submitted'[Len(submitted) + 1] = j
    BY <2>1, AppendProperties
  <2>3. Len(submitted) + 1 \in 1..Len(submitted')
    BY <2>1, <2>2, LenProperties
  <2>4. QED
    BY <2>2, <2>3 DEF Basis, QueueInv, Books
<1>6. QED
  BY <1>1, <1>2, <1>3, <1>4, <1>5

LEMMA ConnectRoute ==
  ASSUME Basis, Basis', SessionAssumption, ConnectionAssumption,
         NEW j \in Jobs, NEW s \in Services, NEW t \in Tenants,
         Connect(j, s, t) \/ ConnectAppOnly(j, s, t)
  PROVE  \E fresh \in SUBSET Jobs : RouteStep(fresh)
<1>1. status[j] = "new" /\ kind[j] = None /\ kind \in [Jobs -> Kinds \cup {None}]
  BY DEF Connect, ConnectAppOnly, Fresh, Basis, ConnTypeOK
<1>2. CASE Connect(j, s, t)
  <2>1. /\ kind' = [kind EXCEPT ![j] = s]
        /\ watchers' = watchers \cup {j}
        /\ UNCHANGED <<result, info, linked>>
        /\ RequestJob(j)
    BY <1>2 DEF Connect
  <2>2. SessionStep({j}) /\ Numbered /\ killed' = killed
    BY <2>1, RequestRoute
  <2>3. RouteStep({j})
    BY <1>1, <2>1, <2>2 DEF RouteStep
  <2>4. QED
    BY <2>3
<1>3. CASE ConnectAppOnly(j, s, t)
  <2>1. /\ kind' = [kind EXCEPT ![j] = s]
        /\ UNCHANGED <<watchers, result, info, linked, killed>>
        /\ UNCHANGED <<status, error, active, target, files>>
        /\ GetSession
    BY <1>3 DEF ConnectAppOnly, ResolveSession, jobVars, pwshVars
  <2>2. SessionStep({}) /\ Numbered
    BY <2>1, StillStep, SpawnStep DEF Basis, ConnTypeOK
  <2>3. RouteStep({})
    BY <1>1, <2>1, <2>2 DEF RouteStep
  <2>4. QED
    BY <2>3
<1>4. QED
  BY <1>2, <1>3

LEMMA JobRoute ==
  ASSUME Basis, Basis', SessionAssumption, ConnectionAssumption,
         NEW j \in Jobs,
         CertStaged(j) \/ Disconnect(j) \/ Browse(j) \/ Report(j)
  PROVE  RouteStep({j})
<1>1. RequestJob(j) \/ HolderJob(j)
  BY DEF CertStaged, Disconnect, Browse, Report
<1>2. /\ SessionStep({j}) /\ Numbered /\ killed' = killed
      /\ status[j] = "new" /\ status'[j] # "new" /\ files'[j] = "none"
  BY <1>1, RequestRoute
<1>3. kind \in [Jobs -> Kinds \cup {None}]
  BY DEF Basis, ConnTypeOK
<1>4. CASE CertStaged(j)
  BY <1>2, <1>4 DEF CertStaged, RouteStep
<1>5. CASE Disconnect(j)
  <2>1. /\ kind' = [kind EXCEPT ![j] = "disconnect"] /\ kind[j] = None
        /\ UNCHANGED <<watchers, result, linked>>
    BY <1>5 DEF Disconnect, Fresh
  <2>2. ASSUME OnlyScriptErrors' PROVE Leaving'
    <3>1. status'[j] \in {"queued", "running"}
      BY <1>2, <2>2 DEF SessionStep, Calm
    <3>2. kind'[j] = "disconnect"
      BY <1>3, <2>1
    <3>3. QED
      BY <1>2, <3>1, <3>2 DEF Leaving
  <2>3. "disconnect" \notin Services
    BY DEF Services
  <2>4. QED
    BY <1>2, <1>3, <2>1, <2>2, <2>3 DEF RouteStep
<1>6. CASE Browse(j)
  <2>1. /\ kind' = [kind EXCEPT ![j] = "browse"] /\ kind[j] = None
        /\ watchers' = watchers \cup {j}
        /\ UNCHANGED <<result, linked, info>>
    BY <1>6 DEF Browse, Fresh
  <2>2. QED
    BY <1>2, <1>3, <2>1 DEF RouteStep
<1>7. CASE Report(j)
  <2>1. /\ kind[j] = None /\ None \notin Services
        /\ UNCHANGED <<kind, watchers, result, linked, info>>
    BY <1>7 DEF Report, Fresh, connVars, ConnectionAssumption, Kinds
  <2>2. QED
    BY <1>2, <2>1 DEF RouteStep
<1>8. QED
  BY <1>4, <1>5, <1>6, <1>7

(* ... and those that submit nothing.                                      *)
LEMMA QuietRoute ==
  ASSUME Basis, Basis', SessionAssumption, ConnectionAssumption,
         UNCHANGED <<kind, result>>,
         watchers' \in SUBSET watchers, \A k \in watchers \ watchers' : kind[k] = "browse",
         SessionStep({}), Numbered, killed \subseteq killed',
         \A g \in Procs : linked'[g] = linked[g] \/ linked'[g] = NoLink,
         info' = info \/ psProc' \in killed' \cup {0}
  PROVE  RouteStep({})
BY DEF RouteStep

LEMMA OtherRoute ==
  ASSUME Basis, Basis', SessionAssumption, ConnectionAssumption,
         \/ \E j \in Jobs : StagingFails(j) \/ GiveUpWaiting(j)
         \/ OnlyResolve \/ Restart \/ Evict
         \/ (PumpTick \/ RestartTimer) /\ UNCHANGED connVars
         \/ \E g \in Procs :
              \/ Prompt(g) \/ End(g)
              \/ /\ ExitNoticed(g) \/ CloseEvent(g) \/ ReadScript(g) \/ ScriptDoesNotParse(g)
                 /\ UNCHANGED connVars
         \/ UNCHANGED allVars
  PROVE  RouteStep({})
<1> DEFINE Still == UNCHANGED <<status, error, active, target, files>>
<1>1. Still => SessionStep({})
  BY StillStep
<1> HIDE DEF Still
<1>2. ASSUME NEW j \in Jobs, StagingFails(j) \/ GiveUpWaiting(j) PROVE RouteStep({})
  <2>1. Still /\ UNCHANGED <<psProc, killed, kind, result, linked, info>>
    BY <1>2 DEF Still, StagingFails, GiveUpWaiting, vars, jobVars, procVars, pwshVars
  <2>2. watchers' \in SUBSET watchers /\ \A k \in watchers \ watchers' : kind[k] = "browse"
    BY <1>2 DEF StagingFails, GiveUpWaiting
  <2>3. QED
    BY <1>1, <2>1, <2>2, QuietRoute DEF Numbered
<1>3. CASE OnlyResolve
  <2>1. Still /\ GetSession /\ UNCHANGED <<killed, kind, result, watchers, linked, info>>
    BY <1>3 DEF Still, OnlyResolve, ResolveSession, jobVars, pwshVars
  <2>2. Numbered
    BY <2>1, SpawnStep DEF Basis, ConnTypeOK
  <2>3. QED
    BY <1>1, <2>1, <2>2, QuietRoute
<1>4. CASE Restart
  <2>1. /\ Still /\ UNCHANGED <<kind, result, watchers, linked>>
        /\ killed' = killed \cup ({psProc'} \ {0})
        /\ Spawns \/ UNCHANGED psProc
    BY <1>4 DEF Still, Restart, RestartSession, jobVars, pwshVars
  <2>2. Numbered
    <3>1. CASE Spawns
      BY <3>1, SpawnStep DEF Basis, ConnTypeOK
    <3>2. QED
      BY <2>1, <3>1 DEF Numbered
  <2>3. killed \subseteq killed' /\ psProc' \in killed' \cup {0}
    BY <2>1
  <2>4. QED
    BY <1>1, <2>1, <2>2, <2>3, QuietRoute
<1>5. CASE Evict
  <2>1. /\ Still /\ UNCHANGED <<psProc, kind, result, watchers, linked, info>>
        /\ killed \subseteq killed'
    BY <1>5 DEF Still, Evict, DestroySession, jobVars, pwshVars
  <2>2. QED
    BY <1>1, <2>1, QuietRoute DEF Numbered
<1>6. CASE (PumpTick \/ RestartTimer) /\ UNCHANGED connVars
  <2>1. UNCHANGED <<killed, kind, result, watchers, linked, info>>
    BY <1>6 DEF PumpTick, RestartTimer, procVars, connVars
  <2>2. SessionStep({}) /\ Numbered
    <3>1. CASE PumpTick
      <4>1. SessionStep({})
        BY <3>1, TickStep DEF Basis, ConnTypeOK, SessionAssumption, ConnectionAssumption
      <4>2. QED
        BY <3>1, <4>1 DEF PumpTick, procVars, Numbered
    <3>2. CASE RestartTimer
      <4>1. Still /\ StartSession
        BY <3>2 DEF Still, RestartTimer, jobVars, pwshVars
      <4>2. QED
        BY <1>1, <4>1, SpawnStep DEF Basis, ConnTypeOK
    <3>3. QED
      BY <1>6, <3>1, <3>2
  <2>3. QED
    BY <2>1, <2>2, QuietRoute
<1>7. ASSUME NEW g \in Procs, Prompt(g) PROVE RouteStep({})
  <2>1. Still /\ UNCHANGED <<psProc, killed, kind, result, watchers, linked, info>>
    BY <1>7 DEF Still, Prompt, vars, jobVars, procVars, pwshVars
  <2>2. QED
    BY <1>1, <2>1, QuietRoute DEF Numbered
<1>8. ASSUME NEW g \in Procs, End(g) PROVE RouteStep({})
  <2>1. /\ Still /\ UNCHANGED <<psProc, killed, kind, result, watchers, info>>
        /\ linked' = [linked EXCEPT ![g] = NoLink]
    BY <1>8 DEF Still, End, ProcessEnds, jobVars
  <2>2. \A h \in Procs : linked'[h] = linked[h] \/ linked'[h] = NoLink
    BY <2>1 DEF Basis, ConnTypeOK
  <2>3. QED
    BY <1>1, <2>1, <2>2, QuietRoute DEF Numbered
<1>9. ASSUME NEW g \in Procs,
             ExitNoticed(g) \/ CloseEvent(g) \/ ReadScript(g) \/ ScriptDoesNotParse(g),
             UNCHANGED connVars
      PROVE  RouteStep({})
  <2>1. Still /\ UNCHANGED <<psProc, killed, kind, result, watchers, linked, info>>
    BY <1>9 DEF Still, ExitNoticed, CloseEvent, ReadScript, ScriptDoesNotParse, jobVars,
                procVars, pwshVars, connVars
  <2>2. QED
    BY <1>1, <2>1, QuietRoute DEF Numbered
<1>10. CASE UNCHANGED allVars
  <2>1. Still /\ UNCHANGED <<psProc, killed, kind, result, watchers, linked, info>>
    BY <1>10 DEF Still, allVars, vars, jobVars, procVars, pwshVars, connVars
  <2>2. QED
    BY <1>1, <2>1, QuietRoute DEF Numbered
<1>11. QED
  BY <1>2, <1>3, <1>4, <1>5, <1>6, <1>7, <1>8, <1>9, <1>10

(* So they keep the invariant, Prompt and what it puts up aside.           *)
LEMMA RouteKeeps ==
  ASSUME Basis, Basis', SessionAssumption, ConnectionAssumption, ConnInv,
         NEW fresh \in SUBSET Jobs, RouteStep(fresh), (code' => code) \/ PromptWatched'
  PROVE  ConnInv'
<1>1. None \notin Jobs /\ None \notin Tenants /\ None \notin Services
  BY DEF SessionAssumption, ConnectionAssumption, Kinds
<1>2. ConnTypeOK /\ ConnTypeOK' /\ TypeOK' /\ QueueInv
  BY DEF Basis, ConnTypeOK
<1>3. ConnectWatched'
  BY <1>2, RouteWatched DEF ConnInv
<1>4. OnlySpawnedLinked'
  BY <1>2, RouteSpawned DEF ConnInv
<1>5. PromptWatched'
  BY <1>1, <1>2, RoutePrompt DEF ConnInv
<1>6. OnlyScriptErrors' => LinkOrder' /\ LinkKnown'
  BY <1>1, <1>2, RouteLinks
<1>7. QED
  BY <1>3, <1>4, <1>5, <1>6 DEF ConnInv

(* The job that holds the queue is running, and if it is a connect, its    *)
(* watcher is there.                                                       *)
LEMMA ActiveWatched ==
  ASSUME Basis, SessionAssumption, ConnectWatched, active # None
  PROVE  /\ active \in Jobs /\ status[active] = "running"
         /\ kind[active] \in Services => active \in watchers
<1>1. active \in Jobs /\ status[active] = "running"
  BY ActiveRuns DEF Basis, ConnTypeOK, TypeOK
<1>2. QED
  BY <1>1 DEF ConnectWatched, Terminal

(* A prompt comes from a script that is not given up, unless one timed out.*)
LEMMA PromptKeeps ==
  ASSUME Basis, SessionAssumption, ConnectWatched, NEW g \in Procs, Prompt(g)
  PROVE  PromptWatched'
<1> SUFFICES ASSUME \A j \in Jobs : error'[j] # "timeout"
             PROVE  ~Hosted /\ \E j \in watchers' : kind'[j] \in Services
  BY DEF PromptWatched
<1>1. /\ executing[g] # None /\ ~Hosted /\ kind[executing[g]] \in Services
      /\ UNCHANGED <<error, watchers, kind>>
  BY DEF Prompt, vars, jobVars
<1>2. PICK e \in Jobs : e = executing[g]
  BY <1>1 DEF Basis, ConnTypeOK, TypeOK
<1>3. e \in InFlight(g)
  BY <1>1, <1>2 DEF InFlight
<1>4. e = active \/ Abandoned(e)
  BY <1>3 DEF Basis, ScriptInv
<1>5. ~Abandoned(e)
  BY <1>1, <1>3 DEF Basis, ScriptInv, Abandoned, DidNotRun
<1>6. e \in watchers
  BY <1>1, <1>2, <1>4, <1>5, ActiveWatched DEF SessionAssumption
<1>7. QED
  BY <1>1, <1>2, <1>6

(* A watcher tells the banner what its connect has linked, or a later      *)
(* connect is still watched.                                               *)
LEMMA WatchKeeps ==
  ASSUME Basis, SessionAssumption, ConnInv, NEW j \in Jobs, Watch(j)
  PROVE  ConnInv'
<1>1. /\ UNCHANGED <<status, error, active, target, files, psProc, killed, kind, result, linked>>
      /\ watchers' = watchers \ {j} /\ j \in watchers /\ status[j] \in Terminal
      /\ code' = (code /\ (Hosted \/ kind[j] \notin Services))
      /\ info' = IF kind[j] \in Services /\ Output(j) # None
                 THEN [info EXCEPT ![kind[j]] = Output(j)]
                 ELSE info
  BY DEF Watch, Record, ClearDeviceCode, vars, jobVars, procVars, pwshVars
<1>2. ConnectWatched'
  BY <1>1 DEF ConnInv, ConnectWatched
<1>3. OnlySpawnedLinked'
  BY <1>1 DEF ConnInv, OnlySpawnedLinked
<1>4. PromptWatched'
  BY <1>1 DEF ConnInv, PromptWatched
<1>5. ASSUME OnlyScriptErrors' PROVE LinkOrder' /\ LinkKnown'
  <2>1. LinkOrder /\ LinkKnown
    BY <1>1, <1>5 DEF OnlyScriptErrors, ConnInv
  <2>2. /\ \A s \in Services : Link(s)' = Link(s)
        /\ \A s \in Services : Newest(s)' <=> Newest(s)
        /\ \A k \in Jobs : Output(k)' = Output(k)
    BY <1>1 DEF Link, Newest, Output
  <2>3. LinkOrder'
    BY <1>1, <2>1, <2>2 DEF LinkOrder, Basis, ConnTypeOK
  <2>4. ASSUME psProc \notin killed, NEW s \in Services, Unlinked(s), Link(s) # None
        PROVE  info'[s] = Link(s) \/ Reported(s)' \/ Leaving'
    <3>1. CASE kind[j] = s /\ Output(j) # None
      <4>1. info'[s] = Output(j)
        BY <1>1, <3>1 DEF Basis, ConnTypeOK, Links
      <4>2. CASE Newest(s)
        <5>1. /\ active \in watchers /\ active # j /\ kind[active] = s
              /\ files[active] = "good" /\ result[active] = Link(s)
          BY <1>1, <2>1, <2>4, <4>2, ActiveWatched DEF Newest, LinkOrder, ConnInv, Terminal
        <5>2. QED
          BY <1>1, <2>2, <5>1 DEF Reported
      <4>3. QED
        BY <1>1, <2>1, <2>4, <3>1, <4>1, <4>2 DEF LinkOrder
    <3>2. CASE ~(kind[j] = s /\ Output(j) # None)
      <4>1. info'[s] = info[s]
        BY <1>1, <3>2 DEF Basis, ConnTypeOK, Links
      <4>2. Leaving => Leaving'
        BY <1>1 DEF Leaving
      <4>3. ASSUME Reported(s) PROVE Reported(s)'
        <5>1. PICK w \in watchers : /\ kind[w] = s /\ result[w] = Link(s) /\ files[w] = "good"
                                    /\ w = active \/ status[w] = "completed"
          BY <4>3 DEF Reported
        <5>2. w # j
          <6>1. j # None
            BY DEF SessionAssumption
          <6>2. j = active => status[j] = "running"
            BY <6>1, ActiveWatched DEF ConnInv
          <6>3. QED
            BY <1>1, <2>4, <3>2, <5>1, <6>2 DEF Output, Terminal
        <5>3. QED
          BY <1>1, <2>2, <5>1, <5>2 DEF Reported
      <4>4. QED
        BY <2>1, <2>4, <4>1, <4>2, <4>3 DEF LinkKnown
    <3>3. QED
      BY <3>1, <3>2
  <2>5. LinkKnown'
    BY <1>1, <2>2, <2>4 DEF LinkKnown, Unlinked
  <2>6. QED
    BY <2>3, <2>5
<1>6. QED
  BY <1>2, <1>3, <1>4, <1>5 DEF ConnInv

(* A poller hands what its connect has linked to the watcher of the job,   *)
(* which is the only one with something to record.                         *)
LEMMA PollKeeps ==
  ASSUME Basis, SessionAssumption, ConnInv, NEW j \in Jobs, PollInTurn(j)
  PROVE  ConnInv'
<1>1. /\ \A w \in watchers : status[w] \notin Terminal
      /\ UNCHANGED <<kind, result, watchers, info, linked, code>>
      /\ UNCHANGED <<files, target, psProc, killed>>
      /\ j \in pollers /\ active' = None
  BY DEF PollInTurn, connVars, Poll, PollParseError, PollDone, PollTimeout, Settle, procVars
<1>2. PICK st \in Terminal, err \in {"none", "parse", "script", "timeout"} :
        /\ status' = [status EXCEPT ![j] = st]
        /\ error' = [error EXCEPT ![j] = err]
        /\ files[j] = "good" <=> st = "completed"
        /\ files[j] = "none" => st = "error" /\ err # "script"
  BY DEF PollInTurn, Poll, PollParseError, PollDone, PollTimeout, Settle, Terminal
<1>3. j = active /\ active # None
  BY <1>1 DEF Basis, QueueInv, OnlyActivePolled, SessionAssumption
<1>4. status[j] = "running" /\ error[j] = "none"
  BY <1>3, ActiveWatched DEF ConnInv, Basis, ScriptInv, Terminal
<1>5. /\ status \in [Jobs -> Statuses] /\ error \in [Jobs -> Errors] /\ watchers \in SUBSET Jobs
  BY DEF Basis, ConnTypeOK, TypeOK
<1>6. /\ status'[j] = st /\ error'[j] = err
      /\ \A k \in Jobs : k # j => status'[k] = status[k] /\ error'[k] = error[k]
  BY <1>2, <1>5
<1>7. ConnectWatched'
  BY <1>1, <1>6 DEF ConnInv, ConnectWatched
<1>8. OnlySpawnedLinked'
  BY <1>1 DEF ConnInv, OnlySpawnedLinked
<1>9. PromptWatched'
  <2>1. (\A k \in Jobs : error'[k] # "timeout") => \A k \in Jobs : error[k] # "timeout"
    BY <1>4, <1>6
  <2>2. QED
    BY <1>1, <2>1 DEF ConnInv, PromptWatched
<1>10. ASSUME OnlyScriptErrors' PROVE LinkOrder' /\ LinkKnown'
  <2>1. OnlyScriptErrors
    BY <1>4, <1>6, <1>10 DEF OnlyScriptErrors
  <2>2. LinkOrder /\ LinkKnown
    BY <2>1 DEF ConnInv
  <2>3. \A s \in Services : Link(s)' = Link(s)
    BY <1>1 DEF Link
  <2>4. \A k \in watchers : status'[k] \in Terminal => k = j
    BY <1>1, <1>5, <1>6
  <2>5. ASSUME NEW s \in Services, NEW k \in watchers,
               kind[k] = s, Output(k)' # None, Link(s) # None
        PROVE  Output(k)' = Link(s)
    <3>1. status'[k] = "completed" /\ Output(k)' = result[k]
      BY <1>1, <2>5 DEF Output
    <3>2. k = j /\ files[j] = "good"
      BY <1>2, <1>6, <2>4, <3>1 DEF Terminal
    <3>3. QED
      BY <1>3, <2>2, <2>5, <3>1, <3>2 DEF LinkOrder, Newest
  <2>6. LinkOrder'
    BY <1>1, <2>3, <2>4, <2>5 DEF LinkOrder, Newest
  <2>7. \A s \in Services : Reported(s) => Reported(s)'
    <3> SUFFICES ASSUME NEW s \in Services, Reported(s) PROVE Reported(s)'
      OBVIOUS
    <3>1. PICK w \in watchers : /\ kind[w] = s /\ result[w] = Link(s) /\ files[w] = "good"
                                /\ w = active \/ status[w] = "completed"
      BY DEF Reported
    <3>2. w = j
      BY <1>1, <1>3, <3>1 DEF Terminal
    <3>3. status'[w] = "completed"
      BY <1>2, <1>6, <3>1, <3>2
    <3>4. QED
      BY <1>1, <2>3, <3>1, <3>3 DEF Reported
  <2>8. Leaving => Leaving'
    <3> SUFFICES ASSUME NEW d \in Jobs, kind[d] = "disconnect",
                        status[d] \in {"queued", "running"}, files[d] = "none"
                 PROVE  Leaving'
      BY DEF Leaving
    <3>1. d # j
      BY <1>2, <1>6, <1>10 DEF OnlyScriptErrors
    <3>2. QED
      BY <1>1, <1>6, <3>1 DEF Leaving
  <2>9. LinkKnown'
    BY <1>1, <2>2, <2>3, <2>7, <2>8 DEF LinkKnown, Unlinked
  <2>10. QED
    BY <2>6, <2>9
<1>11. QED
  BY <1>7, <1>8, <1>9, <1>10 DEF ConnInv

(* What the script of the active job leaves of the links of the session's  *)
(* pwsh: they are as they were, or gone, or its own doing; but that a      *)
(* connect to Exchange that fails may have replaced $global:ExoRest.       *)
LEMMA FinishLinks ==
  ASSUME Basis, Basis', SessionAssumption, ConnInv, OnlyScriptErrors,
         NEW g \in Procs, NEW e \in Jobs, e = executing[g], e = active, target[e] = g,
         Finish(g), NEW s \in Services, Link(s)' # None
  PROVE  /\ Unlinked(s) => Link(s)' = Link(s) \/ (kind[e] = s /\ files'[e] = "good")
         /\ kind[e] = s /\ files'[e] = "good" => result'[e] = Link(s)'
         /\ ~(Unlinked(s) /\ kind[e] = "disconnect")
<1> DEFINE r == files'[e]
<1>1. UNCHANGED <<psProc, target, active>>
  BY DEF Finish, FinishScript, jobVars, procVars
<1>2. /\ linked \in [Procs -> [Services -> Tenants \cup {None}]]
      /\ result \in [Jobs -> Tenants \cup {None}]
      /\ psProc # 0 /\ psProc \in Procs
  <2>1. linked \in [Procs -> Links] /\ result \in [Jobs -> Tenants \cup {None}]
    BY DEF Basis, ConnTypeOK
  <2>2. psProc \in 0..MaxProcs /\ MaxProcs \in Nat
    BY SessionAssumption DEF Basis, ConnTypeOK, TypeOK, SessionAssumption
  <2>3. psProc # 0
    BY <1>1 DEF Link
  <2>4. QED
    BY <2>1, <2>2, <2>3 DEF Links, Procs
<1>3. Link(s)' = linked'[psProc][s] /\ Link(s) = linked[psProc][s]
  BY <1>1, <1>2 DEF Link
<1>4. \/ /\ kind[e] \in Services
         /\ ConnectScript(g, kind[e], goal[e], r)
         /\ result' = [result EXCEPT ![e] = IF r = "good" THEN goal[e] ELSE None]
      \/ kind[e] = "disconnect" /\ DisconnectScript(g)
      \/ kind[e] = "browse" /\ UNCHANGED linked
      \/ kind[e] = None /\ UNCHANGED linked
  BY DEF Finish
<1>5. \A h \in Procs : h # g => linked'[h] = linked[h]
  BY <1>2, <1>4 DEF ConnectScript, DisconnectScript
<1>6. g = psProc
  <2>1. SUFFICES ASSUME g # psProc PROVE FALSE
    OBVIOUS
  <2>2. active # None /\ target[active] \notin {0, psProc}
    BY <2>1 DEF SessionAssumption, Procs
  <2>3. Link(s) = None
    BY <2>2 DEF ConnInv, LinkOrder
  <2>4. QED
    BY <1>2, <1>3, <1>5, <2>1, <2>3
<1> HIDE DEF r
<1>7. CASE kind[e] \in Services /\ ConnectScript(g, kind[e], goal[e], r)
           /\ result' = [result EXCEPT ![e] = IF r = "good" THEN goal[e] ELSE None]
  <2>1. PICK new \in Leaves(g, kind[e], goal[e], r) :
          linked' = [linked EXCEPT ![g][kind[e]] = new]
    BY <1>7 DEF ConnectScript
  <2>2. linked'[g][kind[e]] = new /\ (s # kind[e] => linked'[g][s] = linked[g][s])
    BY <1>2, <1>7, <2>1
  <2>3. r = "good" => result'[e] = goal[e]
    BY <1>2, <1>7
  <2>4. kind[e] # "disconnect"
    BY <1>7 DEF Services
  <2>5. CASE s # kind[e]
    BY <1>3, <1>6, <2>2, <2>4, <2>5
  <2>6. CASE s = kind[e] /\ r = "good"
    BY <1>3, <1>6, <2>1, <2>2, <2>3, <2>4, <2>6 DEF r, Leaves
  <2>7. CASE s = kind[e] /\ r # "good"
    <3>1. s = "graph" \/ ~Hosted => new \in {None, linked[g][s]}
      BY <2>1, <2>7 DEF Leaves
    <3>2. QED
      BY <1>3, <1>6, <2>2, <2>4, <2>7, <3>1 DEF r, Unlinked
  <2>8. QED
    BY <2>5, <2>6, <2>7
<1>8. CASE kind[e] = "disconnect" /\ DisconnectScript(g)
  <2>1. linked'[g] = [x \in Services |-> IF x = "graph" THEN None
                                         ELSE IF Hosted THEN linked[g]["exchange"] ELSE None]
    BY <1>2, <1>8 DEF DisconnectScript
  <2>2. linked'[g][s] = IF s = "graph" THEN None
                        ELSE IF Hosted THEN linked[g]["exchange"] ELSE None
    BY <2>1
  <2>3. s = "exchange" /\ Hosted
    BY <1>3, <1>6, <2>2 DEF Services
  <2>4. Link(s)' = Link(s) /\ ~Unlinked(s) /\ kind[e] # s
    BY <1>3, <1>6, <1>8, <2>2, <2>3 DEF Unlinked
  <2>5. QED
    BY <2>4
<1>9. CASE UNCHANGED linked /\ kind[e] \in {"browse", None}
  <2>1. Link(s)' = Link(s) /\ kind[e] # "disconnect" /\ kind[e] # s
    BY <1>3, <1>9, ConnectionAssumption DEF ConnectionAssumption, Kinds, Services
  <2>2. QED
    BY <2>1
<1>10. QED
  BY <1>4, <1>7, <1>8, <1>9

(* A script that ends, given up or not, keeps the invariant.               *)
LEMMA FinishKeeps ==
  ASSUME Basis, Basis', SessionAssumption, ConnInv, NEW g \in Procs, Finish(g)
  PROVE  ConnInv'
<1>1. /\ UNCHANGED <<kind, goal, staging, gaveUp, watchers, info, cache, cert, code, late>>
      /\ UNCHANGED <<status, error, active, target, psProc, killed>>
      /\ executing[g] # None
  BY DEF Finish, FinishScript, jobVars, procVars
<1>2. PICK e \in Jobs : e = executing[g]
  BY <1>1 DEF Basis, ConnTypeOK, TypeOK
<1>3. /\ \A k \in Jobs : k # e => files'[k] = files[k] /\ result'[k] = result[k]
      /\ files'[e] \in {"good", "bad"}
  <2>1. files \in [Jobs -> Results] /\ result \in [Jobs -> Tenants \cup {None}]
    BY DEF Basis, ConnTypeOK, TypeOK
  <2>2. \E r \in Results \ {"none"} : files' = [files EXCEPT ![e] = r]
    BY <1>2 DEF Finish, FinishScript
  <2>3. UNCHANGED result \/ \E v : result' = [result EXCEPT ![e] = v]
    BY <1>2 DEF Finish
  <2>4. files'[e] \in {"good", "bad"} /\ \A k \in Jobs : k # e => files'[k] = files[k]
    BY <2>1, <2>2 DEF Results
  <2>5. \A k \in Jobs : k # e => result'[k] = result[k]
    BY <2>1, <2>3
  <2>6. QED
    BY <2>4, <2>5
<1>4. \A h \in Procs : h # g => linked'[h] = linked[h]
  BY DEF Finish, ConnectScript, DisconnectScript, Basis, ConnTypeOK
<1>5. target[e] = g /\ files[e] = "none" /\ (e = active \/ Abandoned(e))
  <2>1. e \in InFlight(g)
    BY <1>1, <1>2 DEF InFlight
  <2>2. QED
    BY <2>1 DEF Basis, ScriptInv
<1>6. ConnectWatched'
  BY <1>1 DEF ConnInv, ConnectWatched
<1>7. PromptWatched'
  BY <1>1 DEF ConnInv, PromptWatched
<1>8. OnlySpawnedLinked'
  <2>1. g <= psProc /\ g \in Nat /\ psProc \in Nat
    BY <1>5, SessionAssumption
       DEF ConnInv, OnlySpawnedLinked, Procs, Basis, ConnTypeOK, TypeOK, SessionAssumption
  <2>2. \A h \in Procs : h > psProc => linked'[h] = NoLink
    BY <1>4, <2>1 DEF ConnInv, OnlySpawnedLinked, Procs
  <2>3. QED
    BY <1>1, <2>2 DEF ConnInv, OnlySpawnedLinked
<1>9. ASSUME OnlyScriptErrors' PROVE LinkOrder' /\ LinkKnown'
  <2>1. OnlyScriptErrors
    BY <1>1, <1>9 DEF OnlyScriptErrors
  <2>2. LinkOrder /\ LinkKnown
    BY <2>1 DEF ConnInv
  <2>3. e = active
    BY <1>5, <2>1 DEF Abandoned, OnlyScriptErrors
  <2>4. active # None /\ status[e] = "running" /\ (kind[e] \in Services => e \in watchers)
    BY <2>3, ActiveWatched DEF ConnInv, SessionAssumption
  <2>5. ASSUME NEW s \in Services, Link(s)' # None
        PROVE  /\ Unlinked(s) => Link(s)' = Link(s) \/ (kind[e] = s /\ files'[e] = "good")
               /\ kind[e] = s /\ files'[e] = "good" => result'[e] = Link(s)'
               /\ ~(Unlinked(s) /\ kind[e] = "disconnect")
    BY <1>2, <1>5, <2>1, <2>3, <2>5, FinishLinks
  <2>6. \A s \in Services : ~Newest(s)
    BY <1>5, <2>3 DEF Newest
  <2>7. \A s \in Services : Newest(s)' <=> kind[e] = s /\ files'[e] = "good"
    BY <1>1, <2>3, <2>4 DEF Newest
  <2>8. target[active] \notin {0, psProc} => \A s \in Services : Link(s)' = None
    <3> SUFFICES ASSUME g # psProc, NEW s \in Services PROVE Link(s)' = None
      BY <1>5, <2>3
    <3>1. Link(s) = None
      BY <1>5, <2>2, <2>3, <2>4 DEF LinkOrder, Procs
    <3>2. psProc = 0 \/ psProc \in Procs
      BY SessionAssumption DEF Basis, ConnTypeOK, TypeOK, Procs, SessionAssumption
    <3>3. QED
      BY <1>1, <1>4, <3>1, <3>2 DEF Link
  <2>9. \A s \in Services : Newest(s)' /\ Link(s)' # None => result'[active] = Link(s)'
    BY <2>3, <2>5, <2>7
  <2>10. \A i, j \in watchers : status[i] \in Terminal /\ status[j] \in Terminal => i = j
    BY <2>2 DEF LinkOrder
  <2>11. ASSUME NEW s \in Services, NEW j \in watchers, Unlinked(s),
                kind[j] = s, Output(j)' # None, Link(s)' # None
         PROVE  Output(j)' = Link(s)' \/ Newest(s)'
    <3>1. status[j] = "completed" /\ j \in Jobs /\ j # e
      BY <1>1, <2>4, <2>11 DEF Output, Basis, ConnTypeOK
    <3>2. Output(j) = Output(j)'
      BY <1>1, <1>3, <3>1 DEF Output
    <3>3. Link(s)' = Link(s) \/ Newest(s)'
      BY <2>5, <2>7, <2>11
    <3>4. QED
      BY <2>2, <2>6, <2>11, <3>2, <3>3 DEF LinkOrder
  <2>12. LinkOrder'
    BY <1>1, <2>8, <2>9, <2>10, <2>11 DEF LinkOrder
  <2>13. ASSUME psProc \notin killed, NEW s \in Services, Unlinked(s), Link(s)' # None
         PROVE  info[s] = Link(s)' \/ Reported(s)' \/ Leaving'
    <3>1. CASE kind[e] = s /\ files'[e] = "good"
      <4>1. result'[e] = Link(s)' /\ e \in watchers
        BY <2>4, <2>5, <2>13, <3>1
      <4>2. QED
        BY <1>1, <2>3, <3>1, <4>1 DEF Reported
    <3>2. CASE ~(kind[e] = s /\ files'[e] = "good")
      <4>1. Link(s)' = Link(s) /\ kind[e] # "disconnect"
        BY <2>5, <2>13, <3>2
      <4>2. info[s] = Link(s) \/ Reported(s) \/ Leaving
        BY <2>2, <2>13, <4>1 DEF LinkKnown
      <4>3. Leaving => Leaving'
        <5> SUFFICES ASSUME NEW d \in Jobs, kind[d] = "disconnect",
                            status[d] \in {"queued", "running"}, files[d] = "none"
                     PROVE  Leaving'
          BY DEF Leaving
        <5>1. files'[d] = "none"
          BY <1>3, <4>1
        <5>2. QED
          BY <1>1, <5>1 DEF Leaving
      <4>4. ASSUME Reported(s) PROVE Reported(s)'
        <5>1. PICK w \in watchers : /\ kind[w] = s /\ result[w] = Link(s) /\ files[w] = "good"
                                    /\ w = active \/ status[w] = "completed"
          BY <4>4 DEF Reported
        <5>2. w # e /\ w \in Jobs
          BY <1>5, <5>1 DEF Basis, ConnTypeOK
        <5>3. files'[w] = "good" /\ result'[w] = Link(s)'
          BY <1>3, <4>1, <5>1, <5>2
        <5>4. QED
          BY <1>1, <5>1, <5>3 DEF Reported
      <4>5. QED
        BY <4>1, <4>2, <4>3, <4>4
    <3>3. QED
      BY <3>1, <3>2
  <2>14. LinkKnown'
    BY <1>1, <2>13 DEF LinkKnown, Unlinked
  <2>15. QED
    BY <2>12, <2>14
<1>10. QED
  BY <1>6, <1>7, <1>8, <1>9 DEF ConnInv

LEMMA ConnInitially ==
  ASSUME ConnInit, SessionAssumption, ConnectionAssumption
  PROVE  ConnInv
<1>1. /\ linked = [g \in Procs |-> NoLink] /\ watchers = {} /\ code = FALSE /\ active = None
      /\ status = [j \in Jobs |-> "new"] /\ target = [j \in Jobs |-> 0]
      /\ kind = [j \in Jobs |-> None] /\ psProc \in {0, 1}
  BY DEF ConnInit, Init
<1>2. psProc = 0 \/ psProc \in Procs
  BY <1>1 DEF SessionAssumption, Procs
<1>3. \A s \in Services : Link(s) = None
  BY <1>1, <1>2 DEF Link, NoLink
<1>4. ConnectWatched /\ PromptWatched
  BY <1>1 DEF ConnectWatched, PromptWatched
<1>5. OnlySpawnedLinked
  BY <1>1 DEF OnlySpawnedLinked
<1>6. LinkOrder /\ LinkKnown
  BY <1>1, <1>3 DEF LinkOrder, LinkKnown, Newest
<1>7. QED
  BY <1>4, <1>5, <1>6 DEF ConnInv

LEMMA ConnStep ==
  Basis /\ Basis' /\ ConnInv /\ [ConnNext]_allVars => ConnInv'
<1> SUFFICES ASSUME Basis, Basis', ConnInv, [ConnNext]_allVars PROVE ConnInv'
  OBVIOUS
<1> USE SessionAssumption, ConnectionAssumption
<1>1. ASSUME NEW j \in Jobs, NEW s \in Services, NEW t \in Tenants,
             Connect(j, s, t) \/ ConnectAppOnly(j, s, t)
      PROVE  ConnInv'
  <2>1. code' => code
    BY <1>1 DEF Connect, ConnectAppOnly
  <2>2. QED
    BY <1>1, <2>1, ConnectRoute, RouteKeeps
<1>2. ASSUME NEW j \in Jobs, CertStaged(j) \/ Disconnect(j) \/ Browse(j) \/ Report(j)
      PROVE  ConnInv'
  <2>1. code' => code
    BY <1>2 DEF CertStaged, Disconnect, Browse, Report, connVars
  <2>2. RouteStep({j})
    BY <1>2, JobRoute
  <2>3. QED
    BY <2>1, <2>2, RouteKeeps
<1>3. ASSUME NEW j \in Jobs, StagingFails(j) \/ GiveUpWaiting(j) PROVE ConnInv'
  <2>1. code' => code
    BY <1>3 DEF StagingFails, GiveUpWaiting
  <2>2. QED
    BY <1>3, <2>1, OtherRoute, RouteKeeps
<1>4. CASE OnlyResolve \/ Restart \/ Evict
  <2>1. code' => code
    BY <1>4 DEF OnlyResolve, Restart, Evict
  <2>2. QED
    BY <1>4, <2>1, OtherRoute, RouteKeeps
<1>5. CASE (PumpTick \/ RestartTimer) /\ UNCHANGED connVars
  <2>1. code' => code
    BY <1>5 DEF connVars
  <2>2. QED
    BY <1>5, <2>1, OtherRoute, RouteKeeps
<1>6. ASSUME NEW g \in Procs, Prompt(g) PROVE ConnInv'
  <2>1. PromptWatched'
    BY <1>6, PromptKeeps DEF ConnInv
  <2>2. QED
    BY <1>6, <2>1, OtherRoute, RouteKeeps
<1>7. ASSUME NEW g \in Procs,
             \/ End(g)
             \/ /\ ExitNoticed(g) \/ CloseEvent(g) \/ ReadScript(g) \/ ScriptDoesNotParse(g)
                /\ UNCHANGED connVars
      PROVE  ConnInv'
  <2>1. code' => code
    BY <1>7 DEF End, connVars
  <2>2. QED
    BY <1>7, <2>1, OtherRoute, RouteKeeps
<1>8. CASE UNCHANGED allVars
  <2>1. code' => code
    BY <1>8 DEF allVars, connVars
  <2>2. QED
    BY <1>8, <2>1, OtherRoute, RouteKeeps
<1>9. ASSUME NEW j \in Jobs, Watch(j) \/ PollInTurn(j) PROVE ConnInv'
  BY <1>9, WatchKeeps, PollKeeps
<1>10. ASSUME NEW g \in Procs, Finish(g) PROVE ConnInv'
  BY <1>10, FinishKeeps
<1>11. QED
  BY <1>1, <1>2, <1>3, <1>4, <1>5, <1>6, <1>7, <1>8, <1>9, <1>10 DEF ConnNext

(***************************************************************************)
(* What the pwsh is connected to is at every moment known to the banner,   *)
(* to a watcher, or to a disconnect that is still to run; a connect is     *)
(* watched until it is over; and so is the prompt on the page.             *)
(***************************************************************************)
THEOREM ConnInvariant == ConnSpec => []ConnInv
<1>1. ConnInit => ConnInv
  BY ConnInitially, SessionAssumption, ConnectionAssumption
<1>2. ConnSpec => []Basis
  <2>1. ConnTypeOK /\ QueueInv /\ ScriptInv => Basis
    BY DEF Basis
  <2>2. QED
    BY <2>1, ConnTypeCorrect, ConnectionImplementsSession, QueueInvariant, ScriptInvariant, PTL
<1>3. QED
  BY <1>1, <1>2, ConnStep, PTL DEF ConnSpec

(***************************************************************************)
(* Once all is quiet no device code is left on the page, unless a job has  *)
(* timed out, in whatever order connects, disconnects and their watchers   *)
(* have put it up and taken it down.                                       *)
(***************************************************************************)
THEOREM PromptTakenDown == ConnSpec => []NoStalePrompt
<1>1. ConnInv => NoStalePrompt
  BY DEF ConnInv, PromptWatched, NoStalePrompt, Quiet
<1>2. QED
  BY <1>1, ConnInvariant, PTL

(* When the queue is empty and no job is active, every job that was        *)
(* submitted is over.                                                      *)
LEMMA AllOver ==
  ASSUME TypeOK, QueueInv, active = None, queue = <<>>, NEW j \in Jobs, status[j] # "new"
  PROVE  status[j] \in Terminal
<1>1. Len(submitted) \in Nat /\ Len(queue) = 0
  BY LenProperties DEF TypeOK
<1>2. PICK i \in 1..Len(submitted) : submitted[i] = j
  BY DEF QueueInv, Books
<1>3. status[submitted[i]] \in Terminal
  <2>1. i < Len(submitted) \/ i = Len(submitted)
    BY <1>1, <1>2
  <2>2. CASE i < Len(submitted)
    BY <1>1, <2>2 DEF QueueInv, Books
  <2>3. CASE i = Len(submitted)
    BY <1>1, <2>3 DEF QueueInv, Books
  <2>4. QED
    BY <2>1, <2>2, <2>3
<1>4. QED
  BY <1>2, <1>3

LEMMA QuietKnows ==
  ASSUME ConnTypeOK, QueueInv, ConnInv, Quiet, psProc \notin killed,
         OnlyScriptErrors, NEW s \in Services, Unlinked(s), Link(s) # None
  PROVE  info[s] = Link(s)
<1>1. info[s] = Link(s) \/ Reported(s) \/ Leaving
  BY DEF ConnInv, LinkKnown
<1>2. ~Reported(s)
  BY DEF Reported, Quiet
<1>3. ~Leaving
  <2> SUFFICES ASSUME NEW d \in Jobs, status[d] \in {"queued", "running"} PROVE FALSE
    BY DEF Leaving
  <2>1. status[d] \in Terminal
    BY AllOver DEF Quiet, ConnTypeOK
  <2>2. QED
    BY <2>1 DEF Terminal
<1>4. QED
  BY <1>1, <1>2, <1>3

(***************************************************************************)
(* The banner never hides a connection where users sign in themselves:     *)
(* through any mix of connects, disconnects, restarts and crashes, once    *)
(* all is quiet connectionInfo says what the live pwsh is connected to.    *)
(***************************************************************************)
THEOREM NothingHidden ==
  ASSUME ~Hosted
  PROVE  ConnSpec => []NoHiddenConnection
<1>1. ConnTypeOK /\ QueueInv /\ ConnInv => NoHiddenConnection
  BY QuietKnows DEF NoHiddenConnection, Unlinked
<1>2. QED
  BY <1>1, ConnTypeCorrect, ConnectionImplementsSession, QueueInvariant, ConnInvariant, PTL

(***************************************************************************)
(* Where connects are app-only that still holds of Graph. (Of Exchange it  *)
(* does not: $global:ExoRest outlives a disconnect.)                       *)
(***************************************************************************)
GraphNotHidden ==
  /\ Quiet
  /\ psProc \notin killed
  /\ OnlyScriptErrors
  => (Link("graph") # None => info["graph"] = Link("graph"))

THEOREM GraphShown == ConnSpec => []GraphNotHidden
<1>1. ConnTypeOK /\ QueueInv /\ ConnInv => GraphNotHidden
  BY QuietKnows DEF GraphNotHidden, Unlinked, Services
<1>2. QED
  BY <1>1, ConnTypeCorrect, ConnectionImplementsSession, QueueInvariant, ConnInvariant, PTL
=============================================================================
