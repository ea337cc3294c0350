----------------------------- MODULE Connection -----------------------------
(***************************************************************************)
(* What a session object says it is connected to, and what its pwsh is     *)
(* connected to: the connect, disconnect and browse routes of server.js    *)
(* over the jobs of Session. Every step is a step of Session that also     *)
(* moves the data, or a tick of one of the 500 ms watchers of the routes.  *)
(*                                                                         *)
(* A route learns how its job ended from an interval of its own, which     *)
(* runs after the poller of the job has freed the queue: between the two,  *)
(* other routes and the next job may run.                                  *)
(***************************************************************************)
EXTENDS Session

CONSTANTS
  Tenants,    \* what a connect may be pointed at
  Hosted,     \* connects stage a Key Vault certificate (app-only)
  Routes      \* bound: the kinds of route that are asked for

Services == {"graph", "exchange"}
Kinds == Services \cup {"disconnect", "browse"}

ASSUME ConnectionAssumption ==
  /\ None \notin Tenants \cup Kinds
  /\ Hosted \in BOOLEAN
  /\ Routes \subseteq Kinds \cup {"run"}
  /\ "disk" \notin Faults   \* exceptions of writeFileSync are Session's subject

VARIABLES
  kind,      \* what a job is for; None: not asked for, or a plain report
  goal,      \* the tenant a connect is for
  staging,   \* connects waiting for stageTenantCert
  gaveUp,    \* connects whose job entry the catch block replaced by an error
  result,    \* what a job's .out file holds: the tenant connected to or read
  watchers,  \* jobs with a live watcher interval in server.js
  info,      \* s.connectionInfo: per service, the tenant or None
  cache,     \* s.entityCache / s.dashCache: the tenant the data are from
  cert,      \* the staged certificate file exists
  linked,    \* what each pwsh is connected to
  code,      \* _latestDeviceCode: a prompt is shown on the page
  late       \* history: the connects staging when the session was evicted

connVars == <<kind, goal, staging, gaveUp, result, watchers, info, cache, cert,
              linked, code, late>>
allVars == <<vars, connVars>>

NoLink == [s \in Services |-> None]
Links == [Services -> Tenants \cup {None}]

ConnTypeOK ==
  /\ TypeOK
  /\ kind \in [Jobs -> Kinds \cup {None}]
  /\ goal \in [Jobs -> Tenants \cup {None}]
  /\ staging \in SUBSET Jobs
  /\ gaveUp \in SUBSET Jobs
  /\ result \in [Jobs -> Tenants \cup {None}]
  /\ watchers \in SUBSET Jobs
  /\ info \in Links
  /\ cache \in Tenants \cup {None}
  /\ cert \in BOOLEAN
  /\ linked \in [Procs -> Links]
  /\ code \in BOOLEAN
  /\ late \in SUBSET Jobs

ConnInit ==
  /\ Init
  /\ kind = [j \in Jobs |-> None]
  /\ goal = [j \in Jobs |-> None]
  /\ staging = {}
  /\ gaveUp = {}
  /\ result = [j \in Jobs |-> None]
  /\ watchers = {}
  /\ info = NoLink
  /\ cache = None
  /\ cert = FALSE
  /\ linked = [g \in Procs |-> NoLink]
  /\ code = FALSE
  /\ late = {}

(* A job id not yet used by a route. *)
Fresh(j) == status[j] = "new" /\ kind[j] = None /\ j \notin staging \cup gaveUp

-----------------------------------------------------------------------------
(* Routes. *)

(* The delegated branch of the connect routes. *)
Connect(j, s, t) ==
  /\ ~Hosted /\ s \in Routes
  /\ Fresh(j)
  /\ RequestJob(j)
  /\ kind' = [kind EXCEPT ![j] = s]
  /\ goal' = [goal EXCEPT ![j] = t]
  /\ watchers' = watchers \cup {j}
  /\ code' = FALSE
  /\ UNCHANGED <<staging, gaveUp, result, info, cache, cert, linked, late>>

(* The app-only branch: the job is registered as running, the certificate  *)
(* is fetched, and the route has answered. (It clears the device code,     *)
(* which no app-only session sets.)                                        *)
ConnectAppOnly(j, s, t) ==
  /\ Hosted /\ s \in Routes
  /\ Fresh(j)
  /\ ResolveSession
  /\ kind' = [kind EXCEPT ![j] = s]
  /\ goal' = [goal EXCEPT ![j] = t]
  /\ staging' = staging \cup {j}
  /\ UNCHANGED <<gaveUp, result, watchers, info, cache, cert, linked, code, late>>

(* The await returns: whatever has become of the session meanwhile, the    *)
(* certificate is on disk and the connect is submitted.                    *)
CertStaged(j) ==
  /\ j \in staging
  /\ HolderJob(j)
  /\ staging' = staging \ {j}
  /\ cert' = TRUE
  /\ watchers' = watchers \cup {j}
  /\ UNCHANGED <<kind, goal, gaveUp, result, info, cache, linked, code, late>>

(* Mutant of StagingFails: the failure is only logged.                     *)
StagingFails_Unreported(j) ==
  /\ server = "up"
  /\ j \in staging
  /\ staging' = staging \ {j}
  /\ UNCHANGED <<vars, kind, goal, gaveUp, result, watchers, info, cache, cert,
                 linked, code, late>>

(* stageTenantCert throws: the entry of the job becomes an error.          *)
StagingFails(j) ==
  /\ server = "up"
  /\ j \in staging
  /\ staging' = staging \ {j}
  /\ gaveUp' = gaveUp \cup {j}
  /\ UNCHANGED <<vars, kind, goal, result, watchers, info, cache, cert,
                 linked, code, late>>

(* POST /api/disconnect: the job is submitted, and connectionInfo and the  *)
(* caches are cleared at once, before it runs.                             *)
Disconnect(j) ==
  /\ "disconnect" \in Routes
  /\ Fresh(j)
  /\ RequestJob(j)
  /\ kind' = [kind EXCEPT ![j] = "disconnect"]
  /\ info' = NoLink
  /\ cache' = None
  /\ code' = FALSE
  /\ UNCHANGED <<goal, staging, gaveUp, result, watchers, cert, linked, late>>

(* GET /api/browse/... and /api/dashboard that miss the cache, or find it  *)
(* older than five minutes.                                                *)
Browse(j) ==
  /\ "browse" \in Routes
  /\ Fresh(j)
  /\ info["graph"] # None
  /\ RequestJob(j)
  /\ kind' = [kind EXCEPT ![j] = "browse"]
  /\ watchers' = watchers \cup {j}
  /\ UNCHANGED <<goal, staging, gaveUp, result, info, cache, cert, linked, code, late>>

(* POST /api/browse/refresh, or a route that answers from the cache or     *)
(* with an error.                                                          *)
OnlyResolve ==
  /\ ResolveSession
  /\ cache' \in {cache, None}
  /\ UNCHANGED <<kind, goal, staging, gaveUp, result, watchers, info, cert,
                 linked, code, late>>

(* POST /api/run and the reports of a pack.                                *)
Report(j) ==
  /\ "run" \in Routes
  /\ Fresh(j)
  /\ RequestJob(j) \/ HolderJob(j)
  /\ UNCHANGED connVars

(* Mutant of Restart: connectionInfo is dropped, not made anew.            *)
Restart_NoObject ==
  /\ RestartSession
  /\ info' = None
  /\ UNCHANGED <<kind, goal, staging, gaveUp, result, watchers, cache, cert,
                 linked, code, late>>

(* POST /api/restart-session: restartSession drops the connection, not the *)
(* caches.                                                                 *)
Restart ==
  /\ RestartSession
  /\ info' = NoLink
  /\ UNCHANGED <<kind, goal, staging, gaveUp, result, watchers, cache, cert,
                 linked, code, late>>

(* Mutant of Evict: the certificate is not unlinked.                       *)
Evict_CertKept ==
  /\ DestroySession
  /\ late' = staging
  /\ UNCHANGED <<kind, goal, staging, gaveUp, result, watchers, info, cache, cert,
                 linked, code>>

(* Eviction unlinks the certificate, if there is one yet: a connect whose  *)
(* await is pending goes on with the session object it holds.              *)
Evict ==
  /\ DestroySession
  /\ cert' = FALSE
  /\ late' = staging
  /\ UNCHANGED <<kind, goal, staging, gaveUp, result, watchers, info, cache,
                 linked, code>>

-----------------------------------------------------------------------------
(* The watcher intervals. *)

(* job.output, which the poller reads only from a script that ended.       *)
Output(j) == IF status[j] = "completed" THEN result[j] ELSE None

(* What a watcher does once, last thing: a connect is recorded only if its *)
(* script reported one; data are cached whatever has happened since they   *)
(* were asked for.                                                         *)
Record(j) ==
  /\ watchers' = watchers \ {j}
  /\ info' = IF kind[j] \in Services /\ Output(j) # None
             THEN [info EXCEPT ![kind[j]] = Output(j)]
             ELSE info
  /\ cache' = IF kind[j] = "browse" /\ Output(j) # None THEN Output(j) ELSE cache
  /\ UNCHANGED <<vars, kind, goal, staging, gaveUp, result, cert, linked, late>>

(* The watcher of a delegated connect takes its prompt off the page.       *)
ClearDeviceCode(j) == code' = (code /\ (Hosted \/ kind[j] \notin Services))

(* Mutant of Watch: looks once, like a timer, instead of until the end.    *)
Watch_Once(j) ==
  /\ server = "up"
  /\ j \in watchers
  /\ Record(j)
  /\ ClearDeviceCode(j)

(* Mutant of Watch: an error is waited out.                                *)
Watch_OnlyCompleted(j) ==
  /\ server = "up"
  /\ j \in watchers
  /\ status[j] = "completed"
  /\ Record(j)
  /\ ClearDeviceCode(j)

(* Mutant of Watch: the prompt is taken down when a connect succeeds.      *)
Watch_PromptKept(j) ==
  /\ server = "up"
  /\ j \in watchers
  /\ status[j] \in Terminal
  /\ Record(j)
  /\ IF Output(j) # None THEN ClearDeviceCode(j) ELSE UNCHANGED code

(* The watcher of j sees that its job is over.                             *)
Watch(j) ==
  /\ server = "up"
  /\ j \in watchers
  /\ status[j] \in Terminal
  /\ Record(j)
  /\ ClearDeviceCode(j)

(* The dashboard gives up on a job after two minutes; its answer is an     *)
(* error, and nobody takes the data when they come.                        *)
GiveUpWaiting(j) ==
  /\ server = "up"
  /\ j \in watchers /\ kind[j] = "browse"
  /\ status[j] \notin Terminal
  /\ watchers' = watchers \ {j}
  /\ UNCHANGED <<vars, kind, goal, staging, gaveUp, result, info, cache, cert,
                 linked, code, late>>

(* Mutant of PollInTurn: the watchers tick less often than the pollers.    *)
PollInTurn_BeforeWatchers(j) ==
  /\ Poll(j)
  /\ UNCHANGED connVars

(* Pollers and watchers are all intervals of 500 ms, which Node keeps in   *)
(* one list and fires in the order in which they were (re)started: the     *)
(* poller of a job sent after j was over does not fire before the watcher  *)
(* of j has.                                                               *)
PollInTurn(j) ==
  /\ \A w \in watchers : status[w] \notin Terminal
  /\ Poll(j)
  /\ UNCHANGED connVars

-----------------------------------------------------------------------------
(* Scripts. *)

(* What a connect leaves of the link of its pwsh. Graph is disconnected    *)
(* first, so a Graph connect that fails leaves none. The app-only Exchange *)
(* script replaces $global:ExoRest before it verifies that it works, and   *)
(* may fail before or after.                                               *)
Leaves(g, s, t, r) ==
  IF r = "good" THEN {t}
  ELSE IF s = "graph" THEN {None}
  ELSE {linked[g][s], IF Hosted THEN t ELSE linked[g][s]}

ConnectScript(g, s, t, r) ==
  \E link \in Leaves(g, s, t, r) : linked' = [linked EXCEPT ![g][s] = link]

(* What a disconnect does: both modules are told to, errors ignored. An    *)
(* app-only Exchange connection is not the module's: it lives in           *)
(* $global:ExoRest, which the script leaves alone.                         *)
DisconnectScript(g) ==
  LET left == IF Hosted THEN linked[g]["exchange"] ELSE None
  IN  linked' = [linked EXCEPT ![g] = [s \in Services |-> IF s = "graph" THEN None ELSE left]]

(* A script ends, having done what its kind does to the connection.        *)
Finish(g) ==
  LET j == executing[g]
      r == files'[j]
  IN  /\ FinishScript(g)
      /\ \/ /\ kind[j] \in Services
            /\ ConnectScript(g, kind[j], goal[j], r)
            /\ result' = [result EXCEPT ![j] = IF r = "good" THEN goal[j] ELSE None]
         \/ /\ kind[j] = "disconnect"
            /\ r = "good"
            /\ DisconnectScript(g)
            /\ UNCHANGED result
         \/ /\ kind[j] = "browse"
            /\ linked[g]["graph"] = None => r = "bad"
            /\ result' = [result EXCEPT ![j] = IF r = "good" THEN linked[g]["graph"] ELSE None]
            /\ UNCHANGED linked
         \/ /\ kind[j] = None
            /\ UNCHANGED <<result, linked>>
      /\ UNCHANGED <<kind, goal, staging, gaveUp, watchers, info, cache, cert, code, late>>

(* A delegated connect prints a device code, and Node reads it; a script   *)
(* may print one again while it runs.                                      *)
Prompt(g) ==
  /\ server = "up"
  /\ executing[g] # None
  /\ ~Hosted /\ kind[executing[g]] \in Services
  /\ code' = TRUE
  /\ UNCHANGED <<vars, kind, goal, staging, gaveUp, result, watchers, info, cache,
                 cert, linked, late>>

End(g) ==
  /\ ProcessEnds(g)
  /\ linked' = [linked EXCEPT ![g] = NoLink]
  /\ UNCHANGED <<kind, goal, staging, gaveUp, result, watchers, info, cache, cert, code, late>>

-----------------------------------------------------------------------------
ConnNext ==
  \/ \E j \in Jobs :
       \/ \E s \in Services, t \in Tenants : Connect(j, s, t) \/ ConnectAppOnly(j, s, t)
       \/ CertStaged(j) \/ StagingFails(j)
       \/ Disconnect(j) \/ Browse(j) \/ Report(j)
       \/ Watch(j) \/ GiveUpWaiting(j)
       \/ PollInTurn(j)
  \/ OnlyResolve
  \/ Restart
  \/ Evict
  \/ (PumpTick \/ RestartTimer) /\ UNCHANGED connVars
  \/ \E g \in Procs :
       \/ Finish(g) \/ Prompt(g) \/ End(g)
       \/ /\ ExitNoticed(g) \/ CloseEvent(g) \/ ReadScript(g) \/ ScriptDoesNotParse(g)
          /\ UNCHANGED connVars

ConnSpec == ConnInit /\ [][ConnNext]_allVars

(* Intervals keep ticking and Session is as fair as before; the fetches of *)
(* stageTenantCert end, by an answer, an error or the client's timeout.    *)
ConnFairSpec ==
  /\ ConnSpec
  /\ WF_allVars(PumpTick /\ UNCHANGED connVars)
  /\ \A j \in Jobs :
       /\ WF_allVars(PollInTurn(j))
       /\ WF_allVars(Watch(j))
       /\ WF_allVars(CertStaged(j) \/ StagingFails(j))
-----------------------------------------------------------------------------
(* Properties. *)

(* Nothing that could still change the connection or the banner is under   *)
(* way.                                                                    *)
Quiet ==
  /\ active = None /\ queue = <<>> /\ timers = 0
  /\ watchers = {} /\ staging = {}
  /\ psProc # 0 => InFlight(psProc) = {}

(* What the pwsh of the session is connected to. *)
Link(s) == IF psProc = 0 THEN None ELSE linked[psProc][s]

(* No job has been refused, has timed out or was not understood.           *)
OnlyScriptErrors == \A j \in Jobs : status[j] = "error" => error[j] = "script"

(* No job has been refused, has timed out or has reported an error.        *)
NoFailure == \A j \in Jobs : status[j] # "error"

(* The banner never hides a connection: once all is quiet, what the live   *)
(* pwsh is connected to is what connectionInfo says, through any mix of    *)
(* connects, disconnects, restarts and crashes. The disconnect route       *)
(* clears connectionInfo when it is asked, not when the script runs, so    *)
(* this rests on the order of the queue. Jobs that timed out, or were      *)
(* refused, have no known effect and are left out.                         *)
NoHiddenConnection ==
  /\ Quiet
  /\ psProc \notin killed
  /\ OnlyScriptErrors
  => \A s \in Services : Link(s) # None => info[s] = Link(s)

(* The inductive invariant of the connection: why the banner can be        *)
(* trusted to hide nothing while things are still under way. What the pwsh *)
(* is linked to is in connectionInfo already, or is the result of a        *)
(* connect still watched, or will be undone by a disconnect still to run.  *)
Reported(s) ==
  \E j \in watchers :
    /\ kind[j] = s /\ result[j] = Link(s) /\ files[j] = "good"
    /\ j = active \/ status[j] = "completed"

Leaving ==
  \E j \in Jobs :
    kind[j] = "disconnect" /\ status[j] \in {"queued", "running"} /\ files[j] = "none"

(* $global:ExoRest, the app-only Exchange link, survives a disconnect, and *)
(* a connect that fails may have replaced it.                              *)
Unlinked(s) == Hosted => s = "graph"

LinkKnown ==
  psProc \notin killed =>
    \A s \in Services :
      Unlinked(s) /\ Link(s) # None => info[s] = Link(s) \/ Reported(s) \/ Leaving

(* The active connect has linked s last. *)
Newest(s) == active # None /\ kind[active] = s /\ files[active] = "good"

LinkOrder ==
  /\ active # None /\ target[active] \notin {0, psProc} => \A s \in Services : Link(s) = None
  /\ \A s \in Services : Newest(s) /\ Link(s) # None => result[active] = Link(s)
  /\ \A i, j \in watchers : status[i] \in Terminal /\ status[j] \in Terminal => i = j
  /\ \A s \in Services : \A j \in watchers :
       Unlinked(s) /\ kind[j] = s /\ Output(j) # None /\ Link(s) # None =>
         Output(j) = Link(s) \/ Newest(s)

(* Until a connect is over it is watched. *)
ConnectWatched ==
  \A j \in Jobs :
    kind[j] \in Services /\ status[j] # "new" => j \in watchers \/ status[j] \in Terminal

(* Nothing has run on a process yet to be spawned. *)
OnlySpawnedLinked ==
  /\ \A g \in Procs : g > psProc => linked[g] = NoLink
  /\ \A j \in Jobs : target[j] <= psProc

(* Who will take the prompt off the page. *)
PromptWatched ==
  code /\ (\A j \in Jobs : error[j] # "timeout") =>
    ~Hosted /\ \E j \in watchers : kind[j] \in Services

ConnInv ==
  /\ ConnectWatched
  /\ OnlySpawnedLinked
  /\ PromptWatched
  /\ OnlyScriptErrors => LinkOrder /\ LinkKnown

(* A connect that stages a certificate is registered as running before it  *)
(* is queued: it is not left so, whether or not the certificate comes.     *)
EveryConnectEnds ==
  \A j \in Jobs :
    j \in staging ~> j \in gaveUp \/ status[j] \in Terminal \/ server = "down"

(* No watcher interval ticks for ever: it ends with its job, through       *)
(* errors, timeouts, restarts and eviction.                                *)
EveryWatcherStops ==
  \A j \in Jobs : j \in watchers ~> j \notin watchers \/ server = "down"

(* sessions.js:70 "Connection state (what this tenant session is connected *)
(* as)": when all is quiet and every job has succeeded, a service that     *)
(* connectionInfo reports is one that the live pwsh of the session is      *)
(* connected to.                                                           *)
BannerIsTrue ==
  Quiet /\ NoFailure /\ psAlive /\ phase[psProc] = "up" =>
    \A s \in Services : info[s] # None => Link(s) = info[s]

(* sessions.js:79 "a global browse/dashboard cache would serve tenant A's  *)
(* users/counts to a tenant B viewer": when all is quiet and every job has *)
(* succeeded, cached data are of the tenant the session is connected to.   *)
CacheIsOfConnectedTenant ==
  Quiet /\ NoFailure =>
    (cache # None /\ info["graph"] # None => cache = info["graph"])

(* No prompt for a sign-in that is over stays on the page, in whatever     *)
(* order connects, disconnects and their watchers clear it; but for a      *)
(* script that prompts after its job has been given up.                    *)
NoStalePrompt ==
  Quiet /\ (\A j \in Jobs : error[j] # "timeout") => ~code

(* An evicted session leaves a certificate on disk only by a connect that  *)
(* was fetching one as the session was evicted, and whose fetch succeeded  *)
(* afterwards: nothing else, and no connect that asks later, puts it back. *)
CertOnlyOfLateConnect ==
  ~pooled /\ cert => \E j \in late : j \notin staging \cup gaveUp
=============================================================================
