------------------------------ MODULE Session ------------------------------
(***************************************************************************)
(* One object of the session pool (sessions.js): the FIFO of jobs of a     *)
(* tenant, the poller of the job it runs, and the pwsh processes that have *)
(* been started for it.                                                    *)
(*                                                                         *)
(* Node runs one callback at a time, so a step is one callback of the      *)
(* event loop (a route handler, an interval tick, a setImmediate, a child  *)
(* process event) or one step of a pwsh process, which runs beside Node    *)
(* and meets it only through a pipe (stdin, stderr) and the files of a     *)
(* job (.ps1, .out, .err, .done).                                          *)
(***************************************************************************)
EXTENDS Naturals, Sequences

CONSTANTS
  Jobs,        \* job ids (uuidv4); each is handed to runInSession once
  None,        \* null
  MaxProcs,    \* bound: pwsh processes ever spawned for this session
  MaxTimers,   \* bound: restart timers pending at once
  Faults,      \* which of AllFaults may happen in a behaviour
  Unparsable   \* jobs whose script file may fail to parse

AllFaults == {"noexe",   \* PowerShell has not been detected
              "disk",    \* writing the script file throws
              "throw"}   \* stdin.write throws

ASSUME SessionAssumption ==
  /\ None \notin Jobs
  /\ MaxProcs \in Nat \ {0}
  /\ MaxTimers \in Nat
  /\ Faults \subseteq AllFaults
  /\ Unparsable \subseteq Jobs

Procs == 1..MaxProcs

VARIABLES
  server,      \* the Node process: an exception nobody catches ends it
  \* the job registry and the queue of the session
  status,      \* status of the job object of runInSession, "new" before it
  error,       \* job.error, by the kind of the message
  queue,       \* s.jobQueue
  active,      \* s.activeJobId
  pumps,       \* setImmediate(pumpQueue) callbacks not yet run
  pollers,     \* jobs with a live 500 ms interval
  heard,       \* jobs whose jobStderr contains a parse error
  \* the processes
  pooled,      \* the object is still in the pool
  psProc,      \* s.psProc: 0 for null, g for the g-th process spawned
  psAlive,     \* s.psAlive
  timers,      \* restartSession timers not yet fired
  phase,       \* what has become of each process
  killed,      \* processes that have been sent kill()
  \* pwsh
  stdin,       \* lines written to a process it has not read yet
  executing,   \* the script a process is running
  target,      \* the process a job's line was written to, 0 if none
  files,       \* what the job's result files hold
  \* history
  submitted    \* jobs in the order runInSession was called

jobVars  == <<server, status, error, queue, active, pumps, pollers, submitted>>
procVars == <<pooled, psProc, psAlive, timers, phase, killed>>
pwshVars == <<stdin, executing, target, files, heard>>
vars == <<jobVars, procVars, pwshVars>>

Servers == {"up", "down"}
Terminal == {"completed", "error"}
Statuses == {"new", "queued", "running"} \cup Terminal
Errors == {"none", "refused", "parse", "script", "timeout"}
Phases == {"unborn",  \* not spawned
           "up",      \* running
           "gone",    \* the OS process has ended, Node has not noticed
           "exited",  \* Node has run its exit handler: stdin is destroyed
           "closed"}  \* the close event has been delivered
Results == {"none",   \* no .done file
            "good",   \* output, or neither output nor error
            "bad"}    \* error and no output, or an envelope that is not JSON

TypeOK ==
  /\ server \in Servers
  /\ status \in [Jobs -> Statuses]
  /\ error \in [Jobs -> Errors]
  /\ queue \in Seq(Jobs)
  /\ active \in Jobs \cup {None}
  /\ pumps \in Nat
  /\ pollers \in SUBSET Jobs
  /\ heard \in SUBSET Jobs
  /\ pooled \in BOOLEAN
  /\ psProc \in 0..MaxProcs
  /\ psAlive \in BOOLEAN
  /\ timers \in 0..MaxTimers
  /\ phase \in [Procs -> Phases]
  /\ killed \in SUBSET Procs
  /\ stdin \in [Procs -> Seq(Jobs)]
  /\ executing \in [Procs -> Jobs \cup {None}]
  /\ target \in [Jobs -> 0..MaxProcs]
  /\ files \in [Jobs -> Results]
  /\ submitted \in Seq(Jobs)

(***************************************************************************)
(* createSession and the startSession that follows it in getSession.       *)
(***************************************************************************)
Init ==
  /\ server = "up"
  /\ status = [j \in Jobs |-> "new"]
  /\ error = [j \in Jobs |-> "none"]
  /\ queue = <<>>
  /\ active = None
  /\ pumps = 0
  /\ pollers = {}
  /\ heard = {}
  /\ pooled = TRUE
  /\ \/ psProc = 1 /\ psAlive = TRUE
     \/ "noexe" \in Faults /\ psProc = 0 /\ psAlive = FALSE
  /\ timers = 0
  /\ phase = [g \in Procs |-> IF g <= psProc THEN "up" ELSE "unborn"]
  /\ killed = {}
  /\ stdin = [g \in Procs |-> <<>>]
  /\ executing = [g \in Procs |-> None]
  /\ target = [j \in Jobs |-> 0]
  /\ files = [j \in Jobs |-> "none"]
  /\ submitted = <<>>

-----------------------------------------------------------------------------
(* Processes of the session.                                               *)

(* startSession, less psAlive: spawn the next process, or return early     *)
(* when no PowerShell is known.                                            *)
Spawns ==
  /\ psProc < MaxProcs
  /\ psProc' = psProc + 1
  /\ phase' = [phase EXCEPT ![psProc + 1] = "up"]

StartSession ==
  \/ Spawns /\ psAlive' = TRUE
  \/ "noexe" \in Faults /\ UNCHANGED <<psProc, phase, psAlive>>

(* getSession on an object that is in the pool: revive it if its flag says *)
(* that its process died.                                                  *)
GetSession ==
  /\ pooled
  /\ IF psAlive THEN UNCHANGED <<psProc, phase, psAlive>> ELSE StartSession

(* A route that resolves its session and then runs nothing: it answers 409 *)
(* or from a cache, or only starts to stage a certificate.                 *)
ResolveSession ==
  /\ server = "up"
  /\ GetSession
  /\ UNCHANGED <<jobVars, pwshVars, pooled, timers, killed>>

(* POST /api/restart-session: resolveSession calls getSession, which may   *)
(* spawn, then restartSession kills what is there and arms the timer.      *)
RestartSession ==
  /\ server = "up"
  /\ pooled
  /\ timers < MaxTimers
  /\ \/ /\ ~psAlive
        /\ Spawns
     \/ /\ psAlive \/ "noexe" \in Faults
        /\ UNCHANGED <<psProc, phase>>
  /\ killed' = killed \cup ({psProc'} \ {0})
  /\ psAlive' = FALSE
  /\ timers' = timers + 1
  /\ UNCHANGED <<jobVars, pwshVars, pooled>>

(* Mutant of RestartTimer: an interval instead of a one-shot timer.        *)
RestartTimer_Unguarded ==
  /\ server = "up"
  /\ timers' = timers - 1
  /\ StartSession
  /\ UNCHANGED <<jobVars, pwshVars, pooled, killed>>

(* The timer of restartSession. *)
RestartTimer ==
  /\ server = "up"
  /\ timers > 0
  /\ timers' = timers - 1
  /\ StartSession
  /\ UNCHANGED <<jobVars, pwshVars, pooled, killed>>

(* Mutant of DestroySession: the flag is left to the close event.          *)
DestroySession_FlagKept ==
  /\ server = "up"
  /\ pooled
  /\ timers = 0
  /\ pooled' = FALSE
  /\ killed' = killed \cup ({psProc} \ {0})
  /\ UNCHANGED <<jobVars, pwshVars, psProc, psAlive, timers, phase>>

(* evictIdle -> destroySession. A restart request has touched lastUsedAt   *)
(* less than a second before its timer fires, so no object that has been   *)
(* idle for half an hour has one pending.                                  *)
DestroySession ==
  /\ server = "up"
  /\ pooled
  /\ timers = 0
  /\ pooled' = FALSE
  /\ killed' = killed \cup ({psProc} \ {0})
  /\ psAlive' = FALSE
  /\ UNCHANGED <<jobVars, pwshVars, psProc, timers, phase>>

(* A process ends: it was killed, or pwsh crashed or was ended by the OS.  *)
ProcessEnds(g) ==
  /\ phase[g] = "up"
  /\ phase' = [phase EXCEPT ![g] = "gone"]
  /\ stdin' = [stdin EXCEPT ![g] = <<>>]
  /\ executing' = [executing EXCEPT ![g] = None]
  /\ UNCHANGED <<jobVars, pooled, psProc, psAlive, timers, killed,
                 target, files, heard>>

(* Node notices the exit and destroys the stdin stream of the child.       *)
ExitNoticed(g) ==
  /\ server = "up"
  /\ phase[g] = "gone"
  /\ phase' = [phase EXCEPT ![g] = "exited"]
  /\ UNCHANGED <<jobVars, pwshVars, pooled, psProc, psAlive, timers, killed>>

(* Mutant of CloseEvent: the handler only logs.                            *)
CloseEvent_FlagKept(g) ==
  /\ server = "up"
  /\ phase[g] = "exited"
  /\ phase' = [phase EXCEPT ![g] = "closed"]
  /\ UNCHANGED <<jobVars, pwshVars, pooled, psProc, psAlive, timers, killed>>

(* The "close" handler of ANY process of the session clears its flag.      *)
CloseEvent(g) ==
  /\ server = "up"
  /\ phase[g] = "exited"
  /\ phase' = [phase EXCEPT ![g] = "closed"]
  /\ psAlive' = FALSE
  /\ UNCHANGED <<jobVars, pwshVars, pooled, psProc, timers, killed>>

-----------------------------------------------------------------------------
(* The queue. PumpQueue and its parts are evaluated in steps that have     *)
(* already given the process variables their next values.                  *)

Writable ==
  psAlive' /\ psProc' # 0 /\ phase'[psProc'] \in {"up", "gone"}

(* executeInSession finds no live process, or stdin.write throws: the job  *)
(* fails and finishActive frees the queue.                                 *)
Refuse(q, st, n) ==
  /\ ~Writable \/ "throw" \in Faults
  /\ queue' = Tail(q)
  /\ status' = [st EXCEPT ![Head(q)] = "error"]
  /\ error' = [error EXCEPT ![Head(q)] = "refused"]
  /\ pumps' = n + 1
  /\ UNCHANGED <<server, active, pollers, stdin, target>>

(* executeInSession writes the script file, dot-sources it on stdin and    *)
(* starts polling. Writing to a process that has ended unnoticed is EPIPE, *)
(* an error event of stdin for which there is no listener.                 *)
Send(q, st, n) ==
  /\ Writable
  /\ queue' = Tail(q)
  /\ status' = [st EXCEPT ![Head(q)] = "running"]
  /\ active' = Head(q)
  /\ pollers' = pollers \cup {Head(q)}
  /\ target' = [target EXCEPT ![Head(q)] = psProc']
  /\ IF phase'[psProc'] = "up"
     THEN /\ stdin' = [stdin EXCEPT ![psProc'] = Append(@, Head(q))]
          /\ UNCHANGED server
     ELSE /\ server' = "down"
          /\ UNCHANGED stdin
  /\ pumps' = n
  /\ UNCHANGED error

(* writeFileSync throws out of executeInSession, past finishActive: to a   *)
(* caller that catches it, or out of the event loop.                       *)
Wedge(q, st, n, caught) ==
  /\ "disk" \in Faults
  /\ Writable
  /\ queue' = Tail(q)
  /\ status' = [st EXCEPT ![Head(q)] = "running"]
  /\ active' = Head(q)
  /\ pumps' = n
  /\ server' = IF caught THEN server ELSE "down"
  /\ UNCHANGED <<error, pollers, stdin, target>>

(* Mutant of PumpQueue: the activeJobId test is dropped.                   *)
PumpQueue_Eager(q, st, n, caught) ==
  IF q = <<>>
  THEN /\ queue' = q
       /\ status' = st
       /\ pumps' = n
       /\ UNCHANGED <<server, error, active, pollers, stdin, target>>
  ELSE Refuse(q, st, n) \/ Send(q, st, n) \/ Wedge(q, st, n, caught)

(* pumpQueue on the queue q and the statuses st, with n pumps scheduled.   *)
PumpQueue(q, st, n, caught) ==
  IF active # None \/ q = <<>>
  THEN /\ queue' = q
       /\ status' = st
       /\ pumps' = n
       /\ UNCHANGED <<server, error, active, pollers, stdin, target>>
  ELSE Refuse(q, st, n) \/ Send(q, st, n) \/ Wedge(q, st, n, caught)

(* runInSession. Express catches what a plain route throws, and a connect  *)
(* has its own handler; an async route and runPack have neither.           *)
RunInSession(j) ==
  /\ server = "up"
  /\ status[j] = "new"
  /\ submitted' = Append(submitted, j)
  /\ \E caught \in BOOLEAN :
       PumpQueue(Append(queue, j), [status EXCEPT ![j] = "queued"], pumps, caught)
  /\ UNCHANGED <<executing, files, heard>>

(* A route: resolveSession (getSession), then runInSession, in one tick.   *)
RequestJob(j) ==
  /\ GetSession
  /\ RunInSession(j)
  /\ UNCHANGED <<pooled, timers, killed>>

(* Code that holds the session object across an await (runPack between two *)
(* reports, a connect while the certificate is staged) calls runInSession  *)
(* without getSession, whatever has become of the session meanwhile.       *)
HolderJob(j) ==
  /\ UNCHANGED procVars
  /\ RunInSession(j)

(* The setImmediate of finishActive. *)
PumpTick ==
  /\ server = "up"
  /\ pumps > 0
  /\ UNCHANGED <<submitted, executing, files, heard, procVars>>
  /\ PumpQueue(queue, status, pumps - 1, FALSE)

-----------------------------------------------------------------------------
(* The 500 ms poller of a job. *)

(* Mutant of Settle: clearInterval is forgotten.                           *)
Settle_KeepsInterval(j, st, err) ==
  /\ server = "up"
  /\ status' = [status EXCEPT ![j] = st]
  /\ error' = [error EXCEPT ![j] = err]
  /\ heard' = heard \ {j}
  /\ active' = None
  /\ pumps' = pumps + 1
  /\ UNCHANGED <<server, queue, submitted, pollers, procVars,
                 stdin, executing, target, files>>

(* clearInterval, the final status, finishActive. *)
Settle(j, st, err) ==
  /\ server = "up"
  /\ status' = [status EXCEPT ![j] = st]
  /\ error' = [error EXCEPT ![j] = err]
  /\ pollers' = pollers \ {j}
  /\ heard' = heard \ {j}
  /\ active' = None
  /\ pumps' = pumps + 1
  /\ UNCHANGED <<server, queue, submitted, procVars, stdin, executing, target, files>>

PollParseError(j) ==
  /\ j \in pollers
  /\ j \in heard
  /\ files[j] = "none"
  /\ Settle(j, "error", "parse")

(* Mutant of PollDone: the .out file is watched instead of the .done file. *)
PollDone_OutFile(j) ==
  /\ j \in pollers
  /\ \/ files[j] # "none"
     \/ \E g \in Procs : executing[g] = j
  /\ IF files[j] = "good"
     THEN Settle(j, "completed", "none")
     ELSE Settle(j, "error", "script")

PollDone(j) ==
  /\ j \in pollers
  /\ files[j] # "none"
  /\ IF files[j] = "good"
     THEN Settle(j, "completed", "none")
     ELSE Settle(j, "error", "script")

(* Mutant of PollTimeout: the deadline is looked at only while the session *)
(* is alive.                                                               *)
PollTimeout_IfAlive(j) ==
  /\ psAlive
  /\ j \in pollers
  /\ j \notin heard
  /\ files[j] = "none"
  /\ Settle(j, "error", "timeout")

(* The deadline passes. The script may still be running, or unread.        *)
PollTimeout(j) ==
  /\ j \in pollers
  /\ j \notin heard
  /\ files[j] = "none"
  /\ Settle(j, "error", "timeout")

Poll(j) == PollParseError(j) \/ PollDone(j) \/ PollTimeout(j)

-----------------------------------------------------------------------------
(* pwsh reads its stdin one line at a time. *)

ReadScript(g) ==
  /\ phase[g] = "up"
  /\ executing[g] = None
  /\ stdin[g] # <<>>
  /\ executing' = [executing EXCEPT ![g] = Head(stdin[g])]
  /\ stdin' = [stdin EXCEPT ![g] = Tail(@)]
  /\ UNCHANGED <<jobVars, procVars, target, files, heard>>

(* Mutant of FinishScript: the .done file is written before the last line. *)
FinishScript_DoneFirst(g) ==
  /\ phase[g] = "up"
  /\ executing[g] # None
  /\ \E r \in Results \ {"none"} :
       files' = [files EXCEPT ![executing[g]] = r]
  /\ UNCHANGED <<jobVars, procVars, stdin, executing, target, heard>>

(* The script has written its result and, last, its .done file.            *)
FinishScript(g) ==
  /\ phase[g] = "up"
  /\ executing[g] # None
  /\ \E r \in Results \ {"none"} :
       files' = [files EXCEPT ![executing[g]] = r]
  /\ executing' = [executing EXCEPT ![g] = None]
  /\ UNCHANGED <<jobVars, procVars, stdin, target, heard>>

(* Mutant of ScriptDoesNotParse: jobStderr is a variable of the session,   *)
(* not reset between jobs.                                                 *)
ScriptDoesNotParse_Shared(g) ==
  /\ phase[g] = "up"
  /\ executing[g] \in Unparsable
  /\ executing' = [executing EXCEPT ![g] = None]
  /\ heard' = heard \cup {j \in Jobs : status[j] \notin Terminal}
  /\ UNCHANGED <<jobVars, procVars, stdin, target, files>>

(* The file does not parse: nothing of it runs, and the error text on      *)
(* stderr reaches whichever job is listening to this process.              *)
ScriptDoesNotParse(g) ==
  /\ phase[g] = "up"
  /\ executing[g] \in Unparsable
  /\ executing' = [executing EXCEPT ![g] = None]
  /\ heard' = heard \cup {j \in pollers : target[j] = g}
  /\ UNCHANGED <<jobVars, procVars, stdin, target, files>>

-----------------------------------------------------------------------------
Next ==
  \/ \E j \in Jobs : RequestJob(j) \/ HolderJob(j) \/ Poll(j)
  \/ PumpTick
  \/ ResolveSession
  \/ RestartSession
  \/ RestartTimer
  \/ DestroySession
  \/ \E g \in Procs :
       \/ ProcessEnds(g) \/ ExitNoticed(g) \/ CloseEvent(g)
       \/ ReadScript(g) \/ FinishScript(g) \/ ScriptDoesNotParse(g)

Spec == Init /\ [][Next]_vars

(* Node keeps running its intervals and its setImmediate callbacks; a poll *)
(* interval ends its job at the deadline at the latest. Nothing is assumed *)
(* of pwsh (a script may hang for ever) nor of requests.                   *)
Fairness ==
  /\ WF_vars(PumpTick)
  /\ \A j \in Jobs : WF_vars(Poll(j))

FairSpec == Spec /\ Fairness
-----------------------------------------------------------------------------
(* Properties. *)

(* The session is a FIFO service: started in submission order, one at a    *)
(* time, each once, with a verdict that later events (a script that ends   *)
(* after its job timed out, a crash, a restart) never change.              *)
Fifo == INSTANCE FifoService
          WITH Jobs <- Jobs, submitted <- submitted, status <- status
IsFifoService == Fifo!Spec

(* finishActive clears activeJobId whoever calls it, so a poller that      *)
(* outlived its job would free the queue under the job that runs: the only *)
(* live poller is that of the active job.                                  *)
OnlyActivePolled == pollers \subseteq {active}

(* No lost wakeup: a job waits only while another one is active or a pump  *)
(* is scheduled.                                                           *)
NoLostWakeup == queue # <<>> => active # None \/ pumps > 0

(* The queue is held by a job that nothing watches.                        *)
Wedged == active # None /\ active \notin pollers

(* Only an exception in writeFileSync wedges the queue: a job that holds   *)
(* it unwatched was never handed to a pwsh.                                *)
WedgedIsUnsent == Wedged => target[active] = 0

(* How queue, statuses and activeJobId fit together at every moment: the   *)
(* queue is the tail of what was submitted, what is before it is over, but *)
(* for the job that was last taken off it while that one is active.        *)
Books(sub, q, st, act) ==
  LET taken == Len(sub) - Len(q)
  IN  /\ taken >= 0
      /\ \A i \in 1..Len(q) : q[i] = sub[taken + i]
      /\ \A i, k \in 1..Len(sub) : sub[i] = sub[k] => i = k
      /\ \A j \in Jobs : st[j] = "new" <=> \A i \in 1..Len(sub) : sub[i] # j
      /\ \A i \in 1..Len(sub) :
           /\ i > taken => st[sub[i]] = "queued"
           /\ i < taken => st[sub[i]] \in Terminal
           /\ i = taken /\ act = None => st[sub[i]] \in Terminal
           /\ i = taken /\ act # None => act = sub[i] /\ st[act] = "running"
      /\ act # None => taken > 0

(* The inductive invariant of the queue: the books are right at every      *)
(* moment, and the poller, the pump and the process fit to them, whatever  *)
(* order pumpQueue, finishActive and the pollers run in.                   *)
QueueInv ==
  /\ Books(submitted, queue, status, active)
  /\ OnlyActivePolled
  /\ NoLostWakeup
  /\ WedgedIsUnsent
  /\ \A j \in Jobs : status[j] \in {"new", "queued"} => target[j] = 0

(* The scripts a pwsh is running or has yet to read are that of the active *)
(* job and those of jobs given up on; in particular the script of a job    *)
(* that is reported completed has ended.                                   *)
Unread(g) == {stdin[g][i] : i \in 1..Len(stdin[g])}
InFlight(g) == Unread(g) \cup ({executing[g]} \ {None})
OnlyAbandonedScriptsLinger ==
  \A g \in Procs : \A j \in InFlight(g) :
    j = active \/ (status[j] = "error" /\ error[j] \in {"timeout", "parse"})

(* The flag that makes getSession keep a process is down once Node has     *)
(* seen that process close, however many others were spawned or closed.    *)
AliveIsNotClosed == psAlive => psProc # 0 /\ phase[psProc] # "closed"

(* Nothing is written for a session object that was evicted: the next      *)
(* report of a pack that still holds it is refused.                        *)
EvictedIsSilent ==
  [][~pooled => \A g \in Procs : Len(stdin'[g]) <= Len(stdin[g])]_vars

(* Every submitted job gets a verdict, through hangs, crashes, restarts    *)
(* and eviction. Excused are a queue held by a job whose script file could *)
(* not be written (sessions.js:254) and a server that has ended, also by   *)
(* the EPIPE of a write to a pwsh that is gone (sessions.js:260).          *)
EveryJobEnds ==
  \A j \in Jobs :
    status[j] \in {"queued", "running"}
      ~> status[j] \in Terminal \/ Wedged \/ server = "down"

(* sessions.js:273 "a parse error means the file simply didn't run": as    *)
(* long as no job has timed out, that is so. (Past a timeout it is not: a  *)
(* script that pwsh reads late complains to the next job.)                 *)
ParseErrorIsOwn ==
  (\A j \in Jobs : error[j] # "timeout") =>
    \A j \in Jobs :
      error[j] = "parse" => /\ files[j] = "none"
                            /\ \A g \in Procs : j \notin InFlight(g)

(* The inductive invariant of the scripts: a script is at one place of the *)
(* process its job was sent to, it has left nothing before it ends, only   *)
(* the active job and jobs given up on have one, and, as long as no job    *)
(* has timed out, a job whose script was heard not to parse has none.      *)
Abandoned(j) == status[j] = "error" /\ error[j] \in {"timeout", "parse"}

AtOnePlace(g) ==
  /\ \A i, k \in 1..Len(stdin[g]) : stdin[g][i] = stdin[g][k] => i = k
  /\ executing[g] \notin Unread(g)

NeverSent(j) ==
  files[j] = "none" /\ j \notin heard /\ error[j] \in {"none", "refused"}

DidNotRun(j) == files[j] = "none" /\ \A g \in Procs : j \notin InFlight(g)

ScriptInv ==
  /\ \A g \in Procs : AtOnePlace(g)
  /\ \A g \in Procs : \A j \in InFlight(g) :
       target[j] = g /\ files[j] = "none" /\ (j = active \/ Abandoned(j))
  /\ \A j \in Jobs : target[j] = 0 => NeverSent(j)
  /\ \A j \in pollers : target[j] # 0
  /\ \A j \in Jobs : status[j] \notin Terminal => error[j] = "none"
  /\ (\A j \in Jobs : error[j] # "timeout") =>
       \A j \in Jobs : error[j] = "parse" \/ j \in heard => DidNotRun(j)

(* server.js:999 "Tear down every tenant session's pwsh on exit (don't     *)
(* orphan child processes)": shutdown kills s.psProc of every session in   *)
(* the pool, so a process that is neither that nor killed is an orphan.    *)
NoOrphan ==
  \A g \in Procs : phase[g] = "up" /\ g \notin killed => g = psProc
=============================================================================
