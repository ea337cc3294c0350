-------------------------------- MODULE Pack --------------------------------
(***************************************************************************)
(* A run of an audit pack (server.js: runPack) over a session. Its steps   *)
(* are those of FifoService, which theorem ImplementsFifo proves of a      *)
(* session, narrowed to what one callback can do, to the limit of a job,   *)
(* and to a queue that a job of another request may wedge.                 *)
(*                                                                         *)
(* The i-th report of the pack has the job i. Time is counted in ticks: a  *)
(* session ends the job it runs after JobLimit, and waitForJob gives up    *)
(* WaitLimit after it was called, whether the job has run or not.          *)
(***************************************************************************)
EXTENDS Naturals, Sequences

CONSTANTS
  Length,      \* the number of reports of the pack
  Exchange,    \* the reports that need Exchange (ex)
  Unrunnable,  \* the reports that are unknown, or whose command is refused
  Others,      \* bound: the jobs other requests submit
  JobLimit,    \* 300 s, the timeout of executeInSession
  WaitLimit    \* 320 s, the timeout of waitForJob

Reports == 1..Length
Jobs == Reports \cup Others

ASSUME PackAssumption ==
  /\ Length \in Nat
  /\ Exchange \subseteq Reports /\ Unrunnable \subseteq Reports
  /\ Others \cap Reports = {}
  /\ JobLimit \in Nat \ {0} /\ WaitLimit \in Nat
  /\ JobLimit <= WaitLimit

VARIABLES
  submitted, status,  \* the session, as in FifoService
  wedged,             \* its queue is held by a job nothing watches
  ranFor,             \* how long the running job has run
  connected,          \* connectionInfo.exchangeConnected
  at,                 \* the report whose turn it is: 0 before the run
  results,            \* packJob.results, by status
  waitedFor,          \* how long waitForJob has waited
  behind              \* history: reports whose job did not start at once

session == <<submitted, status, wedged, ranFor>>
vars == <<session, connected, at, results, waitedFor, behind>>

Fifo == INSTANCE FifoService
          WITH Jobs <- Jobs, submitted <- submitted, status <- status

Statuses == {"new", "queued", "running", "completed", "error"}
Decided == {"completed", "error", "skipped"}

TypeOK ==
  /\ submitted \in Seq(Jobs) /\ status \in [Jobs -> Statuses]
  /\ wedged \in BOOLEAN /\ connected \in BOOLEAN
  /\ ranFor \in 0..JobLimit /\ waitedFor \in 0..(WaitLimit + 1)
  /\ at \in 0..(Length + 1)
  /\ results \in [Reports -> {"pending", "running"} \cup Decided]
  /\ behind \subseteq Reports

Init ==
  /\ Fifo!Init
  /\ wedged = FALSE /\ ranFor = 0
  /\ connected \in BOOLEAN
  /\ at = 0
  /\ results = [i \in Reports |-> "pending"]
  /\ waitedFor = 0
  /\ behind = {}
-----------------------------------------------------------------------------
(* The session. A callback moves at most two jobs: the one it submits and  *)
(* the one it takes off the queue.                                         *)

After(st) == {st} \cup {move[2] : move \in {m \in Fifo!Moves : m[1] = st}}

Serves ==
  /\ \E j, k \in Jobs : \E sj \in After(status[j]), sk \in After(status[k]) :
       status' = [status EXCEPT ![j] = sj, ![k] = sk]
  /\ Fifo!Serve
  /\ wedged => \A j \in Jobs : status'[j] \in {status[j], "queued"}
  /\ ranFor' = IF \E j \in Jobs : status[j] = "running" /\ status'[j] = "running"
               THEN ranFor ELSE 0

Moves ==
  /\ UNCHANGED submitted
  /\ Serves
  /\ status' # status
  /\ UNCHANGED <<wedged, connected, at, results, waitedFor, behind>>

OtherJob ==
  /\ \E j \in Others : submitted' = Append(submitted, j)
  /\ Serves
  /\ UNCHANGED <<wedged, connected, at, results, waitedFor, behind>>

(* The script file of another request's job cannot be written.             *)
Wedges ==
  /\ \E j \in Others : status[j] = "running"
  /\ ranFor = 0
  /\ wedged' = TRUE
  /\ UNCHANGED <<submitted, status, ranFor, connected, at, results, waitedFor, behind>>

(* A connect, a disconnect or a restart.                                   *)
ExchangeChanges ==
  /\ connected' = ~connected
  /\ UNCHANGED <<session, at, results, waitedFor, behind>>

Waiting == at \in Reports

(* Time passes, as long as no interval has something to do before.         *)
Tick ==
  /\ (\E j \in Jobs : status[j] = "running") /\ ~wedged => ranFor < JobLimit
  /\ Waiting => waitedFor <= WaitLimit
  /\ ranFor' = IF (\E j \in Jobs : status[j] = "running") /\ ranFor < JobLimit
               THEN ranFor + 1 ELSE ranFor
  /\ waitedFor' = IF Waiting THEN waitedFor + 1 ELSE waitedFor
  /\ <<ranFor', waitedFor'>> # <<ranFor, waitedFor>>
  /\ UNCHANGED <<submitted, status, wedged, connected, at, results, behind>>
-----------------------------------------------------------------------------
(* runPack. *)

Runnable(i) == i \notin Unrunnable /\ (i \in Exchange => connected)

(* What is passed over is decided without a job.                           *)
Passed(i) == IF i \in Exchange /\ ~connected THEN "skipped" ELSE "error"

Entries(res, i, next) ==
  [k \in Reports |-> IF k = next THEN "running"
                     ELSE IF k \in i..(next - 1) THEN Passed(k)
                     ELSE res[k]]

(* Mutant of Goes: one deadline for the jobs of the whole pack.            *)
Goes_OneDeadline(i, res) ==
  \E next \in i..(Length + 1) :
    /\ \A k \in i..(next - 1) : ~Runnable(k)
    /\ next \in Reports => Runnable(next)
    /\ results' = Entries(res, i, next)
    /\ at' = next
    /\ IF next \in Reports
       THEN /\ submitted' = Append(submitted, next)
            /\ Serves
            /\ behind' = IF status'[next] = "queued" THEN behind \cup {next} ELSE behind
            /\ UNCHANGED wedged
       ELSE UNCHANGED <<session, behind>>
    /\ UNCHANGED <<waitedFor, connected>>

(* The loop from its i-th round to the next await, or to its end; res are  *)
(* the results before.                                                     *)
Goes(i, res) ==
  \E next \in i..(Length + 1) :
    /\ \A k \in i..(next - 1) : ~Runnable(k)
    /\ next \in Reports => Runnable(next)
    /\ results' = Entries(res, i, next)
    /\ at' = next
    /\ waitedFor' = 0
    /\ IF next \in Reports
       THEN /\ submitted' = Append(submitted, next)
            /\ Serves
            /\ behind' = IF status'[next] = "queued" THEN behind \cup {next} ELSE behind
            /\ UNCHANGED wedged
       ELSE UNCHANGED <<session, behind>>
    /\ UNCHANGED connected

(* POST /api/pack/run. *)
RunPack ==
  /\ at = 0
  /\ Goes(1, results)

(* The interval of waitForJob finds the job over.                          *)
Resolve ==
  /\ Waiting
  /\ status[at] \in Fifo!Over
  /\ Goes(at + 1, [results EXCEPT ![at] = status[at]])

(* Mutant of TimedOut: waitForJob has no timeout.                          *)
TimedOut_Never == FALSE

TimedOut == waitedFor > WaitLimit

(* Mutant of GiveUp: the entry gets the status of the job it is given.     *)
GiveUp_JobStatus ==
  /\ Waiting
  /\ status[at] \notin Fifo!Over
  /\ TimedOut
  /\ Goes(at + 1, [results EXCEPT ![at] = status[at]])

(* It finds it neither over nor in time, and resolves to the job as it is. *)
GiveUp ==
  /\ Waiting
  /\ status[at] \notin Fifo!Over
  /\ TimedOut
  /\ Goes(at + 1, [results EXCEPT ![at] = "error"])

Next ==
  \/ RunPack \/ Resolve \/ GiveUp
  \/ Moves \/ OtherJob \/ Wedges \/ ExchangeChanges
  \/ Tick

Spec == Init /\ [][Next]_vars

(* The intervals of Node run, and time passes. Nothing is assumed of the   *)
(* session but that its poller, too, is such an interval.                  *)
Fairness == WF_vars(Resolve) /\ WF_vars(GiveUp) /\ WF_vars(Tick) /\ WF_vars(Moves)

FairSpec == Spec /\ Fairness
-----------------------------------------------------------------------------
(* Properties. *)

(* server.js:668 "Runs a pack's reports sequentially": every entry before  *)
(* the turn is decided, none after it is touched, and a pack that is       *)
(* reported completed has no entry left open.                              *)
EntriesInTurn ==
  \A i \in Reports :
    /\ i < at => results[i] \in Decided
    /\ i = at => results[i] = "running"
    /\ i > at => results[i] = "pending" /\ status[i] = "new"

(* An entry tells how its job ended. It is in error without its job being  *)
(* so only if the job had to wait behind others (the 320 s of waitForJob   *)
(* count from the submission, the 300 s of the job from its start) or      *)
(* behind one that wedges the queue; and such a job may yet run.           *)
EntriesAreTrue ==
  \A i \in Reports :
    /\ results[i] = "completed" => status[i] = "completed"
    /\ results[i] = "error" /\ i \notin Unrunnable /\ i \notin behind
         => status[i] = "error"

(* The inductive invariant of a pack: why an entry is only given up after  *)
(* it had to wait. A job that started as it was submitted has run for as   *)
(* long as it was waited for, and nothing can wedge the queue under it.    *)
SessionServes ==
  /\ \A j \in Jobs : status[j] = "new" <=> \A i \in 1..Len(submitted) : submitted[i] # j
  /\ Fifo!InOrder(submitted, status)

RunsInTime ==
  Waiting /\ at \notin behind /\ status[at] \notin Fifo!Over =>
    status[at] = "running" /\ ~wedged /\ waitedFor <= ranFor

PackInv ==
  /\ SessionServes
  /\ EntriesInTurn
  /\ EntriesAreTrue
  /\ RunsInTime

(* A pack comes to its end, whatever becomes of the session. That the      *)
(* script file of the pack's own job cannot be written is left out: the    *)
(* exception leaves runPack, which nobody awaits, and ends the server.     *)
PackEnds == Waiting ~> at = Length + 1
=============================================================================
