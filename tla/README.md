# TLA+ models of M365 Admin Tool

M365 Admin Tool is a Node server (`server.js` and the modules beside it) that answers a web page by
running PowerShell: for each tenant it keeps one long-lived `pwsh` process, writes report scripts to
its stdin one at a time, and reads the results from files. This directory models the parts of it that
keep state or order, checks them with TLC, and proves the core of them with TLAPS.

Line numbers refer to the sources at the modelled commit; `PROJECT.json` maps every definition to the
lines it stands for.

## 1. Inventory

### Parts, state, operations

| Part | State | Operations | What makes it correct |
|---|---|---|---|
| Session engine, `sessions.js` | pool of sessions by tenant slug; in each `psProc`, `psAlive`, `jobQueue`, `activeJobId`, `connectionInfo`; the registry `jobs`; the files of each job | `getSession` (create or revive), `runInSession`, `pumpQueue`, `executeInSession` and its poll interval, `finishActive`, `restartSession` and its timer, `destroySession` by `evictIdle` and at exit, the close and error handlers | jobs start in submission order, one at a time, each once; a verdict is final; every job gets one; no process is lost track of |
| Connection routes, `server.js` 312-563, 785-805; `tenants.js`, `keyvault.js` | `connectionInfo`, `entityCache`, `dashCache`, `certPath` of a session; the device code all sessions share; one watcher interval for each connect or cached read; what the `pwsh` is really connected to | connect (delegated or with a certificate), disconnect, restart, browse, refresh, dashboard | the banner says what the process is connected to; cached data are of that tenant; a connect always ends; no prompt outlives its sign-in |
| Exchange REST helper, `tenants.js` 74-189, `reports.js` (the fan-out reports) | one paging loop for each call: the page it is at, rounds, retries, rows | list the mailboxes, then ask about each, a few at a time; follow pages, retry what is throttled | the report is given all rows of a mailbox or an error for it |
| Authentication, `auth.js` | none (a function of the headers) | `decodePrincipal`, `userMiddleware` | a user whose claims are lost has fewer rights, never more |
| PowerShell detection and installs, `server.js` 120-175, 338-346; `runOneShot` | `detectedPS`, the modules on the machine | the two loops of `detectPowerShell`, which may overlap; the installation of a module | the verdict is that of the probe it was made from |
| Audit packs, `packs.js`, `server.js` 667-758, `waitForJob` | `packJob.results`, the index of the loop | `runPack`, one await for each report | entries decided in turn and truly; the pack ends |
| Audit log, `audit.js` | monthly files, `_lastHash` | `audit`, `seedLastHash`, `verifyAuditChain` | an undamaged log verifies; what verifies is what was audited |
| RBAC engine, `rbac.js` 124-217 | none (a function of user and store) | `isAdmin`, `resolveRoles`, `hasToolAccess`, `can`, `allowedTenants` | used by every guard |
| RBAC store and admin API, `rbac.js` 22-118, `server.js` 830-984 | `rbac.json`, `_cache`, `_mtimeMs` | `getStore`, `saveStore`, `initStore`, seven editing routes | an acknowledged edit takes effect; no dangling references; deleting never grants |
| Snapshots and diff, `snapshots.js`, `server.js` 623-665 | snapshot files | save, load, delete, `diffRows` | a diff tells what changed, no less and no more |
| Report catalog, read-only guard, temp sweep, CSV, web page, deployment | see section 9 | | |

### How the parts interact

A request is given a user by `userMiddleware`, then passes the access gate (`server.js` 278-301), which
reads the store through `getStore` and decides with the RBAC engine. A route then resolves its session (`getSession`, which may revive a dead
process), and hands a script to `runInSession`, which answers with a job id at once. The job is written
to `pwsh` when its turn comes; a 500 ms interval of the session engine looks for the `.done` file. A
connect or a cached read has a *second* interval in `server.js` that waits for the job to be over and
then writes `connectionInfo` or a cache. A pack is an async loop that awaits one job after the other.
Many of the routes that change state call `audit`, synchronously. The page polls `/api/job/:jobId`.

### What is hard here

* **Interleaving.** Node runs one callback at a time, but the state of a session is touched by route
  handlers, by the poller of the active job, by `setImmediate(pumpQueue)`, by the watchers, by the close
  event of every process ever spawned, by the restart timer, by eviction, and by code that resumes after
  an `await` with a session object in hand. `pwsh` runs beside all that.
* **Timeouts.** A job is given up while its script still runs; the queue goes on behind it. A pack gives
  up a job that runs later all the same.
* **Failure.** `pwsh` may die at any time and Node notices in two steps (stdin destroyed, then the close
  event); the script file may not be writable; `stdin.write` may throw, or may succeed towards a process
  that has gone; the certificate may not come; a save or an append may fail or be cut short.
* **Stale state.** `connectionInfo` outlives its process; caches outlive the connection; the store cache
  is trusted by modification time; the last audit hash is kept in memory.

`PROJECT.json` lists each of these hazards with its line and the properties that would show it go wrong.

## 2. Modules

```
FifoService            what a session promises                 (abstract)
  ^ refined by
Session                sessions.js: queue, poller, processes   <- Session_proofs
  ^ extended by
Connection             routes and watchers over Session's jobs <- Connection_proofs
FifoService <- Pack    runPack over what keeps the promise <- Pack_proofs
Rbac <- Auth <- Access decisions; users; store, cache, admin API <- Access_proofs
AuditLog               hash chain                              <- AuditLog_proofs
Harvest                what an Exchange report promises        (abstract)
  ^ refined by
ExoRest                paging, retries, parallel calls         <- ExoRest_proofs
Detection              detectPowerShell and installs
Snapshot               snapshot files and diff         <- Snapshot_proofs
NumberFacts            lemmas for AuditLog_proofs and Snapshot_proofs
MCSession MCConnection MCAccess MCDetection MCSnapshot     values for TLC
```

**Session.** One object of the pool and every `pwsh` ever spawned for it. A step is one callback of the
event loop, with all it calls (a route that submits a job runs `getSession`, `runInSession` and the first
`pumpQueue` in one step, as the code does), or one step of a `pwsh`. `phase` follows a process from
`up` over `gone` (ended, Node has not noticed), `exited` (stdin destroyed) to `closed` (the handler has
cleared `psAlive`, whichever process it belonged to). `pumps` counts the `setImmediate` callbacks,
`pollers` the live intervals, `heard` the jobs that have seen a parse error on stderr. `Writable` is the
guard of `executeInSession`; `Refuse`, `Send` and `Wedge` are its three ends. `server = "down"` is an
exception that nobody catches: writing to a process that has gone (the `EPIPE` event has no listener),
or `writeFileSync` throwing where nothing catches it. `HolderJob` is a submission without `getSession`,
by code that held the session across an await.

**Connection** conjoins each step of Session with what the routes do with it: `kind` and `goal` of a job,
`staging` (the certificate is being fetched), `watchers`, `info` (= `connectionInfo`), `cache` and, on the
other side, `linked`: what each process is connected to. `Hosted` selects the app-only branches. Since a
tick of a watcher comes after the poller has freed the queue, other steps may fall between the two. All
these intervals have the same period, and Node fires intervals of one period in the order in which they
were armed; `PollInTurn` states the consequence. `gaveUp` holds the jobs whose route has stopped waiting:
a connect whose certificate did not come, a dashboard after its two minutes. `late` is a history variable: the
connects that were still fetching their certificate when the session was evicted. `Evict` takes no notice of
them, as `sessions.js:107-123` does not. `Leaves` is what a connect script leaves the process connected to when it
fails: nothing, or (app-only Exchange, which sets `$global:ExoRest` before it is verified) the new tenant.
`Routes` bounds which routes a run asks for. `code` says whether a device
code is shown: set by `Prompt` whenever the stdout of a script has one, cleared where the code clears it.

**Pack** is built on `FifoService`, not on `Session`: its session takes the steps of that specification, narrowed
to what one callback can do (it moves at most two jobs), to the 300 s of a job, and to a queue that may be wedged
by a job of others. That these narrowings hold of `Session` is read off the code, not proved. Time is counted in
ticks.

**ExoRest** is one report: the listing (call 0) and one call for each mailbox of `Invoke-ExoRestBatch`. A page
is a number, so the rows of a call say which pages they came from. `Round` is one turn of the loop that
`Page`, `Retry` and `Fail` share; `guard` counts rounds, those of retries included, and `attempt` retries over
all pages, as the code does. `Harvest` is what the helpers promise the report that calls them; `certain` becomes
the mailboxes that fit into the limits. What the report then makes of an error row is text of the catalog, and
differs from report to report (section 8).

**Detection** is `detectPowerShell`: `at` is the await a detection is in; a probe finds what is on the machine
or nothing (it may fail or take too long); installing may add the module or not.

**AuditLog** keeps the lines of all files in reading order. SHA-256 is taken to be injective, so a hash is
the sequence of what was hashed into it; it has no key, so others can compute it. A call of `audit()` ends in
one of four ways: `Audit`, `AuditFails` (the append throws, with nothing or part of the line written),
`AuditThrows` (the directory or the seed throws, before `_lastHash` advances) and `AuditCut` (the server ends in the
middle). `Damage` is lines lost, altered or exchanged behind the server's back with their hashes left alone,
`Rehash` makes all hashes fit what the lines then say. Three history variables tell the cases apart: `skipped` (the
entries of `AuditThrows`), `intact`, and `rehashed` (never, in this run, or before it). **Access** keeps the file, the cache and whether the cache's modification time is that of the
file (a save may leave the time as it was); a history variable `intended` applies each acknowledged edit to
what was acknowledged before, `collided` notes two saves of one time, `stale` an edit made on an admin page
that names what is not there any more. **Auth** makes the user of each request from its headers. **Snapshot** keeps rows as
functions on their columns; `Text` is `String()`, which may map two values to one key.

Each mutant mentioned in `PROJECT.json` stands in its module, just before the definition it changes, with
a comment that says which mistake it is.

## 3. Runs

Twelve runs: eight pass and four show a disagreement between code and comment.

| Run | Question | Bounds | Size |
|---|---|---|---|
| SessionQueue | Is the queue a FIFO service through everything that can go wrong? | 3 jobs (symmetric), 2 processes, 1 pending restart timer, script files, pipes and an executable that fail | 1 730 000 states |
| SessionOrphan (violated) | Is every process reachable until it is killed? | 3 processes, 1 timer | |
| Connection | Does the banner ever hide a connection, or a prompt outlive its sign-in? | 2 requests, 2 tenants, 2 processes, 1 timer | 1 730 000 states |
| ConnectionHosted | Do app-only connects, all other jobs and all watchers end; is a certificate left after eviction only by a connect that was late? | 2 requests (connects to Graph, reads), one of which cannot be parsed, 1 tenant, 2 processes, 1 timer, broken pipes | 284 000 states |
| ConnectionBanner (violated) | Is what the banner shows true? | 2 requests, 2 processes, 1 tenant | |
| ConnectionCache (violated) | Are cached data those of the connected tenant? | 3 requests, 2 tenants, 1 process | |
| Pack | Are entries decided in turn and truly; does the pack end? | 4 reports (one for Exchange, one that cannot run), 1 other job, job limit 2, wait limit 3 ticks | 43 000 states |
| ExoRest | Is every mailbox answered for, in full or with an error; does the report end? | 4 mailboxes, 1 to 4 pages each, 3 rounds, 1 retry, 2 calls at a time | 245 000 states |
| AuditLog | What does verification accept, and what must it notice? | 3 entries, 2 monthly files, 3 runs of the server, 1 old line without hash | 997 000 states |
| Access | Do edits take effect; do deletes, and lost claims, only revoke? | 4 edits, 2 users, 1 group, 2 tenants, 1 role, 1 report, any page out of date | 354 000 states |
| Detection (violated) | Does the verdict fit the probe? | 2 overlapping detections, 1 installation | |
| Snapshot | Is every diff exact? | lists of up to 2 rows, 3 kinds of report, 3 values | 42 000 states |

**Why these bounds are enough for the questions.** In the queue, what goes wrong needs at most an active
job, one that waits and one that has been given up: three. A second process is the one that a revival or
a restart spawns; the orphan needs a third. A restart timer may be pending while another event happens:
one suffices, and two pending ones differ only in how often `startSession` runs. In Connection a wrong
banner needs one job that sets it and one step that invalidates it; the stale cache needs a connect, a
read and another connect. ConnectionHosted asks for connects to Graph and cached reads only: the other routes end in the same watcher, and
submit jobs of the same session; restarts with their timer, crashes and evictions fall anywhere between. In
ExoRest the listing is cut when there are more mailboxes (4) than rounds (3), and an answer may be
below, at and above the rounds that a retry leaves (2). In the audit log a loss between restarts needs an
entry before it, the lost one and one after it: three. Four
edits are enough to create a tenant and a role, delete one of them and save again. Two rows can collide on a
key, be reordered and be kept, dropped or changed. In Pack, `JobLimit < WaitLimit` is the relation of the
real 300 s and 320 s, and one other job in front is what makes a wait exceed its limit.

`CHECK_DEADLOCK FALSE` is said where the model can stop legitimately: the bound on jobs, processes, edits
or entries is used up, every mailbox is answered for, or `server = "down"`. Pack has no such end, since
Exchange comes and goes.

## 4. Properties

*Session.* `IsFifoService` (refinement), `QueueInv` (the inductive invariant of the queue) and its parts
`OnlyActivePolled`, `NoLostWakeup`, `WedgedIsUnsent` (only a failed write of the script file wedges a queue),
`ScriptInv` (the inductive invariant of the scripts) and what follows from it, `OnlyAbandonedScriptsLinger`
(a script still in the process is that of the active job or of one given up on) and `ParseErrorIsOwn`
(without timeouts, a parse error is charged to the job that has it),
`AliveIsNotClosed`, `EvictedIsSilent`, and `EveryJobEnds`, checked over the connection routes.
*Connection.* `ConnInv` (the inductive invariant of the connections), `NoHiddenConnection`, `NoStalePrompt`,
`CertOnlyOfLateConnect`, `EveryConnectEnds`, `EveryWatcherStops`. *Pack.* `PackInv` (the inductive invariant of a
pack) and its parts `EntriesInTurn`, `EntriesAreTrue`, and `PackEnds`. *ExoRest.* `RowsInOrder`,
`NothingSilentlyDropped` (refinement of `Harvest`), `ReportEnds`. *AuditLog.* `CompleteLogVerifies` (no false
alarm), `VerifiedIsGenuine`, `LossIsNoticed`, `StaysBroken`. *Access.* `EditsTakeEffect`,
`ReferencesResolve`, `NewTenantIsPrivate`, `DeletesOnlyRevoke`, `LostClaimsOnlyRestrict`. *Snapshot.*
`DiffIsExact`, `NothingInvented`, `CountsBalance`. Each module has one type invariant beside these.
`OnlyActivePolled`, `NoLostWakeup`, `WedgedIsUnsent`, `EntriesInTurn` and `EntriesAreTrue` are not checked on their
own: they are conjuncts of `QueueInv` and `PackInv`. The
comment above each property says which behaviour of the code it is about.

## 5. Fairness

* **Session, `FairSpec`**: weak fairness of the pump and of each poller: Node runs its `setImmediate`
  callbacks and its intervals, and the deadline test is made in every tick of a poller, whatever `pwsh`
  does. Nothing is assumed of `pwsh`, whose scripts may hang for ever, nor of requests.
* **Connection, `ConnFairSpec`**: the same, plus each watcher (an interval), plus the end of
  `stageTenantCert`: its two `fetch` calls end in an answer, an error or the timeouts of the client.
* **ExoRest, `FairSpec`**: weak fairness of each running call (every request is answered or fails, in the end
  by a timeout of the client) and of the start of the next one (`ForEach-Object -Parallel`). Nothing is
  assumed of what the answers are: the service may throttle for ever or hand out pages without end.
* **Pack, `FairSpec`**: weak fairness of the interval of `waitForJob`, of time, and of the session's own
  steps. A wedged queue makes no steps and is not assumed to.

Where `server = "down"` or a wedged queue excuses a liveness property, the property says so: nothing is promised
after an exception that ends the server (`EPIPE`, `writeFileSync` where nobody catches it), nor to the jobs behind
one whose script file could not be written. `ReportEnds` and `PackEnds` say in their comments what they leave out.

## 6. Proofs

`Session_proofs` proves for every set of jobs, every number of processes and timers and every set of
faults:

* `TypeCorrect`: `Spec => []TypeOK`;
* `QueueInvariant`: `Spec => []QueueInv`, from which `PollerIsActive` (`OnlyActivePolled`),
  `WakeupNotLost` (`NoLostWakeup`) and `WedgeIsUnsent` (`WedgedIsUnsent`);
* `ImplementsFifo`: `Spec => IsFifoService`, the refinement of `FifoService`;
* `AliveProcess` (`AliveIsNotClosed`) and `NothingAfterEviction` (`EvictedIsSilent`);
* `ScriptInvariant`: `Spec => []ScriptInv`, from which `OnlyAbandonedInFlight`
  (`OnlyAbandonedScriptsLinger`) and `ParseErrorIsNotBorrowed` (`ParseErrorIsOwn`).

The argument rests on `Books`: `queue` is the tail of `submitted`; the jobs before the tail are over, but
for the last one taken, which is over when `active = None` and running, and equal to `active`, otherwise.
Neither "one at a time" nor "in order" is inductive without it: `finishActive` clears `activeJobId` without
looking whose it is, so that `OnlyActivePolled` is needed to know that it clears that of its own job; that
in turn needs that a job taken off the queue is the next of `submitted`, hence not polled already.
TLC checks `QueueInv` as an invariant of SessionQueue.
`pumpQueue` runs inside several callbacks, so its three outcomes are lemmas that all of them cite.

`ScriptInv` is about what lies in a process. Each script is at one place of it, running or in the pipe, once
(`AtOnePlace`); it was sent there (`target`), has left no result, and its job is active or has timed out or
did not parse. The part that is easily missed is the first: were a script at two places, its end would
leave a copy behind that belongs to a job long over. For parse errors it says more than the property: as
long as nobody timed out, a job that was told of one (`heard`), and not only one that ended with it, has
not run. That stderr is read by whoever is active is what makes the condition on timeouts necessary.

`Connection_proofs` proves `ConnectionImplementsSession`: `ConnSpec => Spec`. Every step of the routes and
watchers is a step of Session or leaves its variables alone, so all of the above holds of the connection
routes too (`ConnectionKeepsFifo`). It also proves `LateCertOnly` (`CertOnlyOfLateConnect`), from the invariant
`CertInv`: once a session is evicted, whatever is still being staged was so at the eviction, and a certificate on
disk is of one of those connects. `ConnTypeCorrect` is the type invariant.

`ConnInvariant` proves `ConnInv`, with `QueueInv` and `ScriptInv` as known facts. Its heart is `LinkKnown`: what the
live process is connected to is in `connectionInfo`, or is the result of a connect that is still watched,
or is undone by a disconnect that has yet to run. It needs `LinkOrder` (a watched result is that of the
link, unless the active connect has already made a newer one: so two results are never recorded out of
turn, which rests on intervals firing in the order in which they were armed), `ConnectWatched` (a connect is
watched until it is over), `OnlySpawnedLinked` (nothing is connected before it is spawned) and
`PromptWatched` (who will take the prompt down). Scripts in flight being those of abandoned jobs, `ScriptInv` is what
keeps an old script from changing the links behind the active one. Steps that leave links and results alone
share one lemma (`RouteStep`); watchers, pollers and the end of a script have one each. From it follow

* `PromptTakenDown` (`NoStalePrompt`), whatever `Hosted` is;
* `NothingHidden` (`NoHiddenConnection`), where users sign in themselves (`~Hosted`);
* `GraphShown`: a Graph connection is not hidden, whatever `Hosted` is. Of app-only Exchange this is false, as a
  disconnect leaves `$global:ExoRest` in place (section 8), and `NothingHidden` is stated without it.

`Pack_proofs` proves, for packs of any length and limits: `PackTypes` (`TypeOK`), `PackInvariant` (`PackInv`) and its
parts `PackInTurn` (`EntriesInTurn`) and `PackIsTrue` (`EntriesAreTrue`). The entries being
true is not inductive: an entry that did not queue is given up only if its job outlives its wait, which
takes `RunsInTime`: such a job runs, nothing holds the queue, and it has run for as long as it has been waited
for, so the shorter limit of the job comes first. That in turn rests on submission order (`SessionServes`):
nobody submitted later can run before it.

`Snapshot_proofs` proves `SnapshotTypes` (`TypeOK`), `DiffTellsAll` (`DiffIsExact`), `DiffInventsNothing`
(`NothingInvented`) and `CountsAddUp` (`CountsBalance`). Only the first is about steps; the rest are lemmas about
the operators of the diff for rows of any number and with any columns (`IsRows`), such as that the loop over the
rows keeps the last row of a key (`LastFacts`, by the greatest index, `GreatestNumber`), that the changed cells
of two rows of one key make the old row the new one (`ChangesTell`), and that without a warning there are as
many keys as rows (`AsManyKeys`, a bijection).

`Access_proofs` proves every property of Access for all sets of users, groups, tenants, roles and reports and
any number of edits:

* `TypeCorrect` (`TypeOK`): each edit makes a store of a store (`PutType`, `RemoveType`, `MapType` and a lemma
  for each kind of edit), and a save that is cut short leaves the old file or the new one;
* `EditsAreLive` (`EditsTakeEffect`), from `TakeInv`: without colliding times, the file is what is intended, and
  a cache that passes for current is the file;
* `DeletionsScrub` (`ReferencesResolve`), from `RefInv`: the references resolve in the cache and in what is or
  would be on disk (the seed, when there is no file), and the roles on disk name only tenants of what is
  served, which a stale cache would not give by itself;
* `DeletionsRevoke` (`DeletesOnlyRevoke`): a delete makes a store with no more roles, of no wider scope, and
  `can` grants no more of it (`NoMoreCan`); normalising may fill in a group id, so `NormalInv` is needed: what
  is served has been normalised already;
* `NewTenantsArePrivate` (`NewTenantIsPrivate`), from `RefInv`: no role names a tenant that is not there yet;
* `ClaimsOnlyGrant` (`LostClaimsOnlyRestrict`), from `CanIsMonotone`: `can` grows with the groups of a user.

`ExoRest_proofs` proves, for any number of mailboxes, pages, rounds and retries: `TypeCorrect`,
`RowsAreInOrder` (`RowsInOrder`) and `ImplementsHarvest` (`NothingSilentlyDropped`). The invariant `CallsInv`
relates the counters of a call: while it runs, its rows are the pages before `next`, and `guard` is their
number plus the retries; when it is over without an error it has all the pages, or has used up all the
rounds. Refinement then needs two facts: a verdict is sound (`VerdictsAreSound`), and what a call that is over
has collected does not change (`VerdictIsFinal`).

`AuditLog_proofs` proves all of AuditLog, for any number of entries, months, runs and old lines: `TypeCorrect`,
`OnlyGenuineVerifies` (`VerifiedIsGenuine`), `LossesAreNoticed` (`LossIsNoticed`), `CompleteLogsVerify`
(`CompleteLogVerifies`) and `BrokenStaysBroken` (`StaysBroken`). `HashInv` says what a hash that nobody else has
computed tells (`Tells`): the entries hashed into it were audited and not skipped, in that order, and one that is
missing was skipped or audited in an earlier run. As long as no hashes were recomputed it holds of every hash on
disk, damaged files included; when they were recomputed in this run, it still holds of `_lastHash`, and so of a
log whose last line has that hash (`Trusted`). Nothing can be said once a restart has seeded `_lastHash` from such
files. What is left is that the hash of line *i* of a log that verifies is the sequence of entries 1 to *i* of the
log (`ChainHolds`). `IntactInv` is about files that only `audit()` has touched: the entries are in the order of
their calls, and each is hashed onto the one in the line before if nothing but skipped entries lies between the
two, and onto `GENESIS` if nothing but those lies before it (`OntoBefore`); so is what `_lastHash` is for the next.
An induction on the lines is an argument on the least line where it fails (`LeastNumber`, from the
well-foundedness of the naturals), since induction itself is out of the provers' reach.

Assumptions: `SessionAssumption`, `ConnectionAssumption` (`None` is neither a tenant nor a kind of job;
exceptions of `writeFileSync` are left to Session), `AccessAssumption` (with those of `Rbac`),
`ExoRestAssumption`, `AuditAssumption`, `PackAssumption` (a job's limit is at most that of the wait, as 300 s is of
320 s) and `SnapshotAssumption` (each report has columns in its first version; the value that stands for
"no key" is not the name of a column). TLC evaluates all of them in the runs.

**Only model-checked.** Liveness (`EveryJobEnds`, `EveryConnectEnds`, `EveryWatcherStops`, `PackEnds`,
`ReportEnds`) and anything with `ENABLED` is out of the provers' reach. Every invariant and action property that a
passing run checks, and both refinements, are proved. No induction theorem is used, since the
provers cannot instantiate one: where a loop over data matters, the argument is on the least or greatest index
(`NumberFacts`). The four properties of section 7 are false, and only TLC shows that.

## 7. Disagreements the runs show

* **SessionOrphan.** A request within the second between `restartSession` and its timer revives the
  session; the timer spawns another `pwsh` and overwrites `s.psProc`. `server.js:999` promises not to
  orphan child processes.
* **ConnectionBanner.** `getSession` revives a session whose process died and leaves `connectionInfo` as it
  was: the banner is connected, the new process is not (`sessions.js:70`, `:95`).
* **ConnectionCache.** A connect to another tenant keeps the caches of the first (`sessions.js:79`).
* **Detection.** The second loop of `detectPowerShell` reports "Microsoft.Graph not installed." of any
  PowerShell that answers, also when its own probe has found the module (`server.js:172`): the probe of the
  first loop failed or timed out on a cold start, or the modules were installed between the loops.

## 8. Disagreements met that have no run of their own

* Comments speak of one command in flight at a time. After a timeout the next line is written behind a
  script that still runs; `OnlyAbandonedScriptsLinger` states exactly what can be there.
* The close event of an old process clears the flag of a new one (`sessions.js:158`), so the next request
  revives a session that is alive: the same orphan by another way.
* A disconnect asked while a connect has run but its watcher has not ticked: the watcher then sets
  `connectionInfo` again. This is the other half of `BannerIsTrue`.
* `docs/PLAN-v12-phase4b.md:109` has the staged certificate removed on disconnect; only eviction
  removes it. `sessions.js:76` says "unlinked on evict": a connect that is still fetching its certificate when the
  session is evicted stages it afterwards, and it stays (its two fetches would have to outlast the half hour of
  `evictIdle`). `CertOnlyOfLateConnect` says that there is no other way.
* `audit.js:28` says that any edit, deletion or reordering breaks the chain. The hash has no key
  (`audit.js:36`), so an edit followed by new hashes for all lines verifies; only the hash in the memory of
  the running server gives it away, with the next entry. Deleted newest entries, or entries whose append
  failed, go unnoticed if the server is restarted before the next entry. An entry whose call throws at
  `audit.js:64-65` is lost, and the next one chains past it without a break, restart or not. `VerifiedIsGenuine` and
  `LossIsNoticed` are the claims that do hold.
* A log with a line of an earlier version, which has no hash, never verifies; `CompleteLogVerifies` is about logs
  in which every line is an entry.
* Two saves of the store that leave the same modification time: the second is not seen, and the next edit
  undoes it (`rbac.js:113` against `server.js:835`). `EditsTakeEffect` says "unless".
* Clearing a group id through the admin API answers `null` and stores the one of the environment
  (`rbac.js:80-81`, `server.js:976-984`).
* Two roles, one giving tenant A and report X, another tenant B and report Y, give A and Y together too:
  `effectiveAccess` unites tenants and reports separately (`rbac.js:165-182`).
* A role or assignment saved from an admin page that is out of date brings back references to what has been
  deleted: no route looks whether what it is sent exists. `ReferencesResolve` says "unless".
* A member of the group `ADMIN_GROUP_ID` of the environment stays an admin after another admin group has been
  set in the store (`auth.js:26-28`).
* A disconnect leaves `$global:ExoRest`, the app-only Exchange connection, in place (`server.js:528`).
* A Graph connect that fails has disconnected the process first, and the banner keeps the tenant connected
  before (`server.js:443`).
* The watcher of a connect that is over takes down the prompt of the next one in the same session, and
  that of any other session: the device code is one variable (`sessions.js:52-57`).
* `tenants.js:130` says that nothing is dropped silently. A loop that runs out of its 500 rounds with a page
  to come says nothing, and retries count as rounds; `NothingSilentlyDropped` says "within the limits". The
  token of a batch is taken once and may have two minutes left (`tenants.js:88`, `:143`): what comes
  after is an error row. Reports are free to pass over error rows: `all-forwarding-rules` prints them
  (`reports.js:68`), `mailbox-sizes` does not (`reports.js:77`), so a mailbox it could not read is missing from its
  list without a word.
* An installation that prints anything is `completed`, whether or not it installed (`sessions.js:343`).
* Overlapping detections publish in the order in which they end, and the first to end says that no probe is
  under way (`server.js:338`).
* The `EPIPE` of a line written to a `pwsh` that has gone, before Node notices, has no listener
  (`sessions.js:260`): it ends the server.
* A pack entry whose report produced rows and errors is `completed` and the error is dropped
  (`server.js:690`). `runPack` is not awaited (`server.js:740`): an exception in it is an unhandled rejection,
  which ends the server.
* The map of jobs, each with its output, is never pruned (`sessions.js:39`).
* Rows matched by content depend on the order of their properties in the snapshot.

## 9. Not modelled

* Report catalog and `buildCommand` (`reports.js`): PowerShell text with parameters put into it; no state.
  How the fan-out reports page through mailboxes is in ExoRest.
* `isSafe`: patterns tested on text; Pack takes its verdict as a constant.
* Of the connection routes: test-session, the account name and the missing scopes shown in the banner.
* Of detection: the text of the probe and of the installer, and how the verdict on the version is worded.
* The temp sweep (it removes files ten minutes old, and a script runs for five at most) and the console log.
* CSV export, configuration and status routes: each reads one piece of state and formats it.
* The web page, of which Access assumes only that what it sends was once true; deployment, container and lint
  scripts; the standalone `M365AdminReports.ps1`.

Tests are read for what they claim. One server process is assumed throughout, as the deployment fixes one
replica.

## 10. Plan

Done, in this order: `FifoService`, `Session`, its proofs; `Connection`; `AuditLog`; `Rbac`, `Access`;
`Snapshot`; `Pack`; `Connection_proofs`; `Harvest`, `ExoRest`; `Detection`; `Auth`, out-of-date pages in Access;
device code and dashboard in Connection; `Access_proofs`, `ExoRest_proofs`, `AuditLog_proofs`;
`ScriptInv` and the proofs about it; `ConnInv` and the proofs about it; `PackInv`, `Pack_proofs`; `Snapshot_proofs`.

Next, in the order of their worth:

1. action properties: an entry of a pack that is decided is not decided again; `connectionInfo` of a service
   changes only by a watcher or a disconnect;
2. under which conditions `NoOrphan`, `BannerIsTrue` and `CacheIsOfConnectedTenant` do hold (no request within the second of a
   restart, no process that dies, no second connect), as theorems beside the runs that violate them;
3. that what a hosted Exchange connection leaves in place is always that of the last app-only connect;
4. Detection: that the verdict fits the probe when detections do not overlap and no module is installed.
