----------------------------- MODULE Detection ------------------------------
(***************************************************************************)
(* detectPowerShell of server.js: which PowerShell the sessions will run,  *)
(* and whether it has the Graph modules. It runs at startup and whenever   *)
(* the page asks for it, awaits a probe of each candidate, and may overlap *)
(* with itself and with the installation of the modules.                   *)
(***************************************************************************)
EXTENDS Naturals, Sequences

CONSTANTS
  candidates,   \* the executables to try, in order
  Detections,   \* calls of detectPowerShell, that of the startup among them
  Startup,
  Installs,     \* jobs of POST /api/install-graph
  Null

VARIABLES
  machine,      \* of each executable: absent, bare, or with Graph installed
  at,           \* where a detection is: <<loop, index>>, Null before it, Done
  probing,      \* detectedPS.probing
  detectedPS,   \* the rest of detectedPS: its exe and its verdict
  found,        \* history: what the probe found that detectedPS is from
  install       \* the status of each install job

vars == <<machine, at, probing, detectedPS, found, install>>

Exes == {candidates[k] : k \in 1..Len(candidates)}
Done == <<3, 0>>
Verdicts == {"none yet", "ready", "Microsoft.Graph not installed.", "No PowerShell found."}

TypeOK ==
  /\ machine \in [Exes -> {"absent", "bare", "graph"}]
  /\ at \in [Detections -> ({1, 2} \X (1..Len(candidates))) \cup {Null, Done}]
  /\ probing \in BOOLEAN
  /\ detectedPS \in [exe : Exes \cup {Null}, verdict : Verdicts]
  /\ found \in {"absent", "bare", "graph"}
  /\ install \in [Installs -> {"none", "running", "completed", "error"}]

(* The server listens once the detection of the startup is over.           *)
Init ==
  /\ machine \in [Exes -> {"absent", "bare", "graph"}]
  /\ at = [d \in Detections |-> IF d = Startup THEN <<1, 1>> ELSE Null]
  /\ probing = TRUE
  /\ detectedPS = [exe |-> Null, verdict |-> "none yet"]
  /\ found = "absent"
  /\ install = [i \in Installs |-> "none"]
-----------------------------------------------------------------------------
(* POST /api/reprobe. *)
Reprobe(d) ==
  /\ at[Startup] = Done
  /\ at[d] = Null
  /\ at' = [at EXCEPT ![d] = <<1, 1>>]
  /\ probing' = TRUE
  /\ UNCHANGED <<machine, detectedPS, found, install>>

(* The verdict replaces the object as a whole, its probing flag included,  *)
(* whatever other detection is still under way.                            *)
Publish(d, exe, verdict, r) ==
  /\ at' = [at EXCEPT ![d] = Done]
  /\ probing' = FALSE
  /\ detectedPS' = [exe |-> exe, verdict |-> verdict]
  /\ found' = r

(* On to the next candidate, the second loop, or the end of both.          *)
TryNext(d, loop, k) ==
  \/ /\ k < Len(candidates)
     /\ at' = [at EXCEPT ![d] = <<loop, k + 1>>]
     /\ UNCHANGED <<probing, detectedPS, found>>
  \/ /\ k = Len(candidates) /\ loop = 1
     /\ at' = [at EXCEPT ![d] = <<2, 1>>]
     /\ UNCHANGED <<probing, detectedPS, found>>
  \/ /\ k = Len(candidates) /\ loop = 2
     /\ Publish(d, Null, "No PowerShell found.", "absent")

(* What probePS may resolve to: nothing also when it takes more than 30 s, *)
(* ends with an error or prints something else than JSON.                  *)
probePS(exe) == {"absent", machine[exe]}

(* The await of a probe returns. The first loop looks for a PowerShell     *)
(* with Graph, the second takes any.                                       *)
ProbeReturns(d) ==
  /\ at[d] \notin {Null, Done}
  /\ LET loop == at[d][1]
         k == at[d][2]
     IN  \E r \in probePS(candidates[k]) :
           \/ /\ loop = 1 /\ r = "graph"
              /\ Publish(d, candidates[k], "ready", r)
           \/ /\ loop = 2 /\ r # "absent"
              /\ Publish(d, candidates[k], "Microsoft.Graph not installed.", r)
           \/ /\ r = "absent" \/ (loop = 1 /\ r = "bare")
              /\ TryNext(d, loop, k)
  /\ UNCHANGED <<machine, install>>

(* POST /api/install-graph: runOneShot spawns the PowerShell detected.     *)
InstallGraph(i) ==
  /\ at[Startup] = Done
  /\ detectedPS.exe # Null
  /\ install[i] = "none"
  /\ install' = [install EXCEPT ![i] = "running"]
  /\ UNCHANGED <<machine, at, probing, detectedPS, found>>

(* MODULE_PATH_FIX has every PowerShell look where any of them installs.   *)
WithGraph ==
  [exe \in Exes |-> IF machine[exe] = "absent" THEN "absent" ELSE "graph"]

(* The process closes. The command has printed "Installing..." before it   *)
(* tries, and any output makes the job completed; it is an error only if   *)
(* the process could not be started or ended before it printed.            *)
InstallEnds(i) ==
  /\ install[i] = "running"
  /\ \/ /\ machine' \in {machine, WithGraph}
        /\ install' = [install EXCEPT ![i] = "completed"]
     \/ /\ install' = [install EXCEPT ![i] = "error"]
        /\ UNCHANGED machine
  /\ UNCHANGED <<at, probing, detectedPS, found>>

Next ==
  \/ \E d \in Detections : Reprobe(d) \/ ProbeReturns(d)
  \/ \E i \in Installs : InstallGraph(i) \/ InstallEnds(i)

Spec == Init /\ [][Next]_vars
-----------------------------------------------------------------------------
(* server.js:172 publishes "Microsoft.Graph not installed.", and the page  *)
(* offers to install it and refuses to connect: that is so of a PowerShell *)
(* whose probe has not found the module.                                   *)
VerdictFitsProbe ==
  detectedPS.verdict = "Microsoft.Graph not installed." => found # "graph"
=============================================================================
