---------------------------- MODULE FifoService ----------------------------
(***************************************************************************)
(* What a session promises its callers, whatever happens to its pwsh:      *)
(* jobs are served one at a time, in the order in which they were          *)
(* submitted, each once, and a verdict is never taken back.                *)
(***************************************************************************)
EXTENDS Naturals, Sequences

CONSTANT Jobs

VARIABLES
  submitted,  \* the jobs in order of submission
  status      \* what GET /api/job/:jobId answers for each

vars == <<submitted, status>>

Over == {"completed", "error"}

(* A job may be started and refused within the step that submits it.       *)
Moves ==
  {<<"new", "queued">>, <<"new", "running">>, <<"new", "error">>,
   <<"queued", "running">>, <<"queued", "error">>,
   <<"running", "completed">>, <<"running", "error">>}

(* The first n jobs are over, the next one runs or waits, the rest wait.   *)
InOrder(sub, st) ==
  \E n \in 0..Len(sub) :
    /\ \A i \in 1..n : st[sub[i]] \in Over
    /\ n < Len(sub) => st[sub[n + 1]] \in {"queued", "running"}
    /\ \A i \in 1..Len(sub) : i > n + 1 => st[sub[i]] = "queued"

Init ==
  /\ submitted = <<>>
  /\ status = [j \in Jobs |-> "new"]

Serve ==
  /\ \/ submitted' = submitted
     \/ \E j \in Jobs : /\ status[j] = "new"
                        /\ submitted' = Append(submitted, j)
  /\ \A j \in Jobs : status'[j] # status[j] => <<status[j], status'[j]>> \in Moves
  /\ \A j \in Jobs : status'[j] = "new" <=> \A i \in 1..Len(submitted') : submitted'[i] # j
  /\ InOrder(submitted', status')

Spec == Init /\ [][Serve]_vars
=============================================================================
