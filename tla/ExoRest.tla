------------------------------ MODULE ExoRest -------------------------------
(***************************************************************************)
(* The Exchange REST helpers of the app-only connect script (tenants.js),  *)
(* as the tenant-wide reports use them (reports.js): Invoke-ExoRest lists  *)
(* the mailboxes, then Invoke-ExoRestBatch asks about each, a few at a     *)
(* time, following the pages of every answer and retrying what the service *)
(* throttles.                                                              *)
(***************************************************************************)
EXTENDS Naturals, Sequences, FiniteSets

CONSTANTS
  Count,          \* the tenant's mailboxes are 1..Count, one to a page
  Guard,          \* rounds of a paging loop (500)
  Attempts,       \* retries of a batch call (5)
  ThrottleLimit,  \* calls of a batch at once (8)
  MaxPages        \* bound: pages of the answer about a mailbox

ASSUME ExoRestAssumption ==
  /\ Count \in Nat \ {0} /\ MaxPages \in Nat \ {0}
  /\ ThrottleLimit \in Nat \ {0}
  /\ Attempts \in Nat /\ Guard \in Nat /\ Attempts < Guard

Mailboxes == 1..Count
List == 0               \* the call of Invoke-ExoRest
Calls == {List} \cup Mailboxes
ErrorRow == 0           \* the row that carries _Error; others are page numbers

VARIABLES
  pages,    \* of the service: how many pages its answer about a mailbox has
  phase,    \* of each call: waiting, running or done
  next,     \* the page curUri stands for
  guard,    \* rounds of the loop
  attempt,  \* retries, over all pages of the call
  acc       \* the rows collected, by their page

vars == <<pages, phase, next, guard, attempt, acc>>

TypeOK ==
  /\ pages \in [Mailboxes -> 1..MaxPages]
  /\ phase \in [Calls -> {"waiting", "running", "done"}]
  /\ next \in [Calls -> Nat]
  /\ guard \in [Calls -> 0..Guard]
  /\ attempt \in [Calls -> 0..Attempts]
  /\ acc \in [Calls -> Seq(Nat)]

(* The report starts with the listing.                                     *)
Init ==
  /\ pages \in [Mailboxes -> 1..MaxPages]
  /\ phase = [c \in Calls |-> IF c = List THEN "running" ELSE "waiting"]
  /\ next = [c \in Calls |-> 1]
  /\ guard = [c \in Calls |-> 0]
  /\ attempt = [c \in Calls |-> 0]
  /\ acc = [c \in Calls |-> <<>>]

Pages(c) == IF c = List THEN Count ELSE pages[c]
Rows(c) == {acc[c][k] : k \in 1..Len(acc[c])}
Failed(c) == ErrorRow \in Rows(c)

(* The identities the batch is given, once the listing has returned.       *)
Listed == IF phase[List] = "done" THEN Rows(List) \ {ErrorRow} ELSE {}
-----------------------------------------------------------------------------
(* ForEach-Object -Parallel takes the identities in their order.           *)
Start(i) ==
  /\ i \in Listed /\ phase[i] = "waiting"
  /\ \A k \in Listed : phase[k] = "waiting" => i <= k
  /\ Cardinality({k \in Mailboxes : phase[k] = "running"}) < ThrottleLimit
  /\ phase' = [phase EXCEPT ![i] = "running"]
  /\ UNCHANGED <<pages, next, guard, attempt, acc>>

(* One round of the loop that goes on with page n, if there is one and the *)
(* guard allows another round.                                             *)
Round(c, n) ==
  /\ phase[c] = "running"
  /\ guard' = [guard EXCEPT ![c] = @ + 1]
  /\ next' = [next EXCEPT ![c] = n]
  /\ phase' = [phase EXCEPT ![c] = IF n <= Pages(c) /\ guard'[c] < Guard
                                   THEN "running" ELSE "done"]
  /\ UNCHANGED pages

(* Mutant of Page: the attempts are counted anew for every page.           *)
Page_NewAttempts(c) ==
  /\ Round(c, next[c] + 1)
  /\ acc' = [acc EXCEPT ![c] = Append(@, next[c])]
  /\ attempt' = [attempt EXCEPT ![c] = 0]

(* A page is answered: its rows are added, nextLink is followed.           *)
Page(c) ==
  /\ Round(c, next[c] + 1)
  /\ acc' = [acc EXCEPT ![c] = Append(@, next[c])]
  /\ UNCHANGED attempt

(* Mutant of Retry: retried from the first request.                        *)
Retry_FromStart(c) ==
  /\ c # List
  /\ attempt[c] < Attempts
  /\ Round(c, 1)
  /\ attempt' = [attempt EXCEPT ![c] = @ + 1]
  /\ UNCHANGED acc

(* Mutant of Retry: neither the attempts nor the rounds are counted.       *)
Retry_Unbounded(c) ==
  /\ c # List
  /\ phase[c] = "running"
  /\ attempt' = [attempt EXCEPT ![c] = 1 - @]
  /\ UNCHANGED <<pages, phase, next, guard, acc>>

(* Mutant of Retry: one attempt too many.                                  *)
Retry_OneMore(c) ==
  /\ c # List
  /\ attempt[c] <= Attempts
  /\ Round(c, next[c])
  /\ attempt' = [attempt EXCEPT ![c] = @ + 1]
  /\ UNCHANGED acc

(* A batch call is throttled (429) or meets an error of the service (5xx), *)
(* and asks for the same page again; this uses up a round of the loop.     *)
Retry(c) ==
  /\ c # List
  /\ attempt[c] < Attempts
  /\ Round(c, next[c])
  /\ attempt' = [attempt EXCEPT ![c] = @ + 1]
  /\ UNCHANGED acc

(* Any other failure, an expired token among them, or one too many: the    *)
(* batch adds an error row to those it has; the listing throws, and the    *)
(* report ends with an error and no rows.                                  *)
Fail(c) ==
  /\ phase[c] = "running"
  /\ phase' = [phase EXCEPT ![c] = "done"]
  /\ guard' = [guard EXCEPT ![c] = @ + 1]
  /\ acc' = [acc EXCEPT ![c] = IF c = List THEN <<ErrorRow>> ELSE Append(@, ErrorRow)]
  /\ UNCHANGED <<pages, next, attempt>>

Next ==
  \/ \E i \in Mailboxes : Start(i)
  \/ \E c \in Calls : Page(c) \/ Retry(c) \/ Fail(c)

Spec == Init /\ [][Next]_vars

(* Every request is answered or fails, if need be by the timeout of        *)
(* Invoke-RestMethod's connection, and -Parallel starts what it can.       *)
Fairness ==
  /\ \A i \in Mailboxes : WF_vars(Start(i))
  /\ \A c \in Calls : WF_vars(Page(c) \/ Retry(c) \/ Fail(c))

FairSpec == Spec /\ Fairness
-----------------------------------------------------------------------------
(* Properties. *)

(* What the report is given about a mailbox: an error is the exception of  *)
(* the listing or a row with _Error, which reports.js:68 prints and        *)
(* reports.js:77 passes over.                                              *)
Verdict(i) ==
  IF phase[List] # "done" THEN "none"
  ELSE IF Failed(List) THEN "error"
  ELSE IF i \notin Listed THEN "part"
  ELSE IF phase[i] # "done" THEN "none"
  ELSE IF Failed(i) THEN "error"
  ELSE IF Rows(i) = 1..pages[i] THEN "all" ELSE "part"

(* A mailbox whose answer fits into the rounds that the retries leave, on  *)
(* a listing that fits into the guard.                                     *)
WithinLimits == {i \in Mailboxes : i <= Guard /\ pages[i] <= Guard - Attempts}

(* tenants.js:130 "Nothing is silently dropped" by the helpers: within the *)
(* limits of the loop, the report is given all rows of a mailbox or an     *)
(* error for it, once and for good, however its requests are throttled,    *)
(* retried, refused and interleaved with those about other mailboxes.      *)
Promise == INSTANCE Harvest WITH certain <- WithinLimits,
                                 answer <- [i \in Mailboxes |-> Verdict(i)]
NothingSilentlyDropped == Promise!Spec

(* No row is reported twice or out of order, and the error row is the last *)
(* one: a retry takes up exactly where the call was, also in the middle of *)
(* a paged answer.                                                         *)
RowsInOrder ==
  \A c \in Calls : \A k \in 1..Len(acc[c]) :
    acc[c][k] = k \/ (acc[c][k] = ErrorRow /\ k = Len(acc[c]) /\ phase[c] = "done")

(* The helpers come to an end, also when the service throttles every       *)
(* request or hands out next links without end: every mailbox is answered  *)
(* for. This takes no account of the 300 s after which the session gives   *)
(* up the job the report runs in.                                          *)
ReportEnds == \A i \in Mailboxes : <>(Verdict(i) # "none")
=============================================================================
