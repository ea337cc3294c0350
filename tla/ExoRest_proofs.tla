--------------------------- MODULE ExoRest_proofs ---------------------------
(***************************************************************************)
(* Proofs about ExoRest: how rounds, rows and retries of a call add up,    *)
(* and that nothing a report leaves out is left out unnoticed.             *)
(***************************************************************************)
EXTENDS ExoRest, TLAPS

(* A call that is not over has collected the pages before the one it asks  *)
(* for, and each round was a page or a retry.                              *)
Underway(c) ==
  phase[c] # "done" =>
    /\ next[c] = Len(acc[c]) + 1 /\ next[c] <= Pages(c)
    /\ guard[c] = Len(acc[c]) + attempt[c] /\ guard[c] < Guard

(* A call that ended without an error has all pages, or as many as the     *)
(* retries have left it rounds.                                            *)
Ended(c) ==
  phase[c] = "done" /\ ~Failed(c) =>
    /\ Len(acc[c]) <= Pages(c)
    /\ Len(acc[c]) = Pages(c) \/ Len(acc[c]) + attempt[c] = Guard

Ordered(c) ==
  \A k \in 1..Len(acc[c]) :
    acc[c][k] = k \/ (acc[c][k] = ErrorRow /\ k = Len(acc[c]) /\ phase[c] = "done")

CallInv(c) == Underway(c) /\ Ended(c) /\ Ordered(c)

CallsInv ==
  /\ TypeOK
  /\ attempt[List] = 0
  /\ \A c \in Calls : CallInv(c)

LEMMA CallsFacts ==
  /\ List \in Calls /\ List \notin Mailboxes /\ Mailboxes \subseteq Calls
  /\ \A c \in Calls : c # List => c \in Mailboxes
BY DEF Calls, Mailboxes, List

LEMMA PagesType ==
  ASSUME TypeOK, NEW c \in Calls
  PROVE  Pages(c) \in Nat \ {0}
<1>1. CASE c = List
  BY <1>1, ExoRestAssumption DEF Pages, ExoRestAssumption
<1>2. CASE c # List
  BY <1>2, CallsFacts, ExoRestAssumption DEF Pages, TypeOK, ExoRestAssumption
<1>3. QED
  BY <1>1, <1>2

(* While a call is under way there is no error among its rows.             *)
LEMMA NotFailedYet ==
  ASSUME NEW c \in Calls, TypeOK, Ordered(c), phase[c] # "done"
  PROVE  ~Failed(c)
BY DEF Ordered, Failed, Rows, ErrorRow

(* What is true of the other calls stays true.                             *)
LEMMA OthersKeep ==
  ASSUME NEW d \in Calls, CallInv(d), pages' = pages, phase'[d] = phase[d],
         next'[d] = next[d], guard'[d] = guard[d], attempt'[d] = attempt[d], acc'[d] = acc[d]
  PROVE  CallInv(d)'
BY DEF CallInv, Underway, Ended, Ordered, Failed, Rows, Pages

LEMMA StartKeeps ==
  ASSUME CallsInv, NEW i \in Mailboxes, Start(i)
  PROVE  CallsInv'
<1>1. TypeOK'
  BY CallsFacts DEF CallsInv, TypeOK, Start
<1>2. ASSUME NEW d \in Calls PROVE CallInv(d)'
  <2>1. CASE d = i
    <3>1. phase[i] = "waiting" /\ phase'[i] = "running"
      BY CallsFacts DEF Start, CallsInv, TypeOK
    <3>2. QED
      BY <2>1, <3>1 DEF Start, CallsInv, CallInv, Underway, Ended, Ordered, Pages
  <2>2. CASE d # i
    BY <2>2, OthersKeep DEF Start, CallsInv, TypeOK
  <2>3. QED
    BY <2>1, <2>2
<1>3. QED
  BY <1>1, <1>2 DEF CallsInv, Start

LEMMA PageKeeps ==
  ASSUME CallsInv, NEW c \in Calls, Page(c)
  PROVE  CallsInv'
<1>1. /\ phase[c] = "running" /\ pages' = pages /\ attempt' = attempt
      /\ phase \in [Calls -> {"waiting", "running", "done"}]
      /\ next \in [Calls -> Nat] /\ guard \in [Calls -> 0..Guard]
      /\ attempt \in [Calls -> 0..Attempts] /\ acc \in [Calls -> Seq(Nat)]
      /\ Guard \in Nat /\ Attempts \in Nat
  BY ExoRestAssumption DEF Page, Round, CallsInv, TypeOK, ExoRestAssumption
<1>2. /\ next[c] = Len(acc[c]) + 1 /\ next[c] <= Pages(c)
      /\ guard[c] = Len(acc[c]) + attempt[c] /\ guard[c] < Guard
      /\ \A k \in 1..Len(acc[c]) : acc[c][k] = k
      /\ Pages(c) \in Nat
  BY <1>1, PagesType DEF CallsInv, CallInv, Underway, Ordered
<1>3. /\ guard' = [guard EXCEPT ![c] = guard[c] + 1]
      /\ next' = [next EXCEPT ![c] = next[c] + 1]
      /\ acc' = [acc EXCEPT ![c] = Append(acc[c], next[c])]
      /\ phase' = [phase EXCEPT ![c] = IF next[c] + 1 <= Pages(c) /\ guard[c] + 1 < Guard
                                       THEN "running" ELSE "done"]
  BY <1>1 DEF Page, Round
<1>4. TypeOK'
  BY <1>1, <1>2, <1>3 DEF CallsInv, TypeOK
<1>5. /\ Len(acc'[c]) = Len(acc[c]) + 1
      /\ \A k \in 1..Len(acc'[c]) : acc'[c][k] = k
  BY <1>1, <1>2, <1>3
<1>6. CallInv(c)'
  <2>1. Pages(c)' = Pages(c)
    BY <1>1 DEF Pages
  <2>2. Underway(c)'
    BY <1>1, <1>2, <1>3, <1>5, <2>1 DEF Underway
  <2>3. Ended(c)'
    BY <1>1, <1>2, <1>3, <1>5, <2>1 DEF Ended
  <2>4. Ordered(c)'
    BY <1>5 DEF Ordered
  <2>5. QED
    BY <2>2, <2>3, <2>4 DEF CallInv
<1>7. ASSUME NEW d \in Calls, d # c PROVE CallInv(d)'
  BY <1>1, <1>3, <1>7, OthersKeep DEF CallsInv
<1>8. QED
  BY <1>1, <1>4, <1>6, <1>7 DEF CallsInv

LEMMA RetryKeeps ==
  ASSUME CallsInv, NEW c \in Calls, Retry(c)
  PROVE  CallsInv'
<1>1. /\ phase[c] = "running" /\ pages' = pages /\ acc' = acc
      /\ phase \in [Calls -> {"waiting", "running", "done"}]
      /\ next \in [Calls -> Nat] /\ guard \in [Calls -> 0..Guard]
      /\ attempt \in [Calls -> 0..Attempts] /\ acc \in [Calls -> Seq(Nat)]
      /\ Guard \in Nat /\ Attempts \in Nat
      /\ c # List /\ attempt[c] < Attempts
  BY ExoRestAssumption DEF Retry, Round, CallsInv, TypeOK, ExoRestAssumption
<1>2. /\ next[c] = Len(acc[c]) + 1 /\ next[c] <= Pages(c)
      /\ guard[c] = Len(acc[c]) + attempt[c] /\ guard[c] < Guard
      /\ \A k \in 1..Len(acc[c]) : acc[c][k] = k
      /\ Pages(c) \in Nat
  BY <1>1, PagesType DEF CallsInv, CallInv, Underway, Ordered
<1>3. /\ guard' = [guard EXCEPT ![c] = guard[c] + 1]
      /\ next' = [next EXCEPT ![c] = next[c]]
      /\ attempt' = [attempt EXCEPT ![c] = attempt[c] + 1]
      /\ phase' = [phase EXCEPT ![c] = IF next[c] <= Pages(c) /\ guard[c] + 1 < Guard
                                       THEN "running" ELSE "done"]
  BY <1>1 DEF Retry, Round
<1>4. TypeOK'
  <2>1. guard[c] + 1 \in 0..Guard /\ attempt[c] + 1 \in 0..Attempts
    BY <1>1, <1>2
  <2>2. guard' \in [Calls -> 0..Guard] /\ attempt' \in [Calls -> 0..Attempts]
    BY <1>1, <1>3, <2>1
  <2>3. next' \in [Calls -> Nat] /\ phase' \in [Calls -> {"waiting", "running", "done"}]
    BY <1>1, <1>3
  <2>4. QED
    BY <1>1, <2>2, <2>3 DEF CallsInv, TypeOK
<1>5. CallInv(c)'
  <2>1. Pages(c)' = Pages(c)
    BY <1>1 DEF Pages
  <2>2. Underway(c)'
    BY <1>1, <1>2, <1>3, <2>1 DEF Underway
  <2>3. Ended(c)'
    <3>1. Len(acc[c]) \in Nat /\ guard[c] \in Nat /\ attempt[c] \in Nat
      BY <1>1
    <3>2. phase'[c] = "done" => guard[c] + 1 = Guard
      <4>1. phase'[c] = IF next[c] <= Pages(c) /\ guard[c] + 1 < Guard
                        THEN "running" ELSE "done"
        BY <1>1, <1>3
      <4>2. phase'[c] = "done" => ~(guard[c] + 1 < Guard)
        BY <1>2, <4>1
      <4>3. guard[c] < Guard /\ Guard \in Nat
        BY <1>1, <1>2
      <4>4. QED
        BY <3>1, <4>2, <4>3
    <3>3. attempt'[c] = attempt[c] + 1
      BY <1>1, <1>3
    <3>4. phase'[c] = "done" => Len(acc[c]) + attempt'[c] = Guard /\ Len(acc[c]) <= Pages(c)
      BY <1>2, <3>1, <3>2, <3>3
    <3>5. QED
      BY <1>1, <2>1, <3>4 DEF Ended
  <2>4. Ordered(c)'
    BY <1>1, <1>2 DEF Ordered
  <2>5. QED
    BY <2>2, <2>3, <2>4 DEF CallInv
<1>6. ASSUME NEW d \in Calls, d # c PROVE CallInv(d)'
  BY <1>1, <1>3, <1>6, OthersKeep DEF CallsInv
<1>7. attempt'[List] = 0
  BY <1>1, <1>3, CallsFacts DEF CallsInv
<1>8. QED
  BY <1>4, <1>5, <1>6, <1>7 DEF CallsInv

LEMMA FailKeeps ==
  ASSUME CallsInv, NEW c \in Calls, Fail(c)
  PROVE  CallsInv'
<1>1. /\ phase[c] = "running" /\ pages' = pages /\ next' = next /\ attempt' = attempt
      /\ phase \in [Calls -> {"waiting", "running", "done"}]
      /\ guard \in [Calls -> 0..Guard] /\ acc \in [Calls -> Seq(Nat)]
      /\ Guard \in Nat
  BY ExoRestAssumption DEF Fail, CallsInv, TypeOK, ExoRestAssumption
<1>2. /\ guard[c] < Guard
      /\ \A k \in 1..Len(acc[c]) : acc[c][k] = k
  BY <1>1 DEF CallsInv, CallInv, Underway, Ordered
<1>3. /\ phase' = [phase EXCEPT ![c] = "done"]
      /\ guard' = [guard EXCEPT ![c] = guard[c] + 1]
      /\ acc' = [acc EXCEPT ![c] = IF c = List THEN <<0>> ELSE Append(acc[c], 0)]
  BY DEF Fail, ErrorRow
<1>4. TypeOK'
  BY <1>1, <1>2, <1>3 DEF CallsInv, TypeOK
<1>5. /\ Len(acc'[c]) \in Nat \ {0} /\ acc'[c][Len(acc'[c])] = 0
      /\ \A k \in 1..Len(acc'[c]) : k # Len(acc'[c]) => acc'[c][k] = k
  <2>1. CASE c = List
    BY <1>1, <1>3, <2>1
  <2>2. CASE c # List
    BY <1>1, <1>2, <1>3, <2>2
  <2>3. QED
    BY <2>1, <2>2
<1>6. CallInv(c)'
  <2>1. phase'[c] = "done" /\ Failed(c)'
    BY <1>1, <1>3, <1>5 DEF Failed, Rows, ErrorRow
  <2>2. Ordered(c)'
    BY <1>5, <2>1 DEF Ordered, ErrorRow
  <2>3. QED
    BY <2>1, <2>2 DEF CallInv, Underway, Ended
<1>7. ASSUME NEW d \in Calls, d # c PROVE CallInv(d)'
  BY <1>1, <1>3, <1>7, OthersKeep DEF CallsInv
<1>8. QED
  BY <1>1, <1>4, <1>6, <1>7 DEF CallsInv

(***************************************************************************)
(* Pages, rounds and retries add up, in every call.                        *)
(***************************************************************************)
THEOREM CallsInvariant == Spec => []CallsInv
<1>1. Init => CallsInv
  <2> SUFFICES ASSUME Init PROVE CallsInv
    OBVIOUS
  <2>1. TypeOK
    BY ExoRestAssumption DEF Init, TypeOK, ExoRestAssumption
  <2>2. ASSUME NEW c \in Calls PROVE CallInv(c)
    BY <2>1, PagesType, ExoRestAssumption
       DEF Init, CallInv, Underway, Ended, Ordered, ExoRestAssumption
  <2>3. QED
    BY <2>1, <2>2, CallsFacts DEF Init, CallsInv
<1>2. CallsInv /\ [Next]_vars => CallsInv'
  <2> SUFFICES ASSUME CallsInv, [Next]_vars PROVE CallsInv'
    OBVIOUS
  <2>1. CASE UNCHANGED vars
    BY <2>1 DEF vars, CallsInv, TypeOK, CallInv, Underway, Ended, Ordered, Failed, Rows, Pages
  <2>2. QED
    BY <2>1, StartKeeps, PageKeeps, RetryKeeps, FailKeeps DEF Next
<1>3. QED
  BY <1>1, <1>2, PTL DEF Spec

(***************************************************************************)
(* Every variable keeps its type: no call makes more rounds or retries     *)
(* than it may.                                                            *)
(***************************************************************************)
THEOREM TypeCorrect == Spec => []TypeOK
<1>1. CallsInv => TypeOK
  BY DEF CallsInv
<1>2. QED
  BY <1>1, CallsInvariant, PTL

(***************************************************************************)
(* No row is reported twice or out of order, in whatever order pages,      *)
(* retries and failures of the calls come.                                 *)
(***************************************************************************)
THEOREM RowsAreInOrder == Spec => []RowsInOrder
<1>1. CallsInv => RowsInOrder
  BY DEF CallsInv, CallInv, Ordered, RowsInOrder
<1>2. QED
  BY <1>1, CallsInvariant, PTL

-----------------------------------------------------------------------------
(* The helpers implement Harvest.                                          *)

(* Without an error, a call has the rows 1, 2, ... up to where it is.      *)
LEMMA RowsAreAPrefix ==
  ASSUME NEW c \in Calls, TypeOK, Ordered(c), ~Failed(c)
  PROVE  Len(acc[c]) \in Nat /\ Rows(c) = 1..Len(acc[c])
<1>1. Len(acc[c]) \in Nat
  BY DEF TypeOK
<1>2. \A k \in 1..Len(acc[c]) : acc[c][k] = k
  BY DEF Ordered, Failed, Rows
<1>3. QED
  BY <1>1, <1>2 DEF Rows

(* A mailbox within the limits never comes out incomplete without an error.*)
Sound ==
  \A i \in Mailboxes :
    /\ Verdict(i) \in {"none", "all", "error", "part"}
    /\ i \in WithinLimits => Verdict(i) # "part"

LEMMA VerdictsAreSound == CallsInv => Sound
<1> SUFFICES ASSUME CallsInv, NEW i \in Mailboxes
             PROVE  /\ Verdict(i) \in {"none", "all", "error", "part"}
                    /\ i \in WithinLimits => Verdict(i) # "part"
  BY DEF Sound
<1>1. Verdict(i) \in {"none", "all", "error", "part"}
  BY DEF Verdict
<1>2. ASSUME i \in WithinLimits, phase[List] = "done", ~Failed(List)
      PROVE  i \in Listed
  <2>1. /\ CallInv(List) /\ TypeOK /\ attempt[List] = 0 /\ Pages(List) = Count
    BY CallsFacts DEF CallsInv, Pages
  <2>2. Rows(List) = 1..Len(acc[List]) /\ Len(acc[List]) \in Nat
    BY <1>2, <2>1, RowsAreAPrefix, CallsFacts DEF CallInv
  <2>3. Len(acc[List]) = Count \/ Len(acc[List]) = Guard
    BY <1>2, <2>1, <2>2 DEF CallInv, Ended
  <2>4. i \in 1..Count /\ i <= Guard
    BY <1>2 DEF WithinLimits, Mailboxes
  <2>5. i \in 1..Len(acc[List]) /\ i # 0
    BY <2>2, <2>3, <2>4
  <2>6. QED
    BY <1>2, <2>2, <2>5 DEF Listed, ErrorRow
<1>3. ASSUME i \in WithinLimits, phase[i] = "done", ~Failed(i)
      PROVE  Rows(i) = 1..pages[i]
  <2>1. /\ CallInv(i) /\ TypeOK /\ Pages(i) = pages[i]
    BY CallsFacts DEF CallsInv, Pages
  <2>2. Rows(i) = 1..Len(acc[i]) /\ Len(acc[i]) \in Nat
    BY <1>3, <2>1, RowsAreAPrefix, CallsFacts DEF CallInv
  <2>3. /\ Len(acc[i]) <= pages[i]
        /\ Len(acc[i]) = pages[i] \/ Len(acc[i]) + attempt[i] = Guard
    BY <1>3, <2>1 DEF CallInv, Ended
  <2>4. pages[i] <= Guard - Attempts
    BY <1>3 DEF WithinLimits
  <2>5. pages[i] \in Nat /\ attempt[i] \in 0..Attempts /\ Attempts \in Nat /\ Guard \in Nat
    BY <2>1, CallsFacts, ExoRestAssumption DEF TypeOK, ExoRestAssumption
  <2>6. Len(acc[i]) = pages[i]
    BY <2>2, <2>3, <2>4, <2>5
  <2>7. QED
    BY <2>2, <2>6
<1>4. QED
  BY <1>1, <1>2, <1>3 DEF Verdict

(* What a call has collected when it is over is final.                     *)
LEMMA DoneIsFinal ==
  ASSUME CallsInv, [Next]_vars
  PROVE  /\ pages' = pages
         /\ \A c \in Calls : phase[c] = "done" => phase'[c] = "done" /\ acc'[c] = acc[c]
<1>1. TypeOK
  BY DEF CallsInv
<1>2. ASSUME NEW i \in Mailboxes, Start(i)
      PROVE  /\ pages' = pages
             /\ \A c \in Calls : phase[c] = "done" => phase'[c] = "done" /\ acc'[c] = acc[c]
  BY <1>1, <1>2 DEF Start, TypeOK
<1>3. ASSUME NEW d \in Calls, Page(d) \/ Retry(d)
      PROVE  /\ pages' = pages
             /\ \A c \in Calls : phase[c] = "done" => phase'[c] = "done" /\ acc'[c] = acc[c]
  BY <1>1, <1>3 DEF Page, Retry, Round, TypeOK
<1>4. ASSUME NEW d \in Calls, Fail(d)
      PROVE  /\ pages' = pages
             /\ \A c \in Calls : phase[c] = "done" => phase'[c] = "done" /\ acc'[c] = acc[c]
  BY <1>1, <1>4 DEF Fail, TypeOK
<1>5. CASE UNCHANGED vars
  BY <1>5 DEF vars
<1>6. QED
  BY <1>2, <1>3, <1>4, <1>5 DEF Next

(* So is what the report says of a mailbox.                                *)
LEMMA VerdictIsFinal ==
  ASSUME CallsInv, [Next]_vars, NEW i \in Mailboxes, Verdict(i) # "none"
  PROVE  Verdict(i)' = Verdict(i)
<1>1. /\ phase[List] = "done" /\ phase'[List] = "done" /\ acc'[List] = acc[List]
      /\ pages' = pages
  BY DoneIsFinal, CallsFacts DEF Verdict
<1>2. Failed(List)' = Failed(List) /\ Listed' = Listed
  BY <1>1 DEF Failed, Rows, Listed
<1>3. CASE Failed(List) \/ i \notin Listed
  BY <1>1, <1>2, <1>3 DEF Verdict
<1>4. CASE ~Failed(List) /\ i \in Listed
  <2>1. phase[i] = "done" /\ phase'[i] = "done" /\ acc'[i] = acc[i]
    BY <1>1, <1>4, DoneIsFinal, CallsFacts DEF Verdict
  <2>2. Failed(i)' = Failed(i) /\ Rows(i)' = Rows(i)
    BY <2>1 DEF Failed, Rows
  <2>3. QED
    BY <1>1, <1>2, <2>1, <2>2 DEF Verdict
<1>5. QED
  BY <1>3, <1>4

(***************************************************************************)
(* The helpers drop nothing silently: within the limits of the loops, the  *)
(* report is given all rows of a mailbox or an error for it, once and for  *)
(* good, however requests are throttled, retried, refused and interleaved. *)
(***************************************************************************)
THEOREM ImplementsHarvest == Spec => NothingSilentlyDropped
<1>1. Init => Promise!Init
  BY CallsFacts DEF Init, Promise!Init, WithinLimits, Verdict
<1>2. CallsInv /\ Sound' /\ [Next]_vars => [Promise!Give]_(Promise!vars)
  <2> SUFFICES ASSUME CallsInv, Sound', [Next]_vars
               PROVE  Promise!Give
    OBVIOUS
  <2>1. WithinLimits' = WithinLimits
    BY DoneIsFinal DEF WithinLimits
  <2>2. ASSUME NEW i \in Mailboxes, Verdict(i)' # Verdict(i)
        PROVE  Verdict(i) = "none" /\ Verdict(i)' \in Promise!Answers(i)
    <3>1. Verdict(i) = "none"
      BY <2>2, VerdictIsFinal
    <3>2. Verdict(i)' \in {"all", "error", "part"}
      BY <2>2, <3>1 DEF Sound
    <3>3. i \in WithinLimits => Verdict(i)' # "part"
      BY <2>1 DEF Sound
    <3>4. QED
      BY <3>1, <3>2, <3>3 DEF Promise!Answers
  <2>3. QED
    BY <2>1, <2>2 DEF Promise!Give
<1>3. CallsInv' => Sound'
  BY VerdictsAreSound, PTL
<1>4. QED
  BY <1>1, <1>2, <1>3, CallsInvariant, PTL DEF Spec, NothingSilentlyDropped, Promise!Spec
=============================================================================
