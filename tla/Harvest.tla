------------------------------ MODULE Harvest ------------------------------
(***************************************************************************)
(* What the Exchange helpers promise the report that calls them: each      *)
(* mailbox is answered for once, with all there is to say of it or with an *)
(* error, in the rows the report is given or as an exception. What of it   *)
(* the report then prints is its own affair. Only a mailbox outside        *)
(* certain may come out incomplete without an error.                       *)
(***************************************************************************)
CONSTANT Mailboxes

VARIABLES
  certain,  \* the mailboxes within the limits of the helpers
  answer    \* what the report is given about each mailbox

vars == <<certain, answer>>

Init ==
  /\ certain \in SUBSET Mailboxes
  /\ answer = [i \in Mailboxes |-> "none"]

Answers(i) == {"all", "error"} \cup (IF i \in certain THEN {} ELSE {"part"})

Give ==
  /\ certain' = certain
  /\ \A i \in Mailboxes :
       answer'[i] # answer[i] => answer[i] = "none" /\ answer'[i] \in Answers(i)

Spec == Init /\ [][Give]_vars
=============================================================================
