----------------------------- MODULE MCSnapshot -----------------------------
(* The constants of Snapshot that a configuration file cannot write. Two   *)
(* values have the same text, as the number 1 and the string "1".          *)
EXTENDS Snapshot

CONSTANTS keyed, guessed, unkeyed, one, quoted

MCText == [v \in Values |-> IF v = Null THEN "" ELSE "1"]
MCKeyColumns == [r \in Reports |-> IF r = keyed THEN "Name" ELSE "none"]
MCHeuristics == <<"Id", "Name">>
MCColumns ==
  [r \in Reports |->
     IF r = keyed THEN <<{"Id", "Name"}>>
     ELSE IF r = guessed THEN <<{"Name", "State"}, {"Id", "Name"}>>
     ELSE <<{"State", "Date"}>>]
=============================================================================
