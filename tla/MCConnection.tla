---------------------------- MODULE MCConnection ----------------------------
(* Model-checking instance of Connection: job ids and tenants are          *)
(* interchangeable.                                                        *)
EXTENDS Connection, TLC

ConnSymmetry == Permutations(Jobs) \cup Permutations(Tenants)
=============================================================================
