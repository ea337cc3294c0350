----------------------------- MODULE MCSession -----------------------------
(* Model-checking instance of Session: job ids are interchangeable.        *)
EXTENDS Session, TLC

JobSymmetry == Permutations(Jobs)
=============================================================================
