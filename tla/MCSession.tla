------------------------------ MODULE MCSession ------------------------------
(* Session for TLC: requests are interchangeable. *)
EXTENDS Session, TLC

Interchangeable == Permutations(Request)
=============================================================================
