----------------------------- MODULE MCSession -----------------------------
(* Session on small instances: the clients are interchangeable.            *)
EXTENDS Session, TLC

Symmetry == Permutations(Clients)
=============================================================================
