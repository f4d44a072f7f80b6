---------------------------- MODULE MC_NetConnection ----------------------------
(* NetConnection on small instances: the closer slots are interchangeable. *)
EXTENDS NetConnection, TLC

Symmetry == Permutations(Closer)
================================================================================
