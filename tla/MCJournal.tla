------------------------------ MODULE MCJournal ------------------------------
(* Instances of Journal for TLC: the exchanges are interchangeable. *)
EXTENDS Journal, TLC

Interchangeable == Permutations(Exchange)
==============================================================================
