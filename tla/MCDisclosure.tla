----------------------------- MODULE MCDisclosure -----------------------------
(* Instances of Disclosure for TLC: sources and age of the memories, and the   *)
(* symmetry of the clients.                                                    *)
EXTENDS Disclosure, TLC

CONSTANTS m1, m2, s1, s2

\* Clients are told apart by nothing but their rows.
Interchangeable == Permutations(Client)

\* Two memories of one capture.
OneSource == (m1 :> s1) @@ (m2 :> s1)

\* Every memory with a source of its own.
OneEach == [m \in Memory |-> IF m = m1 THEN s1 ELSE s2]
\* m1 is the newer one.
Newest == [m \in Memory |-> IF m = m1 THEN 0 ELSE 1]
==============================================================================
