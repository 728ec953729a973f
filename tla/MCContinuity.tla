----------------------------- MODULE MCContinuity -----------------------------
(* Instances of Continuity for TLC: chats, requests and texts are each         *)
(* interchangeable.                                                            *)
EXTENDS ContinuityRefinement, TLC

Interchangeable ==
    Permutations(Chat) \cup Permutations(RequestId) \cup Permutations(Message)
==============================================================================
