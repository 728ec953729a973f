------------------------------ MODULE Handover ------------------------------
(***************************************************************************)
(* The abstract specification of a rotation: two durable epochs of which    *)
(* the hub's is never behind the client's and never more than one ahead.    *)
(* The hub moves first, the client follows; neither ever goes back.         *)
(***************************************************************************)
EXTENDS Naturals

VARIABLES hub, client

Init == hub = 0 /\ client = 0

HubCommits ==
    /\ hub = client
    /\ hub' = hub + 1
    /\ UNCHANGED client

ClientFollows ==
    /\ hub = client + 1
    /\ client' = hub
    /\ UNCHANGED hub

Next == HubCommits \/ ClientFollows

Spec == Init /\ [][Next]_<<hub, client>>
=============================================================================
