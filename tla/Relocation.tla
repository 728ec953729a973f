----------------------------- MODULE Relocation -----------------------------
(***************************************************************************)
(* What export and restore promise: installations hold content and give    *)
(* access; a copy of an installation is content only, and can be put into  *)
(* an installation that holds nothing, in one step, after which it gives   *)
(* no access at all.  An installation's identity never changes.            *)
(***************************************************************************)
CONSTANTS Node, Thing

VARIABLES
    content,    \* what every installation holds
    access,     \* what it permits: grants, clients, open requests, consent
    identity,   \* who it is
    copies      \* contents of archives, delivered or not

Init ==
    /\ content = [n \in Node |-> {}]
    /\ access = [n \in Node |-> {}]
    /\ identity = [n \in Node |-> n]
    /\ copies = {}

Set(n, held, allowed) ==
    /\ content' = [content EXCEPT ![n] = held]
    /\ access' = [access EXCEPT ![n] = allowed]
    /\ UNCHANGED identity

\* The owner removes things, and adds or allows one.
Owner(n) ==
    /\ Set(n, content'[n], access'[n])
    /\ UNCHANGED copies
    /\ \E x \in Thing :
        /\ content'[n] \subseteq content[n] \cup {x}
        /\ access'[n] \subseteq access[n] \cup {x}

\* A copy is made of what is left after outdated things were removed.
Copy(n) ==
    /\ Set(n, content'[n], access'[n])
    /\ content'[n] \subseteq content[n]
    /\ access'[n] \subseteq access[n]
    /\ copies' = copies \cup {content'[n]}

\* Copies are lost with the calls that hold them.
Lose ==
    /\ UNCHANGED <<access, content, identity>>
    /\ copies' \subseteq copies

Restore(n, x) ==
    /\ content[n] = {}
    /\ Set(n, x, {})
    /\ UNCHANGED copies

Next ==
    \/ Lose
    \/ \E n \in Node :
          \/ Owner(n)
          \/ Copy(n)
          \/ \E x \in copies : Restore(n, x)

Spec == Init /\ [][Next]_<<content, access, identity, copies>>
=============================================================================
