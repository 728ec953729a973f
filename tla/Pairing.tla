------------------------------- MODULE Pairing -------------------------------
(***************************************************************************)
(* The pairing code of the development core (config.rs, claim_session in   *)
(* http.rs): browsers that were opened with the code, in several tabs or   *)
(* too late, or with another code or from another origin, ask for the      *)
(* owner's token at the same time.                                         *)
(***************************************************************************)
EXTENDS Naturals

CONSTANTS
    Browser,
    Lifetime,   \* PAIRING_LIFETIME
    MaxClock    \* bound: the monotonic clock

ASSUME PairingAssumption ==
    /\ Lifetime \in Nat \ {0}
    /\ MaxClock \in Nat

VARIABLES
    ticket,     \* the code waits to be claimed
    clock,
    asking,     \* what every browser brings on its way to the lock
    paired      \* browsers that were given the token

pairingVars == <<ticket, clock, asking, paired>>

Bring == {"code", "other"}

PairingInit ==
    /\ ticket \in BOOLEAN       \* FALSE: started without a code
    /\ clock = 0
    /\ asking = [b \in Browser |-> "nothing"]
    /\ paired = {}

\* claim_session looks at the origin first; a bad one gets no further.
Ask(b, what) ==
    /\ asking[b] = "nothing"
    /\ asking' = [asking EXCEPT ![b] = what]
    /\ UNCHANGED <<ticket, clock, paired>>

\* Mutant of Claim: the code is not used up.
ClaimKeeps(b) ==
    /\ asking[b] # "nothing"
    /\ asking' = [asking EXCEPT ![b] = "nothing"]
    /\ ticket' = (ticket /\ clock < Lifetime)
    /\ paired' = IF ticket /\ clock < Lifetime /\ asking[b] = "code"
                 THEN paired \cup {b} ELSE paired
    /\ UNCHANGED clock

\* PairingGate::claim under the lock: an expired code is discarded, the
\* right one is used up, a wrong one leaves it.
Claim(b) ==
    /\ asking[b] # "nothing"
    /\ asking' = [asking EXCEPT ![b] = "nothing"]
    /\ LET good == ticket /\ clock < Lifetime /\ asking[b] = "code"
       IN  /\ ticket' = (ticket /\ clock < Lifetime /\ ~ good)
           /\ paired' = IF good THEN paired \cup {b} ELSE paired
    /\ UNCHANGED clock

Passes ==
    /\ clock < MaxClock
    /\ clock' = clock + 1
    /\ UNCHANGED <<ticket, asking, paired>>

PairingNext ==
    \/ \E b \in Browser, what \in Bring : Ask(b, what)
    \/ \E b \in Browser : Claim(b)
    \/ Passes

PairingSpec == PairingInit /\ [][PairingNext]_pairingVars

------------------------------------------------------------------------------
\* Every variable holds a value of its type.
PairingTypeOK ==
    /\ ticket \in BOOLEAN
    /\ clock \in Nat
    /\ asking \in [Browser -> Bring \cup {"nothing"}]
    /\ paired \subseteq Browser

\* The code gives the owner's token to one browser at most, within its
\* lifetime, although several ask at once (PairingGate::claim).
PairedOnce ==
    [][paired' # paired =>
        /\ paired = {} /\ clock < Lifetime
        /\ \E b \in Browser : paired' = {b} /\ asking[b] = "code"]_pairingVars

==============================================================================
