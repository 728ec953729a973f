--------------------------- MODULE ExchangeHistory ---------------------------
(***************************************************************************)
(* What the history promises of every exchange: it is recorded when it     *)
(* begins or never, its record says how it ended only from the moment it   *)
(* ends, once and for good, and may be removed at any time, for good.      *)
(* A record left open may be called interrupted, but not while its         *)
(* exchange runs, unless the history is shared.                            *)
(* Abstract specification implemented by module Journal.                   *)
(***************************************************************************)
CONSTANTS
    Exchange,
    Absent,         \* there is no record
    Begun,          \* the record of an exchange that has not ended
    Removed,        \* there is no record any more
    Outcome,        \* records of exchanges that ended
    Interruption,   \* records of exchanges that were interrupted
    Shared          \* another process may believe itself alone

VARIABLES
    record,         \* what the history says of every exchange
    running,        \* exchanges that run
    over            \* exchanges that ran

historyVars == <<record, running, over>>

HistoryInit ==
    /\ record = [x \in Exchange |-> Absent]
    /\ running = {}
    /\ over = {}

Same(x) == record'[x] = record[x]
Remove(x) == record[x] # Absent /\ record'[x] = Removed
Interrupt(x) ==
    /\ record[x] = Begun
    /\ x \in running => Shared
    /\ record'[x] \in Interruption

\* An exchange runs once; old records are removed as it begins.
Begin(x) ==
    /\ x \notin running \cup over
    /\ record[x] = Absent /\ record'[x] \in {Absent, Begun}
    /\ \A y \in Exchange \ {x} : Same(y) \/ Remove(y)
    /\ running' = running \cup {x}
    /\ UNCHANGED over

Close(x) ==
    /\ record[x] = Begun
    /\ record'[x] \in Outcome
    /\ record' = [record EXCEPT ![x] = record'[x]]

\* The record is closed, or left as it is.
End(x) ==
    /\ x \in running
    /\ running' = running \ {x}
    /\ over' = over \cup {x}
    /\ UNCHANGED record \/ Close(x)

\* What runs stops without a word.
Die ==
    /\ running' = {}
    /\ over' = over \cup running
    /\ UNCHANGED record

Tidy ==
    /\ \A x \in Exchange : Same(x) \/ Remove(x) \/ Interrupt(x)
    /\ UNCHANGED <<running, over>>

HistoryNext ==
    \/ \E x \in Exchange : Begin(x) \/ End(x)
    \/ Die
    \/ Tidy

HistorySpec == HistoryInit /\ [][HistoryNext]_historyVars
==============================================================================
