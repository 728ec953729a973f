---------------------------- MODULE ConversationLog ----------------------------
(***************************************************************************)
(* What a saved conversation promises: a log of exchanges with one slot.   *)
(* An exchange takes the slot together with the recent log it will answer  *)
(* to, and either is appended to exactly that log or abandoned for good.   *)
(* Abstract specification implemented by module Continuity.                *)
(***************************************************************************)
EXTENDS Naturals, Sequences

CONSTANTS
    Exchange,       \* exchanges that may take place
    NoExchange,     \* the slot is free
    Window          \* length of the log an exchange is shown

VARIABLES
    log,            \* exchanges stored, oldest first
    slot,           \* the exchange in flight, if any
    shown,          \* what each exchange was shown of the log
    open            \* "new", "open" or "closed"

logVars == <<log, slot, shown, open>>

Recent(s) ==
    IF Len(s) <= Window THEN s ELSE SubSeq(s, Len(s) - Window + 1, Len(s))

LogInit ==
    /\ log = << >>
    /\ slot = NoExchange
    /\ shown = [e \in Exchange |-> << >>]
    /\ open = "new"

Create ==
    /\ open = "new"
    /\ open' = "open"
    /\ UNCHANGED <<log, slot, shown>>

\* The slot is taken by an exchange which is shown the recent log.
Ask(e) ==
    /\ open = "open"
    /\ slot = NoExchange
    /\ slot' = e
    /\ shown' = [shown EXCEPT ![e] = Recent(log)]
    /\ UNCHANGED <<log, open>>

\* Only the exchange that holds the slot is appended.
Store ==
    /\ open = "open"
    /\ slot # NoExchange
    /\ log' = Append(log, slot)
    /\ slot' = NoExchange
    /\ UNCHANGED <<shown, open>>

\* An abandoned exchange never comes back to the slot by itself.
Abandon ==
    /\ open = "open"
    /\ slot # NoExchange
    /\ slot' = NoExchange
    /\ UNCHANGED <<log, shown, open>>

\* Deletion and expiry take everything.
Close ==
    /\ open = "open"
    /\ open' = "closed"
    /\ log' = << >>
    /\ slot' = NoExchange
    /\ UNCHANGED shown

LogNext ==
    \/ Create
    \/ \E e \in Exchange : Ask(e)
    \/ Store
    \/ Abandon
    \/ Close

LogSpec == LogInit /\ [][LogNext]_logVars
==============================================================================
