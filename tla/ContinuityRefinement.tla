------------------------ MODULE ContinuityRefinement -------------------------
(***************************************************************************)
(* Module Continuity implements module ConversationLog, conversation by    *)
(* conversation: the mapping is stated for one of them, whichever it is.   *)
(***************************************************************************)
EXTENDS Continuity

CONSTANT Observed       \* the conversation looked at

ASSUME ObservedAssumption == Observed \in Thread

\* The chat that holds the slot of a conversation: it asked at the present
\* revision and nobody cleared it, whether or not it still runs.
Holders ==
    {h \in Chat : /\ stage[h] \in Sent \ {"stored"}
                  /\ call[h].thread = Observed
                  /\ call[h].request = thread[Observed].pending
                  /\ call[h].revision = thread[Observed].revision}

Stored == Exchanges(thread[Observed].turns)

Slot ==
    IF Live(thread[Observed]) /\ thread[Observed].pending # NoRequest
    THEN CHOOSE h \in Holders : TRUE
    ELSE NoChat

Shown ==
    [h \in Chat |-> IF stage[h] \in Sent /\ call[h].thread = Observed
                    THEN call[h].history
                    ELSE << >>]

Opened ==
    IF thread[Observed].state = "unused" THEN "new"
    ELSE IF Live(thread[Observed]) THEN "open" ELSE "closed"

Log == INSTANCE ConversationLog WITH
    Exchange <- Chat,
    NoExchange <- NoChat,
    log <- Stored,
    slot <- Slot,
    shown <- Shown,
    open <- Opened

\* Preparation and completion, however far apart, amount to one exchange
\* appended to exactly the log it was asked with: a conversation implements
\* the one-slot log.
ImplementsLog == Log!LogSpec

==============================================================================
