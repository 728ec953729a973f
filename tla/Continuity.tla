------------------------------ MODULE Continuity ------------------------------
(***************************************************************************)
(* Saved conversations (crates/omni-core/src/continuity.rs) as chat() uses *)
(* them: prepare_conversation under one lock, then the provider is asked   *)
(* without the lock for as long as it takes, then finish_conversation.     *)
(* In between the owner may clear the attempt, retry it, delete the        *)
(* conversation or let it expire, other chats may come and go, and the     *)
(* process may die.                                                        *)
(*                                                                         *)
(* A reply is known by the chat that fetched it.  Texts are equally long,  *)
(* so the bytes a prompt may hold are a number of exchanges.               *)
(***************************************************************************)
EXTENDS Naturals, Sequences, FiniteSets

CONSTANTS
    Thread,         \* conversation identifiers
    Chat,           \* calls of chat()
    NoChat,         \* no call
    RequestId,      \* request UUIDs the interface may use, and use again
    NoRequest,      \* pending_request is NULL
    Message,        \* texts of the owner, known to the vault by their hash
    Window,         \* exchanges a prompt holds (10, or 40 000 bytes)
    Capacity,       \* conversations an installation holds (64)
    MaxRevision,    \* revisions a conversation reaches (100)
    Lifetime,       \* choices of retention_days
    MaxClock        \* bound: days of the clock

ASSUME ContinuityAssumption ==
    /\ NoChat \notin Chat
    /\ NoRequest \notin RequestId
    /\ Message # {}
    /\ RequestId # {}
    /\ Window \in Nat
    /\ Capacity \in Nat
    /\ MaxRevision \in Nat
    /\ Lifetime \subseteq Nat \ {0}
    /\ MaxClock \in Nat

VARIABLES
    thread,         \* continuity_threads with their continuity_turns
    permitted,      \* conversations whose grant still permits their destination
    call,           \* each chat's PreparedConversation
    stage,          \* how far each chat has come
    clock           \* days

vars == <<thread, permitted, call, stage, clock>>

------------------------------------------------------------------------------
Turn == [request : RequestId, message : Message, by : Chat, position : Nat]

ThreadRow ==
    [state : {"unused", "live", "deleted"},
     revision : 0..MaxRevision,
     pending : RequestId \cup {NoRequest},
     expires : Nat,
     turns : Seq(Turn)]

CallRow ==
    [thread : Thread \cup {NoChat},
     request : RequestId,
     revision : 0..MaxRevision,
     message : Message,
     history : Seq(Chat),
     answer : Chat \cup {NoChat}]

Stage == {"idle",
          "asked",      \* prepared; the provider is being asked
          "stored",     \* the exchange was appended
          "discarded",  \* answered too late: shown, not stored
          "failed",     \* refused, failed or dropped after preparation
          "lost",       \* died with the process
          "replayed",   \* the stored reply was returned, nothing sent
          "refused"}    \* prepare_conversation refused

\* Chats that may have reached the provider.
Sent == {"asked", "stored", "discarded", "failed", "lost"}

\* Every variable holds a value of its type; in particular no sequence of
\* exchanges and cleared attempts takes a revision past its bound.
TypeOK ==
    /\ thread \in [Thread -> ThreadRow]
    /\ permitted \subseteq Thread
    /\ call \in [Chat -> CallRow]
    /\ stage \in [Chat -> Stage]
    /\ clock \in 0..MaxClock

AnyRequest == CHOOSE q \in RequestId : TRUE
AnyMessage == CHOOSE m \in Message : TRUE

NoThread(state) ==
    [state |-> state, revision |-> 0, pending |-> NoRequest, expires |-> 0,
     turns |-> << >>]

NoCall ==
    [thread |-> NoChat, request |-> AnyRequest, revision |-> 0,
     message |-> AnyMessage, history |-> << >>, answer |-> NoChat]

Init ==
    /\ thread = [c \in Thread |-> NoThread("unused")]
    /\ permitted = Thread
    /\ call = [h \in Chat |-> NoCall]
    /\ stage = [h \in Chat |-> "idle"]
    /\ clock = 0

------------------------------------------------------------------------------
Live(t) == t.state = "live"

\* Mutant of Expired: the last day counts.
ExpiredLate(t) == Live(t) /\ t.expires < clock

Expired(t) == Live(t) /\ t.expires <= clock

\* prune_conversations, which runs before any conversation is looked up; the
\* turns go with their conversation.
Pruned ==
    [c \in Thread |-> IF Expired(thread[c]) THEN NoThread("deleted")
                                            ELSE thread[c]]

Exchanges(turns) == [i \in DOMAIN turns |-> turns[i].by]

\* The last exchanges, in order, as a prompt shows them.
History(turns) ==
    LET s == Exchanges(turns)
    IN  IF Len(s) <= Window THEN s
        ELSE SubSeq(s, Len(s) - Window + 1, Len(s))

\* Mutant of StoredAt: the replay lookup finds nothing.
StoredNever(t, q) == {}

\* Where the exchange of a request is stored: primary key (thread, request).
StoredAt(t, q) == {i \in DOMAIN t.turns : t.turns[i].request = q}

\* Mutant of Askable: the conversation grows without bound.
AskableUncapped(t, revision) ==
    /\ t.pending = NoRequest
    /\ t.revision = revision

\* No attempt is pending or uncertain, the interface knows the present
\* revision, and the conversation is not full.
Askable(t, revision) ==
    /\ t.pending = NoRequest
    /\ t.revision = revision
    /\ revision < MaxRevision

\* The slot is free again, one revision later.
Freed(t) == [t EXCEPT !.pending = NoRequest, !.revision = @ + 1]

\* What finish_conversation inserts for a chat.
TurnOf(h) ==
    [request |-> call[h].request, message |-> call[h].message, by |-> h,
     position |-> call[h].revision + 1]

\* The exchange of a chat is appended and the slot is free again.
Extended(t, h) == [Freed(t) EXCEPT !.turns = Append(@, TurnOf(h))]

------------------------------------------------------------------------------
(* Owner *)

Create(c, days) ==
    /\ thread[c].state = "unused"
    /\ c \in permitted
    /\ Cardinality({x \in Thread : Live(Pruned[x])}) < Capacity
    /\ thread' = [Pruned EXCEPT ![c] = [NoThread("live") EXCEPT
                                           !.expires = clock + days]]
    /\ UNCHANGED <<permitted, call, stage, clock>>

\* Listing prunes.
List ==
    /\ thread' = Pruned
    /\ UNCHANGED <<permitted, call, stage, clock>>

\* Mutant of Delete: the stored exchanges stay behind.
DeleteThreadOnly(c) ==
    /\ Live(thread[c])
    /\ thread' = [thread EXCEPT ![c] = [NoThread("deleted") EXCEPT
                                           !.turns = thread[c].turns]]
    /\ UNCHANGED <<permitted, call, stage, clock>>

\* The exchanges go with their conversation.
Delete(c) ==
    /\ Live(thread[c])
    /\ thread' = [thread EXCEPT ![c] = NoThread("deleted")]
    /\ UNCHANGED <<permitted, call, stage, clock>>

\* Mutant of ClearAttempt: the revision stays.
ClearAttemptInPlace(c, q) ==
    /\ Live(thread[c])
    /\ thread[c].pending = q
    /\ thread' = [thread EXCEPT ![c].pending = NoRequest]
    /\ UNCHANGED <<permitted, call, stage, clock>>

\* The owner acknowledges that the attempt may have been delivered.
ClearAttempt(c, q) ==
    /\ Live(thread[c])
    /\ thread[c].pending = q
    /\ thread' = [thread EXCEPT ![c] = Freed(thread[c])]
    /\ UNCHANGED <<permitted, call, stage, clock>>

\* The grant is revoked, or stops for another reason.
Revoke(c) ==
    /\ c \in permitted
    /\ permitted' = permitted \ {c}
    /\ UNCHANGED <<thread, call, stage, clock>>

Tick ==
    /\ clock < MaxClock
    /\ clock' = clock + 1
    /\ UNCHANGED <<thread, permitted, call, stage>>

------------------------------------------------------------------------------
(* chat() *)

\* prepare_conversation reaches the lookup: the conversation is there and its
\* permission stands.  Authorization comes before replay.
Reaches(h, c) ==
    /\ stage[h] = "idle"
    /\ Live(Pruned[c])
    /\ c \in permitted

\* Mutant of Replay: the content is not compared.
ReplayAnything(h, c, q, m) ==
    /\ Reaches(h, c)
    /\ \E i \in StoredAt(Pruned[c], q) :
          call' = [call EXCEPT ![h] = [NoCall EXCEPT
                                          !.thread = c,
                                          !.request = q,
                                          !.message = m,
                                          !.answer = thread[c].turns[i].by]]
    /\ stage' = [stage EXCEPT ![h] = "replayed"]
    /\ thread' = Pruned
    /\ UNCHANGED <<permitted, clock>>

\* The request is already answered: the same content gets the stored reply.
Replay(h, c, q, m) ==
    /\ Reaches(h, c)
    /\ \E i \in StoredAt(Pruned[c], q) :
          /\ thread[c].turns[i].message = m
          /\ call' = [call EXCEPT ![h] = [NoCall EXCEPT
                                             !.thread = c,
                                             !.request = q,
                                             !.message = m,
                                             !.answer = thread[c].turns[i].by]]
    /\ stage' = [stage EXCEPT ![h] = "replayed"]
    /\ thread' = Pruned
    /\ UNCHANGED <<permitted, clock>>

\* A new request takes the conversation's slot and its recent history.
Ask(h, c, q, revision, m) ==
    /\ Reaches(h, c)
    /\ StoredAt(Pruned[c], q) = {}
    /\ Askable(thread[c], revision)
    /\ call' = [call EXCEPT ![h] = [NoCall EXCEPT
                                       !.thread = c,
                                       !.request = q,
                                       !.revision = revision,
                                       !.message = m,
                                       !.history = History(thread[c].turns)]]
    /\ stage' = [stage EXCEPT ![h] = "asked"]
    /\ thread' = [Pruned EXCEPT ![c].pending = q]
    /\ UNCHANGED <<permitted, clock>>

\* Anything else is refused, after pruning.
Refuse(h, c, q, revision, m) ==
    /\ stage[h] = "idle"
    /\ \/ ~Reaches(h, c)
       \/ \E i \in StoredAt(Pruned[c], q) : thread[c].turns[i].message # m
       \/ StoredAt(Pruned[c], q) = {} /\ ~Askable(thread[c], revision)
    /\ stage' = [stage EXCEPT ![h] = "refused"]
    /\ thread' = Pruned
    /\ UNCHANGED <<permitted, call, clock>>

\* upstream() or the reading of the answer fails, the caller goes away, or the
\* reply is too long to store: the attempt stays pending, even when nothing
\* left the machine.
Fail(h) ==
    /\ stage[h] = "asked"
    /\ stage' = [stage EXCEPT ![h] = "failed"]
    /\ UNCHANGED <<thread, permitted, call, clock>>

\* Mutant of Current: only the request is compared.
CurrentRequest(h) ==
    LET t == Pruned[call[h].thread]
    IN  /\ Live(t)
        /\ t.pending = call[h].request

\* The attempt is still the conversation's own.
Current(h) ==
    LET t == Pruned[call[h].thread]
    IN  /\ Live(t)
        /\ t.pending = call[h].request
        /\ t.revision = call[h].revision

\* finish_conversation appends the exchange.  Its inserts meet the keys of
\* continuity_turns, which UniqueTurns shows are never violated.
Finish(h) ==
    /\ stage[h] = "asked"
    /\ Current(h)
    /\ thread' = [Pruned EXCEPT ![call[h].thread] = Extended(@, h)]
    /\ stage' = [stage EXCEPT ![h] = "stored"]
    /\ UNCHANGED <<permitted, call, clock>>

\* The attempt was cleared, deleted or expired meanwhile.
Discard(h) ==
    /\ stage[h] = "asked"
    /\ ~Current(h)
    /\ thread' = Pruned
    /\ stage' = [stage EXCEPT ![h] = "discarded"]
    /\ UNCHANGED <<permitted, call, clock>>

\* The process dies: an attempt stays pending in the vault.
Crash ==
    /\ stage' = [h \in Chat |-> IF stage[h] = "asked" THEN "lost" ELSE stage[h]]
    /\ UNCHANGED <<thread, permitted, call, clock>>

Next ==
    \/ \E c \in Thread :
          \/ \E days \in Lifetime : Create(c, days)
          \/ Delete(c)
          \/ Revoke(c)
          \/ \E q \in RequestId :
                \/ ClearAttempt(c, q)
                \/ \E h \in Chat, m \in Message :
                      \/ Replay(h, c, q, m)
                      \/ \E revision \in 0..MaxRevision :
                            Ask(h, c, q, revision, m) \/ Refuse(h, c, q, revision, m)
    \/ \E h \in Chat : Fail(h) \/ Finish(h) \/ Discard(h)
    \/ List
    \/ Tick
    \/ Crash

Spec == Init /\ [][Next]_vars

------------------------------------------------------------------------------
(* Properties *)

\* The provider is asked at most once at each revision of a conversation:
\* whatever the interface retries, and whenever the process dies, only the
\* owner's explicit clearing of an attempt makes room for a second one.
OneSendPerRevision ==
    \A h, k \in Chat :
        /\ h # k
        /\ stage[h] \in Sent
        /\ stage[k] \in Sent
        /\ call[h].thread = call[k].thread
        => call[h].revision # call[k].revision

\* Every stored exchange was answered with exactly the exchanges that precede
\* it in the conversation, so replies never belong to a history that others
\* changed while the provider was thinking.
AnsweredInContext ==
    \A c \in Thread : \A i \in DOMAIN thread[c].turns :
        LET t == thread[c].turns[i]
        IN  /\ call[t.by].thread = c
            /\ call[t.by].message = t.message
            /\ call[t.by].history =
                   History(SubSeq(thread[c].turns, 1, i - 1))

\* A replayed reply answers the same text under the same request UUID in the
\* same conversation.
ReplayIsOwn ==
    \A h \in Chat : stage[h] = "replayed" =>
        LET k == call[h].answer
        IN  /\ k \in Chat
            /\ stage[k] = "stored"
            /\ call[k].thread = call[h].thread
            /\ call[k].request = call[h].request
            /\ call[k].message = call[h].message

\* Neither the primary key (thread, request) nor the unique key (thread,
\* position) of continuity_turns can reject the insert of a finished exchange;
\* positions grow along the conversation, up to its revision.
UniqueTurns ==
    \A c \in Thread : \A i, j \in DOMAIN thread[c].turns :
        /\ i < j => /\ thread[c].turns[i].request # thread[c].turns[j].request
                    /\ thread[c].turns[i].position < thread[c].turns[j].position
        /\ thread[c].turns[i].position <= thread[c].revision

\* An attempt made at an earlier revision is over, whatever its chat still
\* does; one made at the present revision is pending with its history.
AttemptIsPending(h) ==
    LET t == thread[call[h].thread]
    IN  /\ call[h].thread \in Thread
        /\ t.state # "unused"
        /\ Live(t) /\ call[h].revision >= t.revision =>
              /\ stage[h] # "stored"
              /\ call[h].revision = t.revision
              /\ call[h].request = t.pending
              /\ call[h].history = History(t.turns)

\* A pending request is not stored yet, and some chat made it.
SlotIsTaken(c) ==
    /\ thread[c].revision < MaxRevision
    /\ StoredAt(thread[c], thread[c].pending) = {}
    /\ \E h \in Chat : /\ stage[h] \in Sent
                       /\ call[h].thread = c
                       /\ call[h].revision = thread[c].revision

\* A stored exchange belongs to a chat that stored it, as it was asked.
TurnIsOwn(c, i) ==
    LET u == thread[c].turns[i]
    IN  /\ stage[u.by] = "stored"
        /\ call[u.by].thread = c
        /\ call[u.by].request = u.request
        /\ call[u.by].message = u.message
        /\ call[u.by].history = History(SubSeq(thread[c].turns, 1, i - 1))

\* The relation of calls, slots and stored exchanges on which the properties
\* rest; nothing outlives its conversation.
ContinuityInv ==
    /\ \A h \in Chat : stage[h] \in Sent => AttemptIsPending(h)
    /\ \A c \in Thread : thread[c].pending # NoRequest => SlotIsTaken(c)
    /\ \A c \in Thread : \A i \in DOMAIN thread[c].turns : TurnIsOwn(c, i)
    /\ \A c \in Thread : ~Live(thread[c]) => thread[c] = NoThread(thread[c].state)

\* Calls, slots and stored exchanges fit together, and neither key of the
\* table of turns can reject an exchange.
ContinuitySafety == TypeOK /\ ContinuityInv /\ UniqueTurns

\* From the instant a conversation expires nothing is stored in it, however
\* long its reply was on the way.
ExpiryIsFinal ==
    [][\A c \in Thread : Live(thread[c]) /\ thread[c].expires <= clock =>
          \/ thread'[c].turns = thread[c].turns
          \/ thread'[c] = NoThread("deleted")]_vars

==============================================================================
