------------------------------- MODULE Journal -------------------------------
(***************************************************************************)
(* The interaction journal of omni-core: the rows of journal_interactions  *)
(* (journal.rs), the ExchangeTrace each handler carries while it reads a   *)
(* provider's answer (http.rs), and work_requests, the attribution rows    *)
(* that follow them (work.rs).                                             *)
(*                                                                         *)
(* A row belongs to the database, a trace to the process.  The trace alone *)
(* knows what really happened to an exchange; it writes the row twice at   *)
(* most, ignores write errors, and dies with the process.  Meanwhile rows  *)
(* are pruned, cleared and recovered by others.                            *)
(***************************************************************************)
EXTENDS Naturals

CONSTANTS
    Exchange,       \* interaction identifiers, fresh for every exchange
    Modes,          \* ways of reading an answer, see Mode
    Limit,          \* chunks an answer may have before it is too large
    Retentions,     \* choices of history_retention_days
    Leased,         \* the vault is opened under the runtime lease
    MaxClock        \* bound: days of the clock

\* launcher: chat(); plain and stream: proxy(); extractor: capture().
Mode == {"launcher", "plain", "stream", "extractor"}

ASSUME JournalAssumption ==
    /\ Modes \subseteq Mode
    /\ Limit \in Nat
    /\ Retentions \subseteq Nat \ {0}
    /\ Retentions # {}
    /\ Leased \in BOOLEAN
    /\ MaxClock \in Nat

VARIABLES
    row,            \* journal_interactions
    attributed,     \* work_requests, by the exchange they name
    trace,          \* the ExchangeTrace of every exchange
    unsaved,        \* history: exchanges that lost a final write
    enabled,        \* history_enabled
    retention,      \* history_retention_days
    clock,          \* days
    phase           \* of the core process

vars == <<row, attributed, trace, unsaved, enabled, retention, clock, phase>>

------------------------------------------------------------------------------
Terminal == {"succeeded", "failed", "aborted"}
Open == {"pending", "streaming"}
Live == {"started", "awaiting", "reading"}

ErrorCode ==
    {"none", "client_disconnected", "process_restarted",
     "upstream_stream_error", "upstream_stream_incomplete",
     "provider_http_error", "invalid_response", "response_too_large",
     "transport"}      \* provider_timeout, provider_unavailable,
                       \* stream_timeout and stream_interrupted

InteractionRecord ==
    [status : {"none", "deleted"} \cup Open \cup Terminal,
     error : ErrorCode,
     started : 0..MaxClock,
     chunks : 0..Limit + 1]

TraceRow ==
    [place : {"idle", "done", "lost"} \cup Live,
     mode : Mode,
     ok : BOOLEAN,          \* the HTTP status is 2xx
     streamError : BOOLEAN, \* an error event was read
     streamEnded : BOOLEAN, \* the protocol's completion marker was read
     chunks : 0..Limit + 1]

\* Every variable holds a value of its type.
TypeOK ==
    /\ row \in [Exchange -> InteractionRecord]
    /\ attributed \subseteq Exchange
    /\ trace \in [Exchange -> TraceRow]
    /\ unsaved \subseteq Exchange
    /\ enabled \in BOOLEAN
    /\ retention \in Retentions
    /\ clock \in 0..MaxClock
    /\ phase \in {"down", "recovering", "up"}

NoRecord == [status |-> "none", error |-> "none", started |-> 0, chunks |-> 0]

Init ==
    /\ row = [x \in Exchange |-> NoRecord]
    /\ attributed = {}
    /\ trace = [x \in Exchange |->
                   [place |-> "idle", mode |-> "launcher", ok |-> FALSE,
                    streamError |-> FALSE, streamEnded |-> FALSE,
                    chunks |-> 0]]
    /\ unsaved = {}
    /\ enabled = TRUE
    /\ retention \in Retentions
    /\ clock = 0
    /\ phase = "down"

------------------------------------------------------------------------------
(* The journal's operations on rows *)

Recorded(r) == r.status \in Open \cup Terminal

Expired(r, days) == Recorded(r) /\ r.started + days < clock

\* journal_prune, with the retention then in force.
Pruned(days) ==
    [x \in Exchange |->
        IF Expired(row[x], days) THEN [row[x] EXCEPT !.status = "deleted"]
                                 ELSE row[x]]

\* Mutant of Finished: a final row is written again.
FinishedAgain(r, status, error, chunks) ==
    IF Recorded(r)
    THEN [r EXCEPT !.status = status, !.error = error, !.chunks = chunks]
    ELSE r

\* journal_finish: completion is immutable and missing rows stay missing.
Finished(r, status, error, chunks) ==
    IF r.status \in Open
    THEN [r EXCEPT !.status = status, !.error = error, !.chunks = chunks]
    ELSE r

\* Mutant of Interrupted: the status is not in the journal's vocabulary.
InterruptedUnknown(r) == Finished(r, "interrupted", "process_restarted", r.chunks)

\* The row as journal_recover_interrupted leaves it: counters are kept.
Interrupted(r) == Finished(r, "aborted", "process_restarted", r.chunks)

------------------------------------------------------------------------------
(* Exchanges *)

\* ExchangeTrace::new: journal_start prunes, then records the exchange when
\* history is enabled; the trace exists either way.  The extractor is called
\* at once, upstream() has an attribution row to write first.
Start(x, mode) ==
    /\ phase = "up"
    /\ trace[x].place = "idle"
    /\ trace' = [trace EXCEPT
                    ![x].place = IF mode = "extractor" THEN "awaiting"
                                                       ELSE "started",
                    ![x].mode = mode]
    /\ row' = [Pruned(retention) EXCEPT
                  ![x] = IF enabled
                         THEN [@ EXCEPT !.status = "pending", !.started = clock]
                         ELSE @]
    /\ UNCHANGED <<attributed, unsaved, enabled, retention, clock, phase>>

\* Mutant of Attribute: rows of vanished exchanges are not removed.
AttributeOnly(x) ==
    /\ trace[x].place = "started"
    /\ trace' = [trace EXCEPT ![x].place = "awaiting"]
    /\ attributed' = attributed \cup {x}
    /\ UNCHANGED <<row, unsaved, enabled, retention, clock, phase>>

\* record_work_request inserts, then deletes the rows of exchanges which are
\* not, or no longer, in the journal: possibly the one it just wrote.
Attribute(x) ==
    /\ trace[x].place = "started"
    /\ trace' = [trace EXCEPT ![x].place = "awaiting"]
    /\ attributed' = {y \in attributed \cup {x} : Recorded(row[y])}
    /\ UNCHANGED <<row, unsaved, enabled, retention, clock, phase>>

\* ExchangeTrace::headers; only a stream writes its row here, and an error of
\* that write is ignored.
Headers(x, ok, saved) ==
    /\ trace[x].place = "awaiting"
    /\ trace' = [trace EXCEPT ![x].place = "reading", ![x].ok = ok]
    /\ row' = IF trace[x].mode = "stream" /\ saved
              THEN [row EXCEPT ![x] = Finished(@, "streaming", "none", 0)]
              ELSE row
    /\ UNCHANGED <<attributed, unsaved, enabled, retention, clock, phase>>

\* Mutants of CompleteFrom: a failure is not written, ...
CompleteForgets(x, t, status, error, saved) ==
    /\ trace' = [trace EXCEPT ![x] = [t EXCEPT !.place = "done"]]
    /\ row' = IF saved /\ status = "succeeded"
              THEN [row EXCEPT ![x] = Finished(@, status, error, t.chunks)]
              ELSE row
    /\ unsaved' = IF saved THEN unsaved ELSE unsaved \cup {x}
    /\ UNCHANGED <<attributed, enabled, retention, clock, phase>>

\* ... or an error event in the stream is not remembered.
CompleteBlind(x, t, status, error, saved) ==
    /\ trace' = [trace EXCEPT ![x] = [t EXCEPT !.place = "done"]]
    /\ row' = IF saved
              THEN [row EXCEPT ![x] = Finished(@, status, error, t.chunks)]
              ELSE row
    /\ unsaved' = IF saved THEN unsaved ELSE unsaved \cup {x}
    /\ UNCHANGED <<attributed, enabled, retention, clock, phase>>

\* ExchangeTrace::complete with the trace t: an error event overrides any other
\* outcome, and an error of the write is ignored.
CompleteFrom(x, t, status, error, saved) ==
    /\ trace' = [trace EXCEPT ![x] = [t EXCEPT !.place = "done"]]
    /\ row' = IF ~saved THEN row
              ELSE IF t.streamError
              THEN [row EXCEPT ![x] = Finished(@, "failed",
                                               "upstream_stream_error", t.chunks)]
              ELSE [row EXCEPT ![x] = Finished(@, status, error, t.chunks)]
    /\ unsaved' = IF saved THEN unsaved ELSE unsaved \cup {x}
    /\ UNCHANGED <<attributed, enabled, retention, clock, phase>>

Complete(x, status, error, saved) ==
    CompleteFrom(x, trace[x], status, error, saved)

\* No headers: the send failed or timed out.
SendFails(x, saved) ==
    /\ trace[x].place = "awaiting"
    /\ Complete(x, "failed", "transport", saved)

\* A chunk and the events on its lines.  The trace counts and reads it before
\* its size is judged.
Chunk(x, failing, ended, saved) ==
    LET t == [trace[x] EXCEPT !.chunks = @ + 1,
                              !.streamError = @ \/ failing,
                              !.streamEnded = @ \/ ended]
    IN  /\ trace[x].place = "reading"
        /\ trace[x].mode # "stream" => ~failing /\ ~ended
        /\ IF t.chunks > Limit
           THEN CompleteFrom(x, t, "failed", "response_too_large", saved)
           ELSE /\ trace' = [trace EXCEPT ![x] = t]
                /\ UNCHANGED <<row, attributed, unsaved, enabled, retention,
                               clock, phase>>

\* read_tracked_body refuses an announced length beyond its limit.
Announced(x, saved) ==
    /\ trace[x].place = "reading"
    /\ trace[x].mode # "stream"
    /\ trace[x].chunks = 0
    /\ Complete(x, "failed", "response_too_large", saved)

\* The connection breaks, or the idle or total timeout fires.
Breaks(x, saved) ==
    /\ trace[x].place = "reading"
    /\ Complete(x, "failed", "transport", saved)

\* ExchangeTrace::response_complete
ResponseComplete(x, saved) ==
    IF ~trace[x].ok THEN Complete(x, "failed", "provider_http_error", saved)
    ELSE IF trace[x].mode = "stream" /\ ~trace[x].streamEnded
    THEN Complete(x, "failed", "upstream_stream_incomplete", saved)
    ELSE Complete(x, "succeeded", "none", saved)

\* The whole body was read by proxy(): it is passed on as it is.
ProxyEnds(x, saved) ==
    /\ trace[x].place = "reading"
    /\ trace[x].mode \in {"plain", "stream"}
    /\ ResponseComplete(x, saved)

\* The whole body was read by chat() or capture(), which need a usable answer.
AnswerEnds(x, usable, saved) ==
    /\ trace[x].place = "reading"
    /\ trace[x].mode \in {"launcher", "extractor"}
    /\ IF ~trace[x].ok THEN Complete(x, "failed", "provider_http_error", saved)
       ELSE IF usable THEN Complete(x, "succeeded", "none", saved)
       ELSE Complete(x, "failed", "invalid_response", saved)

\* A caller that went away, or a database error between two steps, drops the
\* handler and the trace with it.
Drop(x, saved) ==
    /\ trace[x].place \in Live
    /\ Complete(x, "aborted", "client_disconnected", saved)

------------------------------------------------------------------------------
(* Owner, clock and process *)

\* The settings are saved, then journal_prune runs with the new retention.
PatchSettings(on, days) ==
    /\ phase = "up"
    /\ enabled' = on
    /\ retention' = days
    /\ row' = Pruned(days)
    /\ UNCHANGED <<attributed, trace, unsaved, clock, phase>>

\* Every reader of the journal prunes it first.
Read ==
    /\ phase = "up"
    /\ row' = Pruned(retention)
    /\ UNCHANGED <<attributed, trace, unsaved, enabled, retention, clock, phase>>

\* journal_delete_history leaves the attribution rows to the next request.
ClearHistory ==
    /\ phase = "up"
    /\ row' = [x \in Exchange |->
                  IF Recorded(row[x]) THEN [row[x] EXCEPT !.status = "deleted"]
                                      ELSE row[x]]
    /\ UNCHANGED <<attributed, trace, unsaved, enabled, retention, clock, phase>>

Tick ==
    /\ clock < MaxClock
    /\ clock' = clock + 1
    /\ UNCHANGED <<row, attributed, trace, unsaved, enabled, retention, phase>>

\* The process starts: pruning first ...
Boot ==
    /\ phase = "down"
    /\ phase' = "recovering"
    /\ row' = Pruned(retention)
    /\ UNCHANGED <<attributed, trace, unsaved, enabled, retention, clock>>

\* ... then journal_recover_interrupted finishes the open rows one by one, each
\* in a transaction of its own ...
Recover(x) ==
    /\ phase = "recovering"
    /\ row[x].status \in Open
    /\ row' = [row EXCEPT ![x] = Interrupted(@)]
    /\ UNCHANGED <<attributed, trace, unsaved, enabled, retention, clock, phase>>

\* Mutant of Ready: the core serves while rows are still being recovered.
ReadyEarly ==
    /\ phase = "recovering"
    /\ phase' = "up"
    /\ UNCHANGED <<row, attributed, trace, unsaved, enabled, retention, clock>>

\* ... and only then the core serves requests.
Ready ==
    /\ phase = "recovering"
    /\ \A x \in Exchange : row[x].status \notin Open
    /\ phase' = "up"
    /\ UNCHANGED <<row, attributed, trace, unsaved, enabled, retention, clock>>

\* The process dies, or a failed recovery ends it.
Crash ==
    /\ phase # "down"
    /\ phase' = "down"
    /\ trace' = [x \in Exchange |->
                    IF trace[x].place \in Live
                    THEN [trace[x] EXCEPT !.place = "lost"]
                    ELSE trace[x]]
    /\ UNCHANGED <<row, attributed, unsaved, enabled, retention, clock>>

\* Mutant of SecondCore: the embedded runtime takes no lease.
SecondCoreUnleased ==
    /\ phase = "up"
    /\ row' = [x \in Exchange |-> Interrupted(Pruned(retention)[x])]
    /\ UNCHANGED <<attributed, trace, unsaved, enabled, retention, clock, phase>>

\* The standalone binary initializes the journal before it binds its port and
\* takes no lease: started a second time, it recovers a serving core's rows.
SecondCore ==
    /\ ~Leased
    /\ phase = "up"
    /\ row' = [x \in Exchange |-> Interrupted(Pruned(retention)[x])]
    /\ UNCHANGED <<attributed, trace, unsaved, enabled, retention, clock, phase>>

------------------------------------------------------------------------------
\* The steps of an exchange from its attribution to its end: the handler's own
\* and, once it returned a stream as its body, those of whoever polls that.
Handler(x) ==
    \/ Attribute(x)
    \/ \E saved \in BOOLEAN :
          \/ \E b \in BOOLEAN : Headers(x, b, saved) \/ AnswerEnds(x, b, saved)
          \/ \E failing, ended \in BOOLEAN : Chunk(x, failing, ended, saved)
          \/ SendFails(x, saved)
          \/ Announced(x, saved)
          \/ Breaks(x, saved)
          \/ ProxyEnds(x, saved)

Next ==
    \/ \E x \in Exchange :
          \/ \E mode \in Modes : Start(x, mode)
          \/ Handler(x)
          \/ \E saved \in BOOLEAN : Drop(x, saved)
          \/ Recover(x)
    \/ \E on \in BOOLEAN, days \in Retentions : PatchSettings(on, days)
    \/ Read
    \/ ClearHistory
    \/ Tick
    \/ Boot
    \/ Ready
    \/ Crash
    \/ SecondCore

Spec == Init /\ [][Next]_vars

\* The handler has returned: bounded_stream is the body of its response, and
\* is polled, its idle timeout and the total one with it, only as the caller
\* takes data.
Streamed(x) == trace[x].mode = "stream" /\ trace[x].place = "reading"

\* What the handler awaits itself has a timeout: 10 s to connect, 180 s in all,
\* 45 s for the extractor.
HandlerRuns(x) == WF_vars(Handler(x) /\ ~ Streamed(x))

\* The caller goes on taking data, which nothing makes it do.
CallerReads(x) == WF_vars(Handler(x) /\ Streamed(x))

FairSpec == Spec /\ \A x \in Exchange : HandlerRuns(x)

------------------------------------------------------------------------------
(* Properties *)

\* A success in the history is one: the provider answered 2xx within the size
\* limit, a stream had its completion marker and no error event, and the row
\* counts exactly the bytes received.
SuccessIsTrue ==
    \A x \in Exchange : row[x].status = "succeeded" =>
        /\ trace[x].ok
        /\ ~trace[x].streamError
        /\ trace[x].mode = "stream" => trace[x].streamEnded
        /\ trace[x].chunks <= Limit
        /\ row[x].chunks = trace[x].chunks

\* While the core serves, an open row belongs to a running handler, unless the
\* handler's last write was lost: recovery leaves nothing behind and every way
\* out of a handler closes its row.
OpenIsLive ==
    \A x \in Exchange : phase = "up" /\ row[x].status \in Open =>
        trace[x].place \in Live \/ x \in unsaved

\* What the history calls interrupted by a restart was not left running.
InterruptedIsDead ==
    \A x \in Exchange : row[x].error = "process_restarted" =>
        trace[x].place = "lost" \/ x \in unsaved

\* Clients are attributed only exchanges that were recorded: with the history
\* switched off no attribution row survives its own request.
AttributionIsRecorded == \A x \in attributed : row[x].status # "none"

\* A terminal row never changes again but for its deletion, whichever process
\* or late cleanup comes after; a deleted row never comes back.
CompletionIsFinal ==
    [][\A x \in Exchange :
          /\ row[x].status \in Terminal =>
                 row'[x] = row[x] \/ row'[x].status = "deleted"
          /\ row[x].status = "deleted" => row'[x] = row[x]]_vars

\* It ended in the history or was removed from it, or waits for the next start
\* because its write was lost or the process is down.
Resolved(x) == row[x].status \notin Open \/ x \in unsaved \/ phase = "down"

\* An open exchange settles, or becomes a stream in its caller's hands; and a
\* caller that goes on reading settles it too, whatever the provider does
\* (upstream, bounded_stream).
ExchangeSettles ==
    \A x \in Exchange :
        /\ (phase = "up" /\ row[x].status \in Open) ~> (Resolved(x) \/ Streamed(x))
        /\ CallerReads(x) =>
               ((phase = "up" /\ row[x].status \in Open) ~> Resolved(x))

------------------------------------------------------------------------------
(* The inductive invariant *)

\* How far the row of an exchange may have come, given its trace.
RowInv(x) ==
    /\ trace[x].place = "idle" => row[x] = NoRecord /\ x \notin unsaved
    /\ trace[x].place \in Live =>
           /\ phase = "up"
           /\ row[x].status \notin {"succeeded", "failed"}
           /\ x \notin unsaved
    /\ trace[x].place \in Live \cup {"idle"} => trace[x].chunks <= Limit
    /\ trace[x].place = "done" /\ row[x].status \in Open => x \in unsaved

JournalInv ==
    /\ \A x \in Exchange : RowInv(x)
    /\ SuccessIsTrue
    /\ OpenIsLive
    /\ AttributionIsRecorded
    /\ Leased => InterruptedIsDead

\* Every row fits the trace of its exchange, whatever recovery, pruning, late
\* cleanup and a second core do to it.
JournalSafety == TypeOK /\ JournalInv

------------------------------------------------------------------------------
(* Refinement *)

\* What a row tells a reader of the history.
Told(r) ==
    IF r.status \in Terminal THEN <<r.status, r.error, r.chunks>>
    ELSE IF r.status \in Open THEN <<"open", "none", 0>>
    ELSE <<r.status, "none", 0>>

\* The journal implements the history: whatever handlers, recovery, pruning,
\* clearing and a second core write in whatever order, a record opens with its
\* exchange, is closed when the exchange ends and never again, and does not
\* come back when it was removed (journal_start, journal_finish,
\* journal_prune, journal_recover_interrupted).
History == INSTANCE ExchangeHistory WITH
    record <- [x \in Exchange |-> Told(row[x])],
    running <- {x \in Exchange : trace[x].place \in Live},
    over <- {x \in Exchange : trace[x].place \in {"done", "lost"}},
    Absent <- <<"none", "none", 0>>,
    Begun <- <<"open", "none", 0>>,
    Removed <- <<"deleted", "none", 0>>,
    Outcome <- Terminal \X (ErrorCode \ {"process_restarted"}) \X (0..Limit + 1),
    Interruption <- {"aborted"} \X {"process_restarted"} \X (0..Limit + 1),
    Shared <- ~Leased

ImplementsHistory == History!HistorySpec

==============================================================================
