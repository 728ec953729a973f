---------------------------- MODULE JournalProofs ----------------------------
(***************************************************************************)
(* What TLAPS proves about module Journal, for any number of exchanges,    *)
(* any chunk limit, any retention choices and any clock bound.             *)
(***************************************************************************)
EXTENDS Journal, TLAPS

------------------------------------------------------------------------------
(* What the row operators do to one row *)

\* Finishing a row keeps its type, writes an open row and no other.
LEMMA FinishedRow ==
    ASSUME NEW r \in InteractionRecord,
           NEW status \in Open \cup Terminal,
           NEW error \in ErrorCode,
           NEW chunks \in 0..Limit + 1
    PROVE  /\ Finished(r, status, error, chunks) \in InteractionRecord
           /\ r.status \notin Open => Finished(r, status, error, chunks) = r
           /\ r.status \in Open =>
                  /\ Finished(r, status, error, chunks).status = status
                  /\ Finished(r, status, error, chunks).error = error
                  /\ Finished(r, status, error, chunks).chunks = chunks
BY DEF Finished, InteractionRecord, Open, Terminal

\* Pruning keeps types, and either leaves a row alone or deletes a recorded one.
LEMMA PrunedRow ==
    ASSUME TypeOK, NEW days
    PROVE  /\ Pruned(days) \in [Exchange -> InteractionRecord]
           /\ \A x \in Exchange :
                 \/ Pruned(days)[x] = row[x]
                 \/ /\ Recorded(row[x])
                    /\ Pruned(days)[x] = [row[x] EXCEPT !.status = "deleted"]
BY DEF Pruned, Expired, TypeOK, InteractionRecord

\* Recovering a row keeps its type and settles an open row.
LEMMA InterruptedRow ==
    ASSUME NEW r \in InteractionRecord
    PROVE  /\ Interrupted(r) \in InteractionRecord
           /\ r.status \notin Open => Interrupted(r) = r
           /\ r.status \in Open =>
                  /\ Interrupted(r).status = "aborted"
                  /\ Interrupted(r).error = "process_restarted"
BY DEF Interrupted, Finished, InteractionRecord, Open, Terminal, ErrorCode

------------------------------------------------------------------------------
(* One description of everything a handler's last step can do *)

\* CompleteFrom with a typed trace of a live exchange.
LEMMA CompleteEffect ==
    ASSUME TypeOK,
           NEW x \in Exchange,
           NEW t \in TraceRow,
           NEW status \in Terminal,
           NEW error \in ErrorCode,
           NEW saved \in BOOLEAN,
           CompleteFrom(x, t, status, error, saved)
    PROVE  /\ TypeOK'
           /\ trace'[x] = [t EXCEPT !.place = "done"]
           /\ \A y \in Exchange \ {x} : trace'[y] = trace[y] /\ row'[y] = row[y]
           /\ row[x].status \notin Open => row'[x] = row[x]
           /\ ~saved => row'[x] = row[x] /\ unsaved' = unsaved \cup {x}
           /\ saved => unsaved' = unsaved
           /\ saved /\ row[x].status \in Open =>
                  /\ row'[x].status = IF t.streamError THEN "failed" ELSE status
                  /\ row'[x].error = IF t.streamError THEN "upstream_stream_error"
                                                      ELSE error
                  /\ row'[x].chunks = t.chunks
           /\ UNCHANGED <<attributed, enabled, retention, clock, phase>>
<1> DEFINE st == IF t.streamError THEN "failed" ELSE status
           er == IF t.streamError THEN "upstream_stream_error" ELSE error
           fin == Finished(row[x], st, er, t.chunks)
<1>1. /\ row[x] \in InteractionRecord
      /\ t.chunks \in 0..Limit + 1
      /\ st \in Open \cup Terminal
      /\ er \in ErrorCode
  BY DEF TypeOK, TraceRow, Terminal, ErrorCode
<1>2. /\ fin \in InteractionRecord
      /\ row[x].status \notin Open => fin = row[x]
      /\ row[x].status \in Open =>
             fin.status = st /\ fin.error = er /\ fin.chunks = t.chunks
  <2> HIDE DEF st, er
  <2> QED BY <1>1, FinishedRow
<1>3. row' = IF saved THEN [row EXCEPT ![x] = fin] ELSE row
  BY DEF CompleteFrom
<1>4. row' \in [Exchange -> InteractionRecord]
  BY <1>2, <1>3 DEF TypeOK
<1>5. [t EXCEPT !.place = "done"] \in TraceRow
  BY DEF TraceRow
<1>6. trace' = [trace EXCEPT ![x] = [t EXCEPT !.place = "done"]]
  BY DEF CompleteFrom
<1>7. /\ unsaved' = IF saved THEN unsaved ELSE unsaved \cup {x}
      /\ UNCHANGED <<attributed, enabled, retention, clock, phase>>
  BY DEF CompleteFrom
<1>8. TypeOK'
  BY <1>4, <1>5, <1>6, <1>7 DEF TypeOK
<1>9. /\ trace'[x] = [t EXCEPT !.place = "done"]
      /\ \A y \in Exchange \ {x} : trace'[y] = trace[y] /\ row'[y] = row[y]
  BY <1>3, <1>6 DEF TypeOK
<1>10. /\ saved => row'[x] = fin
       /\ ~saved => row'[x] = row[x]
  BY <1>3 DEF TypeOK
<1> QED BY <1>2, <1>7, <1>8, <1>9, <1>10

------------------------------------------------------------------------------
(* Two ways a handler steps *)

\* The handler stays: its trace moves on, a stream's row may be opened further,
\* attribution rows may be rewritten.
Stays(x) ==
    /\ trace[x].place \in Live
    /\ \E t \in TraceRow :
          /\ t.place \in Live
          /\ t.chunks <= Limit
          /\ trace' = [trace EXCEPT ![x] = t]
    /\ \/ row' = row
       \/ row' = [row EXCEPT ![x] = Finished(row[x], "streaming", "none", 0)]
    /\ \/ attributed' = attributed
       \/ attributed' = {y \in attributed \cup {x} : Recorded(row[y])}
    /\ UNCHANGED <<unsaved, enabled, retention, clock, phase>>

\* A handler never blames a restart.
OwnError == ErrorCode \ {"process_restarted"}

\* The handler ends: it completes its trace, and claims success only for what
\* deserves it.
Ends(x) ==
    /\ trace[x].place \in Live
    /\ \E t \in TraceRow, status \in Terminal, error \in OwnError,
          saved \in BOOLEAN :
          /\ status = "succeeded" => /\ t.ok
                                     /\ t.mode = "stream" => t.streamEnded
                                     /\ t.chunks <= Limit
          /\ CompleteFrom(x, t, status, error, saved)

\* A completion of the trace as it stands.
LEMMA CompletionEnds ==
    ASSUME TypeOK,
           NEW x \in Exchange, trace[x].place \in Live,
           NEW status \in Terminal, NEW error \in OwnError,
           NEW saved \in BOOLEAN,
           status = "succeeded" =>
               /\ trace[x].ok
               /\ trace[x].mode = "stream" => trace[x].streamEnded
               /\ trace[x].chunks <= Limit,
           Complete(x, status, error, saved)
    PROVE  Ends(x)
<1>1. trace[x] \in TraceRow
  BY DEF TypeOK
<1>2. CompleteFrom(x, trace[x], status, error, saved)
  BY DEF Complete
<1> QED BY <1>1, <1>2 DEF Ends

\* Every step of a handler, and a drop, is one or the other.
LEMMA HandlerSteps ==
    ASSUME TypeOK, NEW x \in Exchange, RowInv(x),
           Handler(x) \/ \E saved \in BOOLEAN : Drop(x, saved)
    PROVE  Stays(x) \/ Ends(x)
<1> USE DEF Live
<1>a. trace[x] \in TraceRow
  BY DEF TypeOK
<1>b. /\ "failed" \in Terminal /\ "aborted" \in Terminal /\ "succeeded" \in Terminal
      /\ {"none", "client_disconnected", "upstream_stream_incomplete",
          "provider_http_error", "invalid_response", "response_too_large",
          "transport"} \subseteq OwnError
  BY DEF Terminal, ErrorCode, OwnError
<1>c. trace[x].place \in Live => trace[x].chunks <= Limit
  BY DEF RowInv
<1>1. CASE Attribute(x)
  <2>1. [trace[x] EXCEPT !.place = "awaiting"] \in TraceRow
    BY <1>a DEF TraceRow
  <2>2. trace' = [trace EXCEPT ![x] = [trace[x] EXCEPT !.place = "awaiting"]]
    BY <1>1 DEF Attribute
  <2>3. /\ [trace[x] EXCEPT !.place = "awaiting"].place \in Live
        /\ [trace[x] EXCEPT !.place = "awaiting"].chunks <= Limit
    BY <1>1, <1>a, <1>c DEF Attribute, TraceRow
  <2> QED BY <1>1, <2>1, <2>2, <2>3 DEF Attribute, Stays
<1>2. ASSUME NEW ok \in BOOLEAN, NEW saved \in BOOLEAN, Headers(x, ok, saved)
      PROVE  Stays(x)
  <2> DEFINE t == [trace[x] EXCEPT !.place = "reading", !.ok = ok]
  <2>1. t \in TraceRow /\ t.place \in Live
    BY <1>a DEF TraceRow
  <2>2. t.chunks <= Limit
    BY <1>2, <1>a, <1>c DEF Headers, TraceRow
  <2>3. trace' = [trace EXCEPT ![x] = t]
    BY <1>2 DEF Headers
  <2>4. trace[x].place \in Live
    BY <1>2 DEF Headers
  <2> HIDE DEF t
  <2>5. \/ row' = row
        \/ row' = [row EXCEPT ![x] = Finished(row[x], "streaming", "none", 0)]
    BY <1>2 DEF Headers
  <2> QED BY <1>2, <2>1, <2>2, <2>3, <2>4, <2>5 DEF Headers, Stays
<1>3. ASSUME NEW failing \in BOOLEAN, NEW ended \in BOOLEAN,
             NEW saved \in BOOLEAN, Chunk(x, failing, ended, saved)
      PROVE  Stays(x) \/ Ends(x)
  <2> DEFINE t == [trace[x] EXCEPT !.chunks = @ + 1,
                                   !.streamError = @ \/ failing,
                                   !.streamEnded = @ \/ ended]
  <2>1. trace[x].place = "reading" /\ trace[x].place \in Live
    BY <1>3 DEF Chunk
  <2>2. trace[x].chunks \in Nat /\ trace[x].chunks <= Limit /\ Limit \in Nat
    BY <1>a, <1>c, <2>1, JournalAssumption DEF TraceRow
  <2>3. /\ trace[x].chunks + 1 \in 0..Limit + 1
        /\ (trace[x].streamError \/ failing) \in BOOLEAN
        /\ (trace[x].streamEnded \/ ended) \in BOOLEAN
    BY <2>2
  <2>4. t \in TraceRow /\ t.place = "reading"
    BY <1>a, <2>1, <2>3 DEF TraceRow
  <2>5. t.chunks \in Nat
    BY <1>a, <2>2 DEF TraceRow
  <2>6. CASE t.chunks > Limit
    <3>1. CompleteFrom(x, t, "failed", "response_too_large", saved)
      BY <1>3, <2>6 DEF Chunk
    <3> HIDE DEF t
    <3> QED BY <1>b, <2>1, <2>4, <3>1 DEF Ends
  <2>7. CASE ~(t.chunks > Limit)
    <3>1. /\ trace' = [trace EXCEPT ![x] = t]
          /\ UNCHANGED <<row, attributed, unsaved, enabled, retention, clock, phase>>
      BY <1>3, <2>7 DEF Chunk
    <3>2. t.chunks <= Limit
      BY <2>2, <2>5, <2>7
    <3> HIDE DEF t
    <3> QED BY <2>1, <2>4, <3>1, <3>2 DEF Stays
  <2> QED BY <2>6, <2>7
<1>4. ASSUME NEW saved \in BOOLEAN,
             SendFails(x, saved) \/ Announced(x, saved) \/ Breaks(x, saved)
      PROVE  Ends(x)
  <2>1. /\ trace[x].place \in Live
        /\ \E error \in {"transport", "response_too_large"} :
              Complete(x, "failed", error, saved)
    BY <1>4 DEF SendFails, Announced, Breaks
  <2> QED BY <1>b, <2>1, CompletionEnds
<1>5. ASSUME NEW saved \in BOOLEAN, ProxyEnds(x, saved)
      PROVE  Ends(x)
  <2>1. trace[x].place \in Live /\ trace[x].ok \in BOOLEAN
    BY <1>5, <1>a DEF ProxyEnds, TraceRow
  <2>2. CASE ~trace[x].ok
    BY <1>5, <1>b, <2>1, <2>2, CompletionEnds DEF ProxyEnds, ResponseComplete
  <2>3. CASE trace[x].ok /\ trace[x].mode = "stream" /\ ~trace[x].streamEnded
    BY <1>5, <1>b, <2>1, <2>3, CompletionEnds DEF ProxyEnds, ResponseComplete
  <2>4. CASE trace[x].ok /\ ~(trace[x].mode = "stream" /\ ~trace[x].streamEnded)
    <3>1. Complete(x, "succeeded", "none", saved)
      BY <1>5, <2>4 DEF ProxyEnds, ResponseComplete
    <3> QED BY <1>b, <1>c, <2>1, <2>4, <3>1, CompletionEnds
  <2> QED BY <2>1, <2>2, <2>3, <2>4
<1>6. ASSUME NEW usable \in BOOLEAN, NEW saved \in BOOLEAN,
             AnswerEnds(x, usable, saved)
      PROVE  Ends(x)
  <2>1. trace[x].place \in Live /\ trace[x].mode # "stream"
    BY <1>6 DEF AnswerEnds
  <2>2. CASE ~trace[x].ok
    BY <1>6, <1>b, <2>1, <2>2, CompletionEnds DEF AnswerEnds
  <2>3. CASE trace[x].ok /\ usable
    BY <1>6, <1>b, <1>c, <2>1, <2>3, CompletionEnds DEF AnswerEnds
  <2>4. CASE trace[x].ok /\ ~usable
    BY <1>6, <1>b, <2>1, <2>4, CompletionEnds DEF AnswerEnds
  <2> QED BY <1>a, <2>2, <2>3, <2>4 DEF TraceRow
<1>7. ASSUME NEW saved \in BOOLEAN, Drop(x, saved)
      PROVE  Ends(x)
  BY <1>7, <1>b, CompletionEnds DEF Drop
<1> QED BY <1>1, <1>2, <1>3, <1>4, <1>5, <1>6, <1>7 DEF Handler

------------------------------------------------------------------------------
(* Types *)

LEMMA InitTypes == Init => TypeOK
BY JournalAssumption
DEF Init, TypeOK, NoRecord, InteractionRecord, TraceRow, ErrorCode, Mode

\* A handler that stays keeps the types.
LEMMA StaysTypes == ASSUME TypeOK, NEW x \in Exchange, Stays(x) PROVE TypeOK'
<1>1. trace' \in [Exchange -> TraceRow]
  BY DEF Stays, TypeOK
<1>2. Finished(row[x], "streaming", "none", 0) \in InteractionRecord
  BY FinishedRow, JournalAssumption DEF TypeOK, Open, ErrorCode
<1>3. row' \in [Exchange -> InteractionRecord]
  BY <1>2 DEF Stays, TypeOK
<1>4. attributed' \subseteq Exchange
  BY DEF Stays, TypeOK
<1> QED BY <1>1, <1>3, <1>4 DEF Stays, TypeOK

\* A handler that ends keeps the types.
LEMMA EndsTypes == ASSUME TypeOK, NEW x \in Exchange, Ends(x) PROVE TypeOK'
BY CompleteEffect DEF Ends, OwnError

\* A new exchange keeps the types.
LEMMA StartTypes ==
    ASSUME TypeOK, NEW x \in Exchange, NEW mode \in Modes, Start(x, mode)
    PROVE  TypeOK'
<1> DEFINE place == IF mode = "extractor" THEN "awaiting" ELSE "started"
           t == [trace[x] EXCEPT !.place = place, !.mode = mode]
<1>t. t \in TraceRow
  BY JournalAssumption DEF TypeOK, TraceRow, Live
<1>1. trace' \in [Exchange -> TraceRow]
  BY <1>t DEF Start, TypeOK
<1>2. Pruned(retention) \in [Exchange -> InteractionRecord]
  BY PrunedRow
<1>3. row' \in [Exchange -> InteractionRecord]
  BY <1>2 DEF Start, TypeOK, InteractionRecord, Open
<1> QED BY <1>1, <1>3 DEF Start, TypeOK

\* Settings, readers, clearing and the first step of a start only delete rows.
Removes ==
    /\ row' \in [Exchange -> InteractionRecord]
    /\ \A x \in Exchange :
          \/ row'[x] = row[x]
          \/ /\ Recorded(row[x])
             /\ row'[x] = [row[x] EXCEPT !.status = "deleted"]
    /\ \/ phase' = phase
       \/ phase = "down" /\ phase' = "recovering"
    /\ UNCHANGED <<attributed, trace, unsaved, clock>>

LEMMA RemovalSteps ==
    ASSUME TypeOK,
           \/ \E on \in BOOLEAN, days \in Retentions : PatchSettings(on, days)
           \/ Read
           \/ ClearHistory
           \/ Boot
    PROVE  Removes /\ TypeOK'
<1>1. ASSUME NEW on \in BOOLEAN, NEW days \in Retentions, PatchSettings(on, days)
      PROVE  Removes /\ TypeOK'
  BY <1>1, PrunedRow DEF PatchSettings, Removes, TypeOK
<1>2. CASE Read
  BY <1>2, PrunedRow DEF Read, Removes, TypeOK
<1>3. CASE ClearHistory
  <2>1. row' \in [Exchange -> InteractionRecord]
    BY <1>3 DEF ClearHistory, TypeOK, InteractionRecord
  <2> QED BY <1>3, <2>1 DEF ClearHistory, Removes, TypeOK
<1>4. CASE Boot
  BY <1>4, PrunedRow DEF Boot, Removes, TypeOK
<1> QED BY <1>1, <1>2, <1>3, <1>4

\* Recovery keeps the types.
LEMMA RecoverTypes ==
    ASSUME TypeOK, SecondCore \/ \E x \in Exchange : Recover(x)
    PROVE  TypeOK'
<1>1. CASE SecondCore
  <2>1. \A x \in Exchange : Interrupted(Pruned(retention)[x]) \in InteractionRecord
    BY PrunedRow, InterruptedRow
  <2> QED BY <1>1, <2>1 DEF SecondCore, TypeOK
<1>2. ASSUME NEW x \in Exchange, Recover(x) PROVE TypeOK'
  <2>1. Interrupted(row[x]) \in InteractionRecord
    BY InterruptedRow DEF TypeOK
  <2> QED BY <1>2, <2>1 DEF Recover, TypeOK
<1> QED BY <1>1, <1>2

\* The end of the process keeps the types.
LEMMA CrashTypes == ASSUME TypeOK, Crash PROVE TypeOK'
<1>1. trace' \in [Exchange -> TraceRow]
  BY DEF Crash, TypeOK, TraceRow
<1> QED BY <1>1 DEF Crash, TypeOK

------------------------------------------------------------------------------
(* The inductive invariant *)

Inv == TypeOK /\ JournalInv

LEMMA InitInv == Init => Inv
<1> SUFFICES ASSUME Init PROVE Inv
  OBVIOUS
<1>1. TypeOK
  BY InitTypes
<1>2. \A x \in Exchange : row[x] = NoRecord /\ trace[x].place = "idle"
                            /\ trace[x].chunks = 0
  BY DEF Init
<1>3. ASSUME NEW x \in Exchange PROVE RowInv(x)
  <2>1. trace[x].place = "idle" /\ trace[x].chunks <= Limit
    BY <1>2, JournalAssumption
  <2>2. row[x] = NoRecord /\ x \notin unsaved
    BY <1>2 DEF Init
  <2> QED BY <2>1, <2>2 DEF RowInv, Live
<1>4. SuccessIsTrue /\ OpenIsLive /\ AttributionIsRecorded /\ InterruptedIsDead
  BY <1>2 DEF SuccessIsTrue, OpenIsLive, AttributionIsRecorded,
              InterruptedIsDead, NoRecord, Open, Init
<1> QED BY <1>1, <1>3, <1>4 DEF Inv, JournalInv

\* A handler that stays keeps the invariant: its row is not final, unless a
\* second core made it so.
LEMMA StaysInv ==
    ASSUME Inv, NEW x \in Exchange, Stays(x)
    PROVE  JournalInv'
<1> USE DEF Inv
<1>1. PICK t \in TraceRow : /\ t.place \in Live
                            /\ t.chunks <= Limit
                            /\ trace' = [trace EXCEPT ![x] = t]
  BY DEF Stays
<1>2. /\ trace'[x] = t
      /\ \A y \in Exchange \ {x} : trace'[y] = trace[y]
  BY <1>1 DEF TypeOK
<1> DEFINE fin == Finished(row[x], "streaming", "none", 0)
<1>3. /\ row[x].status \notin Open => fin = row[x]
      /\ row[x].status \in Open => fin.status = "streaming" /\ fin.error = "none"
  BY FinishedRow, JournalAssumption DEF TypeOK, Open, ErrorCode
<1>4. /\ \A y \in Exchange \ {x} : row'[y] = row[y]
      /\ row'[x] = row[x] \/ row'[x] = fin
  BY DEF Stays, TypeOK
<1>5. /\ row'[x] = row[x] \/ /\ row[x].status \in Open
                             /\ row'[x].status = "streaming"
                             /\ row'[x].error = "none"
  <2> HIDE DEF fin
  <2> QED BY <1>3, <1>4
<1>6. /\ RowInv(x) /\ trace[x].place \in Live
      /\ UNCHANGED <<unsaved, phase>>
  BY DEF Stays, JournalInv
<1>7. \A y \in Exchange : RowInv(y)'
  <2>1. RowInv(x)'
    BY <1>1, <1>2, <1>5, <1>6 DEF RowInv, Open, Live
  <2>2. ASSUME NEW y \in Exchange \ {x} PROVE RowInv(y)'
    BY <1>2, <1>4, <1>6 DEF RowInv, JournalInv
  <2> QED BY <2>1, <2>2
<1>8. SuccessIsTrue'
  BY <1>2, <1>4, <1>5, <1>6 DEF SuccessIsTrue, JournalInv, RowInv
<1>9. OpenIsLive'
  BY <1>1, <1>2, <1>4, <1>6 DEF OpenIsLive, JournalInv
<1>10. AttributionIsRecorded'
  <2>1. \A y \in Exchange : row[y].status # "none" => row'[y].status # "none"
    BY <1>4, <1>5
  <2>2. \A y \in attributed' : row[y].status # "none" /\ y \in Exchange
    BY DEF Stays, AttributionIsRecorded, JournalInv, Recorded, Open, Terminal,
           TypeOK
  <2> QED BY <2>1, <2>2 DEF AttributionIsRecorded
<1>11. Leased => InterruptedIsDead'
  <2>1. Leased => row[x].error # "process_restarted"
    BY <1>6 DEF JournalInv, InterruptedIsDead, RowInv, Live
  <2> QED BY <1>2, <1>4, <1>5, <1>6, <2>1 DEF InterruptedIsDead, JournalInv
<1> QED BY <1>7, <1>8, <1>9, <1>10, <1>11 DEF JournalInv

\* A handler that ends keeps the invariant: its row is closed with the outcome
\* of its trace, or remembered as unsaved.
LEMMA EndsInv ==
    ASSUME Inv, NEW x \in Exchange, Ends(x)
    PROVE  JournalInv'
<1> USE DEF Inv
<1>1. PICK t \in TraceRow, status \in Terminal, error \in OwnError,
           saved \in BOOLEAN :
           /\ status = "succeeded" => /\ t.ok
                                      /\ t.mode = "stream" => t.streamEnded
                                      /\ t.chunks <= Limit
           /\ CompleteFrom(x, t, status, error, saved)
  BY DEF Ends
<1>2. /\ trace'[x] = [t EXCEPT !.place = "done"]
      /\ \A y \in Exchange \ {x} : trace'[y] = trace[y] /\ row'[y] = row[y]
      /\ row[x].status \notin Open => row'[x] = row[x]
      /\ ~saved => row'[x] = row[x] /\ unsaved' = unsaved \cup {x}
      /\ saved => unsaved' = unsaved
      /\ saved /\ row[x].status \in Open =>
             /\ row'[x].status = IF t.streamError THEN "failed" ELSE status
             /\ row'[x].error = IF t.streamError THEN "upstream_stream_error"
                                                 ELSE error
             /\ row'[x].chunks = t.chunks
      /\ UNCHANGED <<attributed, enabled, retention, clock, phase>>
  BY <1>1, CompleteEffect DEF OwnError
<1>3. /\ trace'[x].place = "done"
      /\ trace'[x].ok = t.ok
      /\ trace'[x].mode = t.mode
      /\ trace'[x].streamError = t.streamError
      /\ trace'[x].streamEnded = t.streamEnded
      /\ trace'[x].chunks = t.chunks
  BY <1>2 DEF TraceRow
<1>4. RowInv(x) /\ trace[x].place \in Live
  BY DEF Ends, JournalInv
<1>5. saved \/ x \in unsaved'
  BY <1>2
<1>6. \A y \in Exchange : RowInv(y)'
  <2>1. RowInv(x)'
    BY <1>2, <1>3, <1>5 DEF RowInv, Open, Live, Terminal
  <2>2. ASSUME NEW y \in Exchange \ {x} PROVE RowInv(y)'
    BY <1>2 DEF RowInv, JournalInv
  <2> QED BY <2>1, <2>2
<1>7. SuccessIsTrue'
  <2>1. ASSUME row'[x].status = "succeeded"
        PROVE  /\ t.ok
               /\ ~t.streamError
               /\ t.mode = "stream" => t.streamEnded
               /\ t.chunks <= Limit
               /\ row'[x].chunks = t.chunks
    BY <1>1, <1>2, <1>4, <2>1 DEF RowInv
  <2> QED BY <1>2, <1>3, <2>1 DEF SuccessIsTrue, JournalInv
<1>8. OpenIsLive'
  <2>1. saved /\ row[x].status \in Open => row'[x].status \notin Open
    BY <1>2 DEF Open, Terminal
  <2> QED BY <1>2, <1>5, <2>1 DEF OpenIsLive, JournalInv
<1>9. AttributionIsRecorded'
  <2>1. row[x].status # "none" => row'[x].status # "none"
    BY <1>2 DEF Terminal
  <2> QED BY <1>2, <2>1 DEF AttributionIsRecorded, JournalInv, TypeOK
<1>10. Leased => InterruptedIsDead'
  <2>1. ASSUME Leased PROVE row[x].error # "process_restarted"
    BY <1>4, <2>1 DEF JournalInv, InterruptedIsDead, RowInv, Live
  <2>2. ASSUME Leased, saved PROVE row'[x].error # "process_restarted"
    BY <1>2, <2>1, <2>2 DEF OwnError
  <2> QED BY <1>2, <1>5, <2>2 DEF InterruptedIsDead, JournalInv
<1> QED BY <1>6, <1>7, <1>8, <1>9, <1>10 DEF JournalInv

\* A new exchange keeps the invariant.
LEMMA StartInv ==
    ASSUME Inv, NEW x \in Exchange, NEW mode \in Modes, Start(x, mode)
    PROVE  JournalInv'
<1> USE DEF Inv
<1>1. /\ row[x] = NoRecord
      /\ trace[x].chunks <= Limit
      /\ trace[x].place = "idle"
      /\ phase = "up"
      /\ UNCHANGED <<attributed, unsaved, clock, phase>>
  BY DEF Start, JournalInv, RowInv
<1>2. Pruned(retention)[x] = row[x]
  BY <1>1 DEF Pruned, Expired, Recorded, NoRecord, Open, Terminal
<1>3. \A y \in Exchange \ {x} :
         /\ trace'[y] = trace[y]
         /\ \/ row'[y] = row[y]
            \/ /\ Recorded(row[y])
               /\ row'[y] = [row[y] EXCEPT !.status = "deleted"]
  BY PrunedRow DEF Start, TypeOK
<1>4. /\ trace'[x].place \in {"awaiting", "started"}
      /\ trace'[x].chunks = trace[x].chunks
  BY DEF Start, TypeOK, TraceRow
<1>5. /\ row'[x].status \in {"none", "pending"}
      /\ row'[x].error = "none"
  BY <1>1, <1>2, PrunedRow DEF Start, NoRecord
<1>6. \A y \in Exchange \ {x} :
         /\ row'[y].status \in {row[y].status, "deleted"}
         /\ row[y].status = "none" => row'[y].status = "none"
         /\ row'[y].error = row[y].error
         /\ row'[y].chunks = row[y].chunks
         /\ trace[y].place = "idle" => row'[y] = row[y]
  <2> TAKE y \in Exchange \ {x}
  <2>1. row[y] \in InteractionRecord
    BY DEF TypeOK
  <2>2. trace[y].place = "idle" => ~Recorded(row[y])
    BY DEF JournalInv, RowInv, NoRecord, Recorded, Open, Terminal
  <2> QED BY <1>3, <2>1, <2>2 DEF InteractionRecord, Recorded, Open, Terminal
<1>7. RowInv(x) /\ \A y \in Exchange : RowInv(y)
  BY DEF JournalInv
<1>8. ASSUME NEW y \in Exchange PROVE RowInv(y)'
  <2>1. CASE y = x
    BY <1>1, <1>4, <1>5, <1>7, <2>1 DEF RowInv, Live
  <2>2. CASE y # x
    <3>1. trace'[y] = trace[y] /\ unsaved' = unsaved /\ phase' = phase
      BY <1>1, <1>3, <2>2
    <3>2. /\ row'[y].status \in {row[y].status, "deleted"}
          /\ trace[y].place = "idle" => row'[y] = row[y]
      BY <1>6, <2>2
    <3> QED BY <1>7, <3>1, <3>2 DEF RowInv, Open
  <2> QED BY <2>1, <2>2
<1>9. SuccessIsTrue'
  BY <1>3, <1>5, <1>6 DEF SuccessIsTrue, JournalInv
<1>10. OpenIsLive'
  BY <1>1, <1>3, <1>4, <1>6 DEF OpenIsLive, JournalInv, Open, Live
<1>11. AttributionIsRecorded'
  BY <1>1, <1>6 DEF AttributionIsRecorded, JournalInv, TypeOK, NoRecord
<1>12. Leased => InterruptedIsDead'
  BY <1>1, <1>3, <1>5, <1>6 DEF InterruptedIsDead, JournalInv
<1> QED BY <1>8, <1>9, <1>10, <1>11, <1>12 DEF JournalInv

\* Deleting rows keeps the invariant.
LEMMA RemovalInv ==
    ASSUME Inv, Removes
    PROVE  JournalInv'
<1> USE DEF Inv
<1>1. ASSUME NEW y \in Exchange
      PROVE  /\ row'[y].status \in {row[y].status, "deleted"}
             /\ row[y].status = "none" => row'[y].status = "none"
             /\ row'[y].error = row[y].error
             /\ row'[y].chunks = row[y].chunks
             /\ trace[y].place = "idle" => row'[y] = row[y]
  <2>1. row[y] \in InteractionRecord
    BY DEF TypeOK
  <2>2. trace[y].place = "idle" => ~Recorded(row[y])
    BY DEF JournalInv, RowInv, NoRecord, Recorded, Open, Terminal
  <2> QED BY <2>1, <2>2 DEF Removes, InteractionRecord, Recorded, Open, Terminal
<1>2. /\ UNCHANGED <<attributed, trace, unsaved>>
      /\ \/ phase' = phase
         \/ phase = "down" /\ phase' = "recovering"
  BY DEF Removes
<1>3. ASSUME NEW y \in Exchange PROVE RowInv(y)'
  <2>1. RowInv(y)
    BY DEF JournalInv
  <2> QED BY <1>1, <1>2, <2>1 DEF RowInv, Open
<1>4. SuccessIsTrue'
  BY <1>1, <1>2 DEF SuccessIsTrue, JournalInv
<1>5. OpenIsLive'
  BY <1>1, <1>2 DEF OpenIsLive, JournalInv, Open
<1>6. AttributionIsRecorded'
  BY <1>1, <1>2 DEF AttributionIsRecorded, JournalInv, TypeOK
<1>7. Leased => InterruptedIsDead'
  BY <1>1, <1>2 DEF InterruptedIsDead, JournalInv
<1> QED BY <1>3, <1>4, <1>5, <1>6, <1>7 DEF JournalInv

\* Recovery, by this core or by a second one, keeps the invariant: an open row
\* of a dead handler is lost or unsaved, and only without the lease can the
\* handler still run.
LEMMA RecoverInv ==
    ASSUME Inv, SecondCore \/ \E x \in Exchange : Recover(x)
    PROVE  JournalInv'
<1> USE DEF Inv
<1>1. UNCHANGED <<attributed, trace, unsaved, phase>>
  BY DEF SecondCore, Recover
<1>2. ASSUME NEW y \in Exchange
      PROVE  \/ row'[y] = row[y]
             \/ /\ Recorded(row[y])
                /\ row'[y].status = "deleted"
                /\ row'[y].error = row[y].error
             \/ /\ row[y].status \in Open
                /\ row'[y].status = "aborted"
                /\ row'[y].error = "process_restarted"
                /\ ~Leased \/ phase = "recovering"
  <2>1. row[y] \in InteractionRecord
    BY DEF TypeOK
  <2>2. CASE SecondCore
    <3> DEFINE p == Pruned(retention)[y]
    <3>1. p \in InteractionRecord
      BY PrunedRow
    <3>2. p = row[y] \/ /\ Recorded(row[y])
                        /\ p = [row[y] EXCEPT !.status = "deleted"]
      BY PrunedRow
    <3>3. row'[y] = Interrupted(p) /\ ~Leased
      BY <2>2 DEF SecondCore
    <3> HIDE DEF p
    <3>4. /\ p.status \notin Open => row'[y] = p
          /\ p.status \in Open => /\ row'[y].status = "aborted"
                                  /\ row'[y].error = "process_restarted"
      BY <3>1, <3>3, InterruptedRow
    <3>5. CASE p = row[y]
      BY <3>3, <3>4, <3>5
    <3>6. CASE Recorded(row[y]) /\ p = [row[y] EXCEPT !.status = "deleted"]
      <4>1. p.status = "deleted" /\ p.error = row[y].error
        BY <2>1, <3>6 DEF InteractionRecord
      <4> QED BY <3>4, <3>6, <4>1 DEF Open
    <3> QED BY <3>2, <3>5, <3>6
  <2>3. CASE \E x \in Exchange : Recover(x)
    <3>1. PICK x \in Exchange : Recover(x)
      BY <2>3
    <3>2. y # x => row'[y] = row[y]
      BY <3>1 DEF Recover, TypeOK
    <3>3. y = x => row'[y] = Interrupted(row[y]) /\ row[y].status \in Open
      BY <3>1 DEF Recover, TypeOK
    <3>4. phase = "recovering"
      BY <3>1 DEF Recover
    <3> QED BY <2>1, <3>2, <3>3, <3>4, InterruptedRow
  <2> QED BY <2>2, <2>3
<1>3. ASSUME NEW y \in Exchange PROVE RowInv(y)'
  <2>1. RowInv(y)
    BY DEF JournalInv
  <2>2. trace[y].place = "idle" => row'[y] = row[y]
    BY <1>2, <2>1 DEF RowInv, NoRecord, Recorded, Open, Terminal
  <2>3. /\ row'[y].status \in Open => row[y].status \in Open
        /\ row'[y].status \in {"succeeded", "failed"} => row'[y] = row[y]
    BY <1>2 DEF Open
  <2> QED BY <1>1, <2>1, <2>2, <2>3 DEF RowInv
<1>4. SuccessIsTrue'
  <2>1. \A y \in Exchange : row'[y].status = "succeeded" => row'[y] = row[y]
    BY <1>2
  <2> QED BY <1>1, <2>1 DEF SuccessIsTrue, JournalInv
<1>5. OpenIsLive'
  <2>1. \A y \in Exchange : row'[y].status \in Open => row'[y] = row[y]
    BY <1>2 DEF Open
  <2> QED BY <1>1, <2>1 DEF OpenIsLive, JournalInv
<1>6. AttributionIsRecorded'
  <2>1. \A y \in Exchange : row[y].status # "none" => row'[y].status # "none"
    BY <1>2
  <2> QED BY <1>1, <2>1 DEF AttributionIsRecorded, JournalInv, TypeOK
<1>7. Leased => InterruptedIsDead'
  <2> SUFFICES ASSUME Leased, NEW y \in Exchange,
                      row'[y].error = "process_restarted"
               PROVE  trace[y].place = "lost" \/ y \in unsaved
    BY <1>1 DEF InterruptedIsDead
  <2>1. CASE row[y].error = "process_restarted"
    BY <2>1 DEF InterruptedIsDead, JournalInv
  <2>2. CASE row[y].status \in Open /\ phase = "recovering"
    <3>1. RowInv(y) /\ trace[y] \in TraceRow
      BY DEF JournalInv, TypeOK
    <3>2. trace[y].place \notin Live /\ trace[y].place # "idle"
      BY <2>2, <3>1 DEF RowInv, NoRecord, Open
    <3> QED BY <2>2, <3>1, <3>2 DEF RowInv, TraceRow
  <2> QED BY <1>2, <2>1, <2>2
<1> QED BY <1>3, <1>4, <1>5, <1>6, <1>7 DEF JournalInv

\* The end of the process keeps the invariant: its handlers are lost.
LEMMA CrashInv == ASSUME Inv, Crash PROVE JournalInv'
<1> USE DEF Inv
<1>1. UNCHANGED <<row, attributed, unsaved>> /\ phase' = "down"
  BY DEF Crash
<1>2. ASSUME NEW y \in Exchange
      PROVE  /\ trace'[y].place = IF trace[y].place \in Live THEN "lost"
                                                            ELSE trace[y].place
             /\ trace'[y].ok = trace[y].ok
             /\ trace'[y].mode = trace[y].mode
             /\ trace'[y].streamError = trace[y].streamError
             /\ trace'[y].streamEnded = trace[y].streamEnded
             /\ trace'[y].chunks = trace[y].chunks
  <2>1. trace[y] \in TraceRow
    BY DEF TypeOK
  <2> QED BY <2>1 DEF Crash, TraceRow
<1>3. ASSUME NEW y \in Exchange PROVE RowInv(y)'
  <2>1. RowInv(y)
    BY DEF JournalInv
  <2> QED BY <1>1, <1>2, <2>1 DEF RowInv, Live
<1>4. SuccessIsTrue'
  BY <1>1, <1>2 DEF SuccessIsTrue, JournalInv
<1>5. OpenIsLive'
  BY <1>1 DEF OpenIsLive
<1>6. AttributionIsRecorded'
  BY <1>1 DEF AttributionIsRecorded, JournalInv
<1>7. Leased => InterruptedIsDead'
  BY <1>1, <1>2 DEF InterruptedIsDead, JournalInv, Live
<1> QED BY <1>3, <1>4, <1>5, <1>6, <1>7 DEF JournalInv

\* The core serves once recovery has left no open row.
LEMMA ReadyInv == ASSUME Inv, Ready PROVE JournalInv'
<1> USE DEF Inv
<1>1. /\ UNCHANGED <<row, attributed, trace, unsaved>>
      /\ phase' = "up" /\ phase = "recovering"
      /\ \A x \in Exchange : row[x].status \notin Open
  BY DEF Ready
<1>2. ASSUME NEW y \in Exchange PROVE RowInv(y)'
  <2>1. RowInv(y)
    BY DEF JournalInv
  <2> QED BY <1>1, <2>1 DEF RowInv
<1> QED BY <1>1, <1>2 DEF JournalInv, SuccessIsTrue, OpenIsLive,
                          AttributionIsRecorded, InterruptedIsDead

\* Every step keeps types and invariant.
LEMMA NextInv == Inv /\ [Next]_vars => Inv'
<1> SUFFICES ASSUME Inv, [Next]_vars PROVE Inv'
  OBVIOUS
<1>0. TypeOK /\ JournalInv
  BY DEF Inv
<1>1. ASSUME NEW x \in Exchange, NEW mode \in Modes, Start(x, mode) PROVE Inv'
  BY <1>0, <1>1, StartTypes, StartInv DEF Inv
<1>2. ASSUME NEW x \in Exchange,
             Handler(x) \/ \E saved \in BOOLEAN : Drop(x, saved)
      PROVE  Inv'
  <2>1. RowInv(x)
    BY <1>0 DEF JournalInv
  <2>2. Stays(x) \/ Ends(x)
    BY <1>0, <1>2, <2>1, HandlerSteps
  <2> QED BY <1>0, <2>2, StaysTypes, StaysInv, EndsTypes, EndsInv DEF Inv
<1>3. CASE SecondCore \/ \E x \in Exchange : Recover(x)
  BY <1>0, <1>3, RecoverTypes, RecoverInv DEF Inv
<1>4. CASE \/ \E on \in BOOLEAN, days \in Retentions : PatchSettings(on, days)
           \/ Read
           \/ ClearHistory
           \/ Boot
  BY <1>0, <1>4, RemovalSteps, RemovalInv DEF Inv
<1>5. CASE Tick
  <2>1. TypeOK'
    BY <1>0, <1>5, JournalAssumption DEF Tick, TypeOK, InteractionRecord
  <2>2. UNCHANGED <<row, attributed, trace, unsaved, phase>>
    BY <1>5 DEF Tick
  <2>3. JournalInv'
    BY <1>0, <2>2 DEF JournalInv, RowInv, SuccessIsTrue, OpenIsLive,
                      AttributionIsRecorded, InterruptedIsDead
  <2> QED BY <2>1, <2>3 DEF Inv
<1>6. CASE Ready
  <2>1. TypeOK'
    BY <1>0, <1>6 DEF Ready, TypeOK
  <2> QED BY <1>0, <1>6, <2>1, ReadyInv DEF Inv
<1>7. CASE Crash
  BY <1>0, <1>7, CrashTypes, CrashInv DEF Inv
<1>8. CASE UNCHANGED vars
  <2>1. UNCHANGED <<row, attributed, trace, unsaved, enabled, retention, clock,
                    phase>>
    BY <1>8 DEF vars
  <2> QED BY <1>0, <2>1 DEF Inv, TypeOK, JournalInv, RowInv, SuccessIsTrue,
                            OpenIsLive, AttributionIsRecorded, InterruptedIsDead
<1> QED BY <1>1, <1>2, <1>3, <1>4, <1>5, <1>6, <1>7, <1>8 DEF Next

LEMMA InvHolds == Spec => []Inv
BY InitInv, NextInv, PTL DEF Spec

------------------------------------------------------------------------------
(* Theorems *)

\* Journal rows, traces and settings are always well typed.
THEOREM JournalTypes == Spec => []TypeOK
<1>1. Inv => TypeOK
  BY DEF Inv
<1> QED BY <1>1, InvHolds, PTL

\* The inductive invariant that the results below rest on.
THEOREM JournalInvariant == Spec => []JournalInv
<1>1. Inv => JournalInv
  BY DEF Inv
<1> QED BY <1>1, InvHolds, PTL

\* Every row fits the trace of its exchange.
THEOREM JournalIsSafe == Spec => []JournalSafety
<1>1. Inv => JournalSafety
  BY DEF Inv, JournalSafety
<1> QED BY <1>1, InvHolds, PTL

\* A success in the history was one, with or without the runtime lease.
THEOREM SuccessesAreTrue == Spec => []SuccessIsTrue
<1>1. Inv => SuccessIsTrue
  BY DEF Inv, JournalInv
<1> QED BY <1>1, InvHolds, PTL

\* A serving core owns every open row, but for lost writes.
THEOREM OpenRowsAreLive == Spec => []OpenIsLive
<1>1. Inv => OpenIsLive
  BY DEF Inv, JournalInv
<1> QED BY <1>1, InvHolds, PTL

\* Attribution rows only name recorded exchanges.
THEOREM AttributionsAreRecorded == Spec => []AttributionIsRecorded
<1>1. Inv => AttributionIsRecorded
  BY DEF Inv, JournalInv
<1> QED BY <1>1, InvHolds, PTL

\* Under the runtime lease, whatever history calls interrupted by a restart
\* was: its handler died, or its last write was lost.
THEOREM InterruptionsAreReal == ASSUME Leased PROVE Spec => []InterruptedIsDead
<1>1. Inv => InterruptedIsDead
  BY Leased DEF Inv, JournalInv
<1> QED BY <1>1, InvHolds, PTL

------------------------------------------------------------------------------
(* Completion is final *)

\* A closed row stays as it is or is deleted.
Settled(x) ==
    /\ row[x].status \in Terminal =>
           row'[x] = row[x] \/ row'[x].status = "deleted"
    /\ row[x].status = "deleted" => row'[x] = row[x]

\* A handler that ends writes no row but its own, and that only if it is open.
LEMMA EndsRows ==
    ASSUME TypeOK, NEW x \in Exchange, Ends(x)
    PROVE  \A y \in Exchange : row[y].status \in Open \/ row'[y] = row[y]
<1>1. PICK t \in TraceRow, status \in Terminal, error \in ErrorCode,
           saved \in BOOLEAN : CompleteFrom(x, t, status, error, saved)
  BY DEF Ends, OwnError
<1>2. \/ row' = row
      \/ \E st, er, ch : row' = [row EXCEPT ![x] = Finished(row[x], st, er, ch)]
  BY <1>1 DEF CompleteFrom
<1>3. row[x].status \notin Open =>
          \A st, er, ch : Finished(row[x], st, er, ch) = row[x]
  BY DEF Finished
<1> QED BY <1>2, <1>3 DEF TypeOK

LEMMA StepSettled ==
    ASSUME Inv, [Next]_vars, NEW y \in Exchange
    PROVE  Settled(y)
<1> USE DEF Inv
<1> DEFINE Removed == /\ Recorded(row[y])
                      /\ row'[y] = [row[y] EXCEPT !.status = "deleted"]
<1>0. row[y] \in InteractionRecord
  BY DEF TypeOK
<1>a. row'[y] = row[y] => Settled(y)
  BY DEF Settled
<1>b. row[y].status \in Open \cup {"none"} => Settled(y)
  BY DEF Settled, Open, Terminal
<1>c. Removed => Settled(y)
  BY <1>0 DEF Settled, InteractionRecord, Recorded, Open, Terminal
<1>1. ASSUME NEW x \in Exchange, NEW mode \in Modes, Start(x, mode)
      PROVE  Settled(y)
  <2>1. CASE y = x
    <3>1. row[y] = NoRecord
      BY <1>1, <2>1 DEF Start, JournalInv, RowInv
    <3> QED BY <1>b, <3>1 DEF NoRecord
  <2>2. CASE y # x
    <3>1. row'[y] = row[y] \/ Removed
      BY <1>1, <2>2, PrunedRow DEF Start
    <3> QED BY <1>a, <1>c, <3>1
  <2> QED BY <2>1, <2>2
<1>2. ASSUME NEW x \in Exchange,
             Handler(x) \/ \E saved \in BOOLEAN : Drop(x, saved)
      PROVE  Settled(y)
  <2>1. Stays(x) \/ Ends(x)
    <3>1. RowInv(x)
      BY DEF JournalInv
    <3> QED BY <1>2, <3>1, HandlerSteps
  <2>2. row[y].status \in Open \/ row'[y] = row[y]
    <3>1. CASE Stays(x)
      <4>1. /\ y # x => row'[y] = row[y]
            /\ row'[x] = row[x] \/ row'[x] = Finished(row[x], "streaming", "none", 0)
        BY <3>1 DEF Stays, TypeOK
      <4>2. row[x].status \notin Open =>
                Finished(row[x], "streaming", "none", 0) = row[x]
        BY DEF Finished
      <4> QED BY <4>1, <4>2
    <3>2. CASE Ends(x)
      BY <3>2, EndsRows
    <3> QED BY <2>1, <3>1, <3>2
  <2> QED BY <1>a, <1>b, <2>2
<1>3. CASE SecondCore
  <2> DEFINE p == Pruned(retention)[y]
  <2>1. p \in InteractionRecord
    BY PrunedRow
  <2>2. p = row[y] \/ /\ Recorded(row[y])
                      /\ p = [row[y] EXCEPT !.status = "deleted"]
    BY PrunedRow
  <2>3. row'[y] = Interrupted(p)
    BY <1>3 DEF SecondCore
  <2> HIDE DEF p
  <2>4. p.status \notin Open => row'[y] = p
    BY <2>1, <2>3, InterruptedRow
  <2>5. CASE p = row[y]
    BY <1>a, <1>b, <2>4, <2>5
  <2>6. CASE Recorded(row[y]) /\ p = [row[y] EXCEPT !.status = "deleted"]
    <3>1. p.status \notin Open
      BY <1>0, <2>6 DEF InteractionRecord, Open
    <3> QED BY <1>c, <2>4, <2>6, <3>1
  <2> QED BY <2>2, <2>5, <2>6
<1>4. ASSUME NEW x \in Exchange, Recover(x) PROVE Settled(y)
  <2>1. y # x => row'[y] = row[y]
    BY <1>4 DEF Recover, TypeOK
  <2>2. y = x => row[y].status \in Open
    BY <1>4 DEF Recover
  <2> QED BY <1>a, <1>b, <2>1, <2>2
<1>5. CASE \/ \E on \in BOOLEAN, days \in Retentions : PatchSettings(on, days)
           \/ Read
           \/ ClearHistory
           \/ Boot
  <2>1. row'[y] = row[y] \/ Removed
    BY <1>5, RemovalSteps DEF Removes
  <2> QED BY <1>a, <1>c, <2>1
<1>6. CASE Tick \/ Ready \/ Crash \/ UNCHANGED vars
  BY <1>6, <1>a DEF Tick, Ready, Crash, vars
<1> QED BY <1>1, <1>2, <1>3, <1>4, <1>5, <1>6 DEF Next

\* A terminal row only ever changes by being deleted, and a deleted row never
\* comes back, whichever process or late cleanup writes.
THEOREM CompletionsAreFinal == Spec => CompletionIsFinal
<1>1. Inv /\ [Next]_vars =>
          [\A x \in Exchange :
              /\ row[x].status \in Terminal =>
                     row'[x] = row[x] \/ row'[x].status = "deleted"
              /\ row[x].status = "deleted" => row'[x] = row[x]]_vars
  BY StepSettled DEF Settled
<1> QED BY <1>1, InvHolds, PTL DEF Spec, CompletionIsFinal

------------------------------------------------------------------------------
(* The journal implements the history *)

Absent == <<"none", "none", 0>>
Begun == <<"open", "none", 0>>
Gone == <<"deleted", "none", 0>>
Ended == Terminal \X OwnError \X (0..Limit + 1)
Cut == {"aborted"} \X {"process_restarted"} \X (0..Limit + 1)

\* What a row says, by its status.
LEMMA ToldRow ==
    ASSUME NEW r \in InteractionRecord
    PROVE  /\ r.status = "none" => Told(r) = Absent
           /\ r.status \in Open => Told(r) = Begun
           /\ r.status = "deleted" => Told(r) = Gone
           /\ r.status \in Terminal => Told(r) = <<r.status, r.error, r.chunks>>
           /\ Recorded(r) => Told(r) # Absent
<1>1. r.status = "none" => Told(r) = Absent
  BY DEF Told, Absent, Open, Terminal
<1>2. r.status \in Open => Told(r) = Begun
  BY DEF Told, Begun, Open, Terminal
<1>3. r.status = "deleted" => Told(r) = Gone
  BY DEF Told, Gone, Open, Terminal
<1>4. r.status \in Terminal => Told(r) = <<r.status, r.error, r.chunks>>
  BY DEF Told
<1>5. Begun # Absent
  BY DEF Begun, Absent
<1>6. r.status \in Terminal => <<r.status, r.error, r.chunks>> # Absent
  BY DEF Terminal, Absent
<1> QED BY <1>1, <1>2, <1>3, <1>4, <1>5, <1>6 DEF Recorded

\* A row that is deleted, and one that recovery closes.
LEMMA ToldDeleted ==
    ASSUME NEW r \in InteractionRecord, Recorded(r)
    PROVE  Told(r) # Absent /\ Told([r EXCEPT !.status = "deleted"]) = Gone
<1>1. [r EXCEPT !.status = "deleted"] \in InteractionRecord
  BY DEF InteractionRecord
<1>2. [r EXCEPT !.status = "deleted"].status = "deleted"
  BY DEF InteractionRecord
<1> QED BY <1>1, <1>2, ToldRow

LEMMA ToldInterrupted ==
    ASSUME NEW r \in InteractionRecord
    PROVE  \/ Told(Interrupted(r)) = Told(r)
           \/ Told(r) = Begun /\ Told(Interrupted(r)) \in Cut
<1> DEFINE i == Interrupted(r)
<1>1. /\ i \in InteractionRecord
      /\ r.status \notin Open => i = r
      /\ r.status \in Open => i.status = "aborted" /\ i.error = "process_restarted"
  BY InterruptedRow
<1> HIDE DEF i
<1>2. CASE r.status \in Open
  <2>1. Told(r) = Begun
    BY <1>2, ToldRow
  <2>2. Told(i) = <<"aborted", "process_restarted", i.chunks>>
    BY <1>1, <1>2, ToldRow DEF Terminal
  <2>3. i.chunks \in 0..Limit + 1
    BY <1>1 DEF InteractionRecord
  <2> QED BY <2>1, <2>2, <2>3 DEF Cut, i
<1> QED BY <1>1, <1>2 DEF i

\* What may happen to one record while no exchange begins or ends.
Tidied(y) ==
    \/ Told(row'[y]) = Told(row[y])
    \/ Told(row[y]) # Absent /\ Told(row'[y]) = Gone
    \/ /\ Told(row[y]) = Begun
       /\ trace[y].place \in Live => ~Leased
       /\ Told(row'[y]) \in Cut

LEMMA TidyStep ==
    ASSUME \A y \in Exchange : Tidied(y),
           \A y \in Exchange : /\ trace'[y].place \in Live <=> trace[y].place \in Live
                               /\ trace'[y].place \in {"done", "lost"}
                                     <=> trace[y].place \in {"done", "lost"}
    PROVE  History!Tidy
BY DEF History!Tidy, History!Same, History!Remove, History!Interrupt, Tidied,
       Absent, Begun, Gone, Cut

LEMMA BeginStep ==
    ASSUME Inv, NEW x \in Exchange, NEW mode \in Modes, Start(x, mode)
    PROVE  History!Begin(x)
<1>0. TypeOK /\ RowInv(x) /\ trace[x].place = "idle" /\ row[x] = NoRecord
  BY DEF Inv, JournalInv, Start, RowInv
<1>1. /\ trace[x].place \notin Live /\ trace[x].place \notin {"done", "lost"}
      /\ trace'[x].place \in Live
      /\ \A y \in Exchange \ {x} : trace'[y] = trace[y]
  BY <1>0 DEF Start, TypeOK, TraceRow, Live
<1>2. Told(row[x]) = Absent /\ Told(row'[x]) \in {Absent, Begun}
  <2> DEFINE p == Pruned(retention)
  <2>1. p[x] = row[x] /\ p \in [Exchange -> InteractionRecord]
    <3>1. ~Recorded(row[x])
      BY <1>0 DEF Recorded, NoRecord, Open, Terminal
    <3> QED BY <1>0, <3>1, PrunedRow
  <2>2. row' = [p EXCEPT ![x] = IF enabled
                                THEN [@ EXCEPT !.status = "pending", !.started = clock]
                                ELSE @]
    BY DEF Start
  <2> HIDE DEF p
  <2>3. row'[x] = row[x] \/ row'[x].status = "pending"
    BY <2>1, <2>2 DEF InteractionRecord
  <2>4. row[x] \in InteractionRecord
    BY <1>0 DEF TypeOK
  <2>5. row'[x].status = "pending" => Told(row'[x]) = Begun
    BY DEF Told, Open, Terminal, Begun
  <2>6. Told(row[x]) = Absent
    BY <1>0, <2>4, ToldRow DEF NoRecord
  <2> QED BY <2>3, <2>5, <2>6
<1>3. ASSUME NEW y \in Exchange \ {x}
      PROVE  \/ Told(row'[y]) = Told(row[y])
             \/ Told(row[y]) # Absent /\ Told(row'[y]) = Gone
  <2> DEFINE p == Pruned(retention)
  <2>1. /\ p \in [Exchange -> InteractionRecord]
        /\ \/ p[y] = row[y]
           \/ Recorded(row[y]) /\ p[y] = [row[y] EXCEPT !.status = "deleted"]
    BY <1>0, PrunedRow
  <2>2. row'[y] = p[y]
    BY <2>1 DEF Start
  <2>3. row[y] \in InteractionRecord
    BY <1>0 DEF TypeOK
  <2> HIDE DEF p
  <2> QED BY <2>1, <2>2, <2>3, ToldDeleted
<1> DEFINE live == {y \in Exchange : trace[y].place \in Live}
           past == {y \in Exchange : trace[y].place \in {"done", "lost"}}
           rec == [y \in Exchange |-> Told(row[y])]
<1>4. x \notin live \cup past /\ live' = live \cup {x} /\ past' = past
  BY <1>1 DEF Live
<1>5. /\ rec[x] = Absent /\ rec'[x] \in {Absent, Begun}
      /\ \A y \in Exchange \ {x} :
            rec'[y] = rec[y] \/ (rec[y] # Absent /\ rec'[y] = Gone)
  BY <1>2, <1>3
<1> QED BY <1>4, <1>5
        DEF History!Begin, History!Same, History!Remove, Absent, Begun, Gone

LEMMA EndStep ==
    ASSUME Inv, NEW x \in Exchange, Ends(x)
    PROVE  History!End(x)
<1>0. TypeOK /\ trace[x].place \in Live
  BY DEF Inv, Ends
<1>1. PICK t \in TraceRow, status \in Terminal, error \in OwnError, saved \in BOOLEAN :
           CompleteFrom(x, t, status, error, saved)
  BY DEF Ends
<1>2. error \in ErrorCode /\ error # "process_restarted"
  BY DEF OwnError
<1>3. /\ TypeOK'
      /\ trace'[x].place = "done"
      /\ \A y \in Exchange \ {x} : trace'[y] = trace[y] /\ row'[y] = row[y]
      /\ \/ row'[x] = row[x]
         \/ /\ row[x].status \in Open /\ row'[x].status \in Terminal
            /\ row'[x].error \in OwnError /\ row'[x].chunks = t.chunks
  <2>1. [t EXCEPT !.place = "done"].place = "done"
    BY DEF TraceRow
  <2>2. "failed" \in Terminal /\ "upstream_stream_error" \in OwnError
    BY DEF Terminal, OwnError, ErrorCode
  <2>3. /\ TypeOK'
        /\ trace'[x] = [t EXCEPT !.place = "done"]
        /\ \A y \in Exchange \ {x} : trace'[y] = trace[y] /\ row'[y] = row[y]
        /\ row[x].status \notin Open => row'[x] = row[x]
        /\ ~saved => row'[x] = row[x]
        /\ saved /\ row[x].status \in Open =>
              /\ row'[x].status = IF t.streamError THEN "failed" ELSE status
              /\ row'[x].error = IF t.streamError THEN "upstream_stream_error" ELSE error
              /\ row'[x].chunks = t.chunks
    BY <1>0, <1>1, <1>2, CompleteEffect
  <2>4. saved /\ row[x].status \in Open =>
            /\ row'[x].status \in Terminal /\ row'[x].error \in OwnError
            /\ row'[x].chunks = t.chunks
    BY <2>2, <2>3
  <2> QED BY <2>1, <2>3, <2>4
<1>4. row[x] \in InteractionRecord /\ row'[x] \in InteractionRecord
  BY <1>0, <1>3 DEF TypeOK
<1>5. \/ Told(row'[x]) = Told(row[x])
      \/ Told(row[x]) = Begun /\ Told(row'[x]) \in Ended
  <2>1. CASE row'[x] = row[x]
    BY <2>1
  <2>2. CASE row[x].status \in Open /\ row'[x].status \in Terminal
             /\ row'[x].error \in OwnError /\ row'[x].chunks = t.chunks
    <3>1. Told(row[x]) = Begun
      BY <1>4, <2>2, ToldRow
    <3>2. Told(row'[x]) = <<row'[x].status, row'[x].error, row'[x].chunks>>
      BY <1>4, <2>2, ToldRow
    <3>3. row'[x].chunks \in 0..Limit + 1
      BY <1>4 DEF InteractionRecord
    <3> QED BY <2>2, <3>1, <3>2, <3>3 DEF Ended
  <2> QED BY <1>3, <2>1, <2>2
<1> DEFINE rec == [y \in Exchange |-> Told(row[y])]
<1>6. \/ rec' = rec
      \/ /\ rec[x] = Begun
         /\ rec'[x] \in Ended
         /\ rec' = [rec EXCEPT ![x] = rec'[x]]
  BY <1>3, <1>5
<1>7. /\ {y \in Exchange : trace'[y].place \in Live}
           = {y \in Exchange : trace[y].place \in Live} \ {x}
      /\ {y \in Exchange : trace'[y].place \in {"done", "lost"}}
           = {y \in Exchange : trace[y].place \in {"done", "lost"}} \cup {x}
      /\ x \in {y \in Exchange : trace[y].place \in Live}
  BY <1>0, <1>3 DEF Live
<1> QED BY <1>6, <1>7 DEF History!End, History!Close, Begun, Ended, OwnError

LEMMA DieStep ==
    ASSUME Inv, Crash
    PROVE  History!Die
<1>1. /\ row' = row
      /\ \A y \in Exchange :
           /\ trace[y].place \in Live => trace'[y].place = "lost"
           /\ trace[y].place \notin Live => trace'[y] = trace[y]
  BY DEF Crash, Inv, TypeOK, TraceRow
<1> QED BY <1>1 DEF History!Die, Live

\* Every step of the journal is a step of the history, or none.
LEMMA HistoryStep ==
    ASSUME Inv, Next
    PROVE  History!HistoryNext
<1>0. TypeOK /\ JournalInv
  BY DEF Inv
<1>a. \A y \in Exchange : row[y] \in InteractionRecord
  BY <1>0 DEF TypeOK
<1>1. ASSUME NEW x \in Exchange, NEW mode \in Modes, Start(x, mode)
      PROVE  History!HistoryNext
  BY <1>1, BeginStep DEF History!HistoryNext
<1>2. ASSUME NEW x \in Exchange,
             Handler(x) \/ \E saved \in BOOLEAN : Drop(x, saved)
      PROVE  History!HistoryNext
  <2>1. Stays(x) \/ Ends(x)
    BY <1>0, <1>2, HandlerSteps DEF JournalInv
  <2>2. CASE Ends(x)
    BY <2>2, EndStep DEF History!HistoryNext
  <2>3. CASE Stays(x)
    <3>1. PICK t \in TraceRow : t.place \in Live /\ trace' = [trace EXCEPT ![x] = t]
      BY <2>3 DEF Stays
    <3>2. \A y \in Exchange : /\ trace'[y].place \in Live <=> trace[y].place \in Live
                              /\ trace'[y].place \in {"done", "lost"}
                                    <=> trace[y].place \in {"done", "lost"}
      BY <1>0, <2>3, <3>1 DEF Stays, TypeOK, Live
    <3>3. \A y \in Exchange : Told(row'[y]) = Told(row[y])
      <4>1. CASE row' = row
        BY <4>1
      <4>2. CASE row' = [row EXCEPT ![x] = Finished(row[x], "streaming", "none", 0)]
        <5> DEFINE f == Finished(row[x], "streaming", "none", 0)
        <5>1. "streaming" \in Open /\ "none" \in ErrorCode /\ 0 \in 0..Limit + 1
          BY JournalAssumption DEF Open, ErrorCode
        <5>2. /\ f \in InteractionRecord
              /\ row[x].status \notin Open => f = row[x]
              /\ row[x].status \in Open => f.status = "streaming"
          BY <1>a, <5>1, FinishedRow
        <5>3. \A y \in Exchange : row'[y] = IF y = x THEN f ELSE row[y]
          BY <1>0, <4>2 DEF TypeOK
        <5> HIDE DEF f
        <5>4. Told(f) = Told(row[x])
          BY <1>a, <5>1, <5>2, ToldRow
        <5> QED BY <5>3, <5>4
      <4> QED BY <2>3, <4>1, <4>2 DEF Stays
    <3> QED BY <3>2, <3>3, TidyStep DEF Tidied, History!HistoryNext
  <2> QED BY <2>1, <2>2, <2>3
<1>3. CASE SecondCore
  <2>1. ~Leased /\ trace' = trace
    BY <1>3 DEF SecondCore
  <2>2. ASSUME NEW y \in Exchange PROVE Tidied(y)
    <3> DEFINE p == Pruned(retention)[y]
    <3>1. /\ p \in InteractionRecord
          /\ p = row[y] \/ (Recorded(row[y]) /\ p = [row[y] EXCEPT !.status = "deleted"])
      BY <1>0, PrunedRow
    <3>2. row'[y] = Interrupted(p)
      BY <1>3 DEF SecondCore
    <3> HIDE DEF p
    <3>3. Told(row'[y]) = Told(p) \/ (Told(p) = Begun /\ Told(row'[y]) \in Cut)
      BY <3>1, <3>2, ToldInterrupted
    <3>4. p # row[y] => Told(row[y]) # Absent /\ Told(p) = Gone
      BY <1>a, <3>1, ToldDeleted
    <3>5. Gone # Begun
      BY DEF Gone, Begun
    <3> QED BY <2>1, <3>3, <3>4, <3>5 DEF Tidied
  <2> QED BY <2>1, <2>2, TidyStep DEF History!HistoryNext
<1>4. ASSUME NEW x \in Exchange, Recover(x) PROVE History!HistoryNext
  <2>1. /\ phase = "recovering" /\ trace' = trace
        /\ row' = [row EXCEPT ![x] = Interrupted(row[x])]
    BY <1>4 DEF Recover
  <2>2. trace[x].place \notin Live
    BY <1>0, <2>1 DEF JournalInv, RowInv
  <2>3. \A y \in Exchange : row'[y] = IF y = x THEN Interrupted(row[x]) ELSE row[y]
    BY <1>0, <2>1 DEF TypeOK
  <2>4. \A y \in Exchange : Tidied(y)
    BY <1>a, <2>2, <2>3, ToldInterrupted DEF Tidied
  <2> QED BY <2>1, <2>4, TidyStep DEF History!HistoryNext
<1>5. CASE \/ \E on \in BOOLEAN, days \in Retentions : PatchSettings(on, days)
           \/ Read
           \/ ClearHistory
           \/ Boot
  <2>1. /\ trace' = trace
        /\ \A y \in Exchange :
             \/ row'[y] = row[y]
             \/ Recorded(row[y]) /\ row'[y] = [row[y] EXCEPT !.status = "deleted"]
    BY <1>0, <1>5, RemovalSteps DEF Removes
  <2>2. \A y \in Exchange : Tidied(y)
    BY <1>a, <2>1, ToldDeleted DEF Tidied
  <2> QED BY <2>1, <2>2, TidyStep DEF History!HistoryNext
<1>6. CASE Tick \/ Ready
  <2>1. trace' = trace /\ row' = row
    BY <1>6 DEF Tick, Ready
  <2> QED BY <2>1, TidyStep DEF Tidied, History!HistoryNext
<1>7. CASE Crash
  BY <1>7, DieStep DEF History!HistoryNext
<1> QED BY <1>1, <1>2, <1>3, <1>4, <1>5, <1>6, <1>7 DEF Next

\* Handlers, recovery, pruning, clearing and a second core implement the
\* history together (ImplementsHistory).
THEOREM JournalIsAHistory == Spec => ImplementsHistory
<1>1. Init => History!HistoryInit
  BY DEF Init, NoRecord, Told, Open, Terminal, Live, History!HistoryInit
<1>2. Inv /\ [Next]_vars => [History!HistoryNext]_(History!historyVars)
  <2> SUFFICES ASSUME Inv, [Next]_vars PROVE [History!HistoryNext]_(History!historyVars)
    OBVIOUS
  <2>1. CASE Next
    BY <2>1, HistoryStep
  <2>2. CASE UNCHANGED vars
    BY <2>2 DEF vars, History!historyVars
  <2> QED BY <2>1, <2>2
<1> QED BY <1>1, <1>2, InvHolds, PTL DEF Spec, History!HistorySpec, ImplementsHistory

------------------------------------------------------------------------------
(* Every handler comes to its end *)

\* The steps a handler may still take: one to attribute, one to its headers,
\* one for each chunk it accepts and one to end.
Ahead(x) ==
    IF trace[x].place = "started" THEN Limit + 3
    ELSE IF trace[x].place = "awaiting" THEN Limit + 2
    ELSE IF trace[x].place = "reading" THEN Limit + 1 - trace[x].chunks
    ELSE 0

LEMMA AheadCounts ==
    ASSUME TypeOK, NEW x \in Exchange, RowInv(x)
    PROVE  Ahead(x) \in Nat /\ (Ahead(x) = 0 <=> trace[x].place \notin Live)
<1>1. trace[x] \in TraceRow /\ Limit \in Nat
  BY JournalAssumption DEF TypeOK
<1>2. trace[x].place \in Live => trace[x].chunks <= Limit
  BY DEF RowInv
<1> QED BY <1>1, <1>2 DEF Ahead, TraceRow, Live

\* A completed trace has no step ahead.
LEMMA CompletedIsEnd ==
    ASSUME TypeOK, NEW x \in Exchange, NEW t, NEW status, NEW error, NEW saved,
           CompleteFrom(x, t, status, error, saved), t \in TraceRow
    PROVE  Ahead(x)' = 0
BY DEF CompleteFrom, TypeOK, Ahead, TraceRow

\* A step of a handler brings it nearer to its end.
LEMMA HandlerAdvances ==
    ASSUME TypeOK, NEW x \in Exchange, RowInv(x), Handler(x)
    PROVE  Ahead(x)' < Ahead(x)
<1>1. /\ trace \in [Exchange -> TraceRow] /\ trace[x] \in TraceRow
      /\ Limit \in Nat
  BY JournalAssumption DEF TypeOK
<1>2. Ahead(x) \in Nat /\ (Ahead(x) = 0 <=> trace[x].place \notin Live)
  BY AheadCounts
<1>3. trace[x].place \in Live /\ Ahead(x)' = 0 => Ahead(x)' < Ahead(x)
  BY <1>2
<1>4. CASE Attribute(x)
  BY <1>1, <1>4 DEF Attribute, Ahead, TraceRow
<1>5. ASSUME NEW ok, NEW saved, Headers(x, ok, saved) PROVE Ahead(x)' < Ahead(x)
  <2>1. trace'[x].place = "reading" /\ trace'[x].chunks = trace[x].chunks
    BY <1>1, <1>5 DEF Headers, TraceRow
  <2>2. trace[x].place = "awaiting" /\ trace[x].chunks \in Nat
    BY <1>1, <1>5 DEF Headers, TraceRow
  <2> QED BY <1>1, <2>1, <2>2 DEF Ahead
<1>6. ASSUME NEW failing \in BOOLEAN, NEW ended \in BOOLEAN, NEW saved,
             Chunk(x, failing, ended, saved)
      PROVE  Ahead(x)' < Ahead(x)
  <2> DEFINE t == [trace[x] EXCEPT !.chunks = @ + 1,
                                   !.streamError = @ \/ failing,
                                   !.streamEnded = @ \/ ended]
  <2>1. trace[x].place = "reading" /\ trace[x].chunks <= Limit
    BY <1>6 DEF Chunk, RowInv, Live
  <2>a. /\ trace[x].chunks \in Nat /\ trace[x].chunks + 1 \in 0..Limit + 1
        /\ (trace[x].streamError \/ failing) \in BOOLEAN
        /\ (trace[x].streamEnded \/ ended) \in BOOLEAN
    BY <1>1, <2>1 DEF TraceRow
  <2>2. t \in TraceRow /\ t.place = "reading" /\ t.chunks = trace[x].chunks + 1
    BY <1>1, <2>1, <2>a DEF TraceRow
  <2>3. \/ CompleteFrom(x, t, "failed", "response_too_large", saved)
        \/ trace' = [trace EXCEPT ![x] = t]
    BY <1>6 DEF Chunk
  <2> HIDE DEF t
  <2>4. CASE CompleteFrom(x, t, "failed", "response_too_large", saved)
    BY <1>3, <2>1, <2>2, <2>4, CompletedIsEnd DEF Live
  <2>5. CASE trace' = [trace EXCEPT ![x] = t]
    BY <1>1, <2>1, <2>2, <2>5, <2>a DEF Ahead
  <2> QED BY <2>3, <2>4, <2>5
<1>7. ASSUME NEW saved, NEW usable,
             \/ AnswerEnds(x, usable, saved) \/ SendFails(x, saved)
             \/ Announced(x, saved) \/ Breaks(x, saved) \/ ProxyEnds(x, saved)
      PROVE  Ahead(x)' < Ahead(x)
  <2>1. trace[x].place \in Live
    BY <1>7 DEF AnswerEnds, SendFails, Announced, Breaks, ProxyEnds, Live
  <2>2. \E status, error : CompleteFrom(x, trace[x], status, error, saved)
    BY <1>7 DEF AnswerEnds, SendFails, Announced, Breaks, ProxyEnds,
                ResponseComplete, Complete
  <2> QED BY <1>1, <1>3, <2>1, <2>2, CompletedIsEnd
<1> QED BY <1>4, <1>5, <1>6, <1>7 DEF Handler

\* No step of anyone else takes a running handler further from its end.
LEMMA NobodyDelays ==
    ASSUME Inv, [Next]_vars, NEW x \in Exchange, trace[x].place \in Live
    PROVE  Ahead(x)' <= Ahead(x)
<1>1. /\ TypeOK /\ RowInv(x) /\ trace \in [Exchange -> TraceRow]
      /\ trace[x] \in TraceRow
  BY DEF Inv, JournalInv, TypeOK
<1>2. Ahead(x) \in Nat
  BY <1>1, AheadCounts
<1>3. /\ trace'[x] = trace[x] => Ahead(x)' = Ahead(x)
      /\ Ahead(x)' = 0 => Ahead(x)' <= Ahead(x)
  BY <1>2 DEF Ahead
<1>4. ASSUME NEW y \in Exchange, NEW mode, Start(y, mode)
      PROVE  trace'[x] = trace[x]
  BY <1>1, <1>4 DEF Start, Live
<1>5. ASSUME NEW y \in Exchange, y # x,
             Handler(y) \/ \E saved \in BOOLEAN : Drop(y, saved)
      PROVE  trace'[x] = trace[x]
  <2>1. Stays(y) \/ Ends(y)
    BY <1>5, HandlerSteps DEF Inv, JournalInv
  <2> QED BY <1>1, <1>5, <2>1 DEF Stays, Ends, CompleteFrom
<1>6. CASE Handler(x)
  <2>1. Ahead(x)' < Ahead(x)
    BY <1>1, <1>6, HandlerAdvances
  <2>2. Inv'
    BY NextInv
  <2>3. (Ahead(x) \in Nat)'
    <3>1. (TypeOK /\ RowInv(x))'
      BY <2>2 DEF Inv, JournalInv
    <3> QED BY <3>1, AheadCounts, JournalAssumption DEF Ahead, TypeOK, RowInv, TraceRow, Live
  <2> QED BY <1>2, <2>1, <2>3
<1>7. ASSUME NEW saved \in BOOLEAN, Drop(x, saved) PROVE Ahead(x)' = 0
  BY <1>1, <1>7, CompletedIsEnd DEF Drop, Complete
<1>8. CASE Crash
  <2>1. trace'[x].place = "lost"
    BY <1>1, <1>8 DEF Crash, TraceRow
  <2> QED BY <1>3, <2>1 DEF Ahead
<1>9. CASE \/ \E on \in BOOLEAN, days \in Retentions : PatchSettings(on, days)
           \/ Read \/ ClearHistory \/ Boot
           \/ Tick \/ Ready \/ SecondCore \/ UNCHANGED vars
           \/ \E y \in Exchange : Recover(y)
  <2>1. trace' = trace
    BY <1>9 DEF PatchSettings, Read, ClearHistory, Boot, Tick, Ready, SecondCore,
                Recover, vars
  <2> QED BY <1>2, <1>3, <2>1
<1> QED BY <1>2, <1>3, <1>4, <1>5, <1>6, <1>7, <1>8, <1>9 DEF Next

\* Whatever an exchange reads and whatever happens beside it, it has at most
\* Limit + 3 steps of its own: each brings it nearer to its end, and no step
\* of the owner, of recovery or of another exchange takes it further away.
THEOREM ExchangesAdvance ==
    Spec => /\ [](\A x \in Exchange :
                     /\ Ahead(x) \in 0..Limit + 3
                     /\ Ahead(x) = 0 <=> trace[x].place \notin Live)
            /\ [][\A x \in Exchange :
                     /\ Handler(x) => Ahead(x)' < Ahead(x)
                     /\ trace[x].place \in Live => Ahead(x)' <= Ahead(x)]_vars
<1>1. ASSUME Inv, NEW x \in Exchange
      PROVE  /\ Ahead(x) \in 0..Limit + 3
             /\ Ahead(x) = 0 <=> trace[x].place \notin Live
  <2>1. TypeOK /\ RowInv(x) /\ trace[x].chunks \in Nat /\ Limit \in Nat
    BY <1>1, JournalAssumption DEF Inv, JournalInv, TypeOK, TraceRow
  <2>2. Ahead(x) \in Nat /\ (Ahead(x) = 0 <=> trace[x].place \notin Live)
    BY <2>1, AheadCounts
  <2>3. Ahead(x) <= Limit + 3
    BY <2>1 DEF Ahead
  <2> QED BY <2>1, <2>2, <2>3
<1>2. Inv => \A x \in Exchange : /\ Ahead(x) \in 0..Limit + 3
                                 /\ Ahead(x) = 0 <=> trace[x].place \notin Live
  BY <1>1
<1>3. Inv /\ [Next]_vars =>
        [\A x \in Exchange :
            /\ Handler(x) => Ahead(x)' < Ahead(x)
            /\ trace[x].place \in Live => Ahead(x)' <= Ahead(x)]_vars
  BY HandlerAdvances, NobodyDelays DEF Inv, JournalInv
<1> QED BY <1>2, <1>3, InvHolds, PTL DEF Spec

==============================================================================
