--------------------------- MODULE ContinuityProofs ---------------------------
(***************************************************************************)
(* Proofs about module Continuity, for every number of conversations,      *)
(* chats, requests, revisions and days.                                    *)
(***************************************************************************)
EXTENDS ContinuityRefinement, SequenceTheorems, TLAPS

------------------------------------------------------------------------------
(* Types *)

\* A conversation is left alone, or it ends.
Kept(c) ==
    \/ thread'[c] = thread[c]
    \/ Live(thread[c]) /\ thread'[c] = NoThread("deleted")

\* Pruning leaves a conversation alone or removes it with its turns.
LEMMA Pruning ==
    ASSUME TypeOK
    PROVE  /\ Pruned \in [Thread -> ThreadRow]
           /\ \A c \in Thread :
                 \/ Pruned[c] = thread[c]
                 \/ Live(thread[c]) /\ Pruned[c] = NoThread("deleted")
           /\ \A c \in Thread : Live(Pruned[c]) => Pruned[c] = thread[c]
  <1>1. NoThread("deleted") \in ThreadRow
    BY ContinuityAssumption DEF NoThread, ThreadRow, Turn
  <1>2. NoThread("deleted").state = "deleted"
    BY DEF NoThread
  <1> HIDE DEF NoThread, ThreadRow
  <1>3. thread \in [Thread -> ThreadRow]
    BY DEF TypeOK
  <1> QED
    BY <1>1, <1>2, <1>3 DEF Pruned, Expired, Live

LEMMA EmptyRow ==
    ASSUME NEW state \in {"unused", "live", "deleted"}
    PROVE  /\ NoThread(state) \in ThreadRow
           /\ NoThread(state).state = state
           /\ NoThread(state).revision = 0
           /\ NoThread(state).pending = NoRequest
           /\ NoThread(state).expires = 0
           /\ NoThread(state).turns = << >>
  BY ContinuityAssumption DEF NoThread, ThreadRow, Turn

LEMMA EmptyCall ==
    /\ NoCall \in CallRow
    /\ AnyRequest \in RequestId
    /\ AnyMessage \in Message
  <1>1. AnyRequest \in RequestId /\ AnyMessage \in Message
    BY ContinuityAssumption DEF AnyRequest, AnyMessage
  <1>2. << >> \in Seq(Chat)
    OBVIOUS
  <1> HIDE DEF AnyRequest, AnyMessage
  <1> QED
    BY <1>1, <1>2, ContinuityAssumption DEF NoCall, CallRow

\* The exchanges a prompt shows are chats.
LEMMA HistoryType ==
    ASSUME NEW turns \in Seq(Turn)
    PROVE  History(turns) \in Seq(Chat)
  <1>1. Exchanges(turns) \in Seq(Chat) /\ Len(Exchanges(turns)) = Len(turns)
    <2>5. /\ Len(turns) \in Nat
          /\ DOMAIN turns = 1..Len(turns)
          /\ \A i \in 1..Len(turns) : turns[i] \in Turn
      BY LenProperties, ElementOfSeq
    <2>1. /\ Len(turns) \in Nat
          /\ DOMAIN turns = 1..Len(turns)
          /\ \A i \in 1..Len(turns) : turns[i].by \in Chat
      BY <2>5 DEF Turn
    <2>2. [i \in 1..Len(turns) |-> turns[i].by] \in [1..Len(turns) -> Chat]
      BY <2>1
    <2>4. ASSUME NEW n \in Nat, NEW f \in [1..n -> Chat]
          PROVE  f \in Seq(Chat) /\ Len(f) = n
      OBVIOUS
    <2>3. Exchanges(turns) = [i \in 1..Len(turns) |-> turns[i].by]
      BY <2>1 DEF Exchanges
    <2> QED
      BY <2>1, <2>2, <2>3, <2>4
  <1> DEFINE s == Exchanges(turns)
  <1> HIDE DEF s
  <1>2. s \in Seq(Chat)
    BY <1>1 DEF s
  <1>3. ASSUME ~(Len(s) <= Window)
        PROVE  SubSeq(s, Len(s) - Window + 1, Len(s)) \in Seq(Chat)
    <2>1. /\ Len(s) - Window + 1 \in Int
          /\ Len(s) \in Int
          /\ \A i \in (Len(s) - Window + 1) .. Len(s) : s[i] \in Chat
      BY <1>2, <1>3, ContinuityAssumption
    <2> QED
      BY <2>1, SubSeqProperties
  <1> QED
    BY <1>2, <1>3 DEF History, s

------------------------------------------------------------------------------
(* What each operation does to the conversations *)

\* Nothing was asked, stored, created or cleared: conversations may only end.
Quiet ==
    /\ thread' \in [Thread -> ThreadRow]
    /\ \A c \in Thread : Kept(c)
    /\ \A h \in Chat : /\ stage'[h] \in Sent <=> stage[h] \in Sent
                       /\ stage'[h] = "stored" <=> stage[h] = "stored"
                       /\ stage[h] # "idle" => call'[h] = call[h]

\* The same with one conversation changed to a row.
Changed(c, row) ==
    /\ thread' \in [Thread -> ThreadRow]
    /\ thread'[c] = row
    /\ \A x \in Thread \ {c} : Kept(x)

LEMMA CreateEffect ==
    ASSUME TypeOK, NEW c \in Thread, NEW days \in Lifetime, Create(c, days)
    PROVE  /\ Changed(c, [NoThread("live") EXCEPT !.expires = clock + days])
           /\ thread[c].state = "unused"
           /\ UNCHANGED <<permitted, call, stage, clock>>
  <1> DEFINE row == [NoThread("live") EXCEPT !.expires = clock + days]
  <1>1. row \in ThreadRow
    <2>1. NoThread("live") \in ThreadRow /\ clock + days \in Nat
      BY EmptyRow, ContinuityAssumption DEF TypeOK
    <2> QED
      BY <2>1 DEF ThreadRow
  <1> HIDE DEF row
  <1>2. thread' = [Pruned EXCEPT ![c] = row]
    BY DEF Create, row
  <1>3. Changed(c, row)
    BY <1>1, <1>2, Pruning DEF Changed, Kept
  <1> QED
    BY <1>3 DEF Create, row

\* Freeing the slot changes the slot and the revision only.
LEMMA FreedRow ==
    ASSUME NEW t \in ThreadRow, t.revision < MaxRevision
    PROVE  /\ Freed(t) \in ThreadRow
           /\ Freed(t).state = t.state
           /\ Freed(t).revision = t.revision + 1
           /\ Freed(t).pending = NoRequest
           /\ Freed(t).expires = t.expires
           /\ Freed(t).turns = t.turns
  <1>1. t.revision + 1 \in 0..MaxRevision
    BY ContinuityAssumption DEF ThreadRow
  <1> DEFINE r == t.revision + 1
  <1> HIDE DEF r
  <1>2. Freed(t) = [[t EXCEPT !.pending = NoRequest] EXCEPT !.revision = r]
    BY DEF Freed, r, ThreadRow
  <1>3. r \in 0..MaxRevision
    BY <1>1 DEF r
  <1>4. r = t.revision + 1
    BY DEF r
  <1> QED
    BY <1>2, <1>3, <1>4 DEF ThreadRow

LEMMA ClearEffect ==
    ASSUME TypeOK, ContinuityInv, NEW c \in Thread, NEW q \in RequestId,
           ClearAttempt(c, q)
    PROVE  /\ Changed(c, Freed(thread[c]))
           /\ Live(thread[c])
           /\ thread[c].pending = q
           /\ UNCHANGED <<permitted, call, stage, clock>>
  <1>1. thread[c] \in ThreadRow /\ q # NoRequest
    BY ContinuityAssumption DEF TypeOK
  <1>2. Live(thread[c]) /\ thread[c].pending = q /\ thread[c].revision < MaxRevision
    BY <1>1 DEF ClearAttempt, ContinuityInv, SlotIsTaken
  <1>3. Freed(thread[c]) \in ThreadRow
    BY <1>1, <1>2, FreedRow
  <1>4. thread' = [thread EXCEPT ![c] = Freed(thread[c])]
    BY DEF ClearAttempt
  <1>5. Changed(c, Freed(thread[c]))
    <2>1. thread \in [Thread -> ThreadRow]
      BY DEF TypeOK
    <2> QED
      BY <1>3, <1>4, <2>1 DEF Changed, Kept
  <1> QED
    BY <1>2, <1>5 DEF ClearAttempt

LEMMA AskEffect ==
    ASSUME TypeOK, NEW h \in Chat, NEW c \in Thread, NEW q \in RequestId,
           NEW revision \in 0..MaxRevision, NEW m \in Message,
           Ask(h, c, q, revision, m)
    PROVE  /\ Changed(c, [thread[c] EXCEPT !.pending = q])
           /\ Live(thread[c])
           /\ thread[c].pending = NoRequest
           /\ thread[c].revision = revision
           /\ revision < MaxRevision
           /\ StoredAt(thread[c], q) = {}
           /\ stage[h] = "idle"
           /\ stage' = [stage EXCEPT ![h] = "asked"]
           /\ call' \in [Chat -> CallRow]
           /\ \A k \in Chat \ {h} : call'[k] = call[k]
           /\ call'[h].thread = c
           /\ call'[h].request = q
           /\ call'[h].revision = revision
           /\ call'[h].message = m
           /\ call'[h].history = History(thread[c].turns)
           /\ UNCHANGED <<permitted, clock>>
  <1>1. Live(Pruned[c]) /\ Pruned[c] = thread[c] /\ thread[c] \in ThreadRow
    BY Pruning DEF Ask, Reaches, TypeOK
  <1> DEFINE row == [thread[c] EXCEPT !.pending = q]
  <1>2. row \in ThreadRow
    BY <1>1 DEF ThreadRow
  <1>3. thread' = [Pruned EXCEPT ![c] = row]
    <2>1. thread' = [Pruned EXCEPT ![c].pending = q]
      BY DEF Ask
    <2> QED
      BY <2>1, <1>1, Pruning
  <1>4. Changed(c, row)
    <2> HIDE DEF row
    <2> QED
      BY <1>2, <1>3, Pruning DEF Changed, Kept
  <1>5. /\ StoredAt(thread[c], q) = {}
        /\ thread[c].pending = NoRequest
        /\ thread[c].revision = revision
        /\ revision < MaxRevision
    BY <1>1 DEF Ask, Askable
  <1> DEFINE made == [NoCall EXCEPT !.thread = c, !.request = q,
                                    !.revision = revision, !.message = m,
                                    !.history = History(thread[c].turns)]
  <1>6. made \in CallRow
    <2>1. History(thread[c].turns) \in Seq(Chat)
      BY <1>1, HistoryType DEF ThreadRow
    <2> QED
      BY <2>1, EmptyCall DEF CallRow
  <1>7. /\ made.thread = c
        /\ made.request = q
        /\ made.revision = revision
        /\ made.message = m
        /\ made.history = History(thread[c].turns)
    BY EmptyCall DEF CallRow
  <1>8. call' = [call EXCEPT ![h] = made]
    BY DEF Ask
  <1> HIDE DEF made
  <1>9. /\ call' \in [Chat -> CallRow]
        /\ call'[h] = made
        /\ \A k \in Chat \ {h} : call'[k] = call[k]
    BY <1>6, <1>8 DEF TypeOK
  <1> QED
    BY <1>1, <1>4, <1>5, <1>7, <1>9 DEF Ask, Reaches

LEMMA ExtendedRow ==
    ASSUME NEW t \in ThreadRow, t.revision < MaxRevision,
           NEW h \in Chat, call[h] \in CallRow
    PROVE  /\ TurnOf(h) \in Turn
           /\ Extended(t, h) \in ThreadRow
           /\ Extended(t, h).state = t.state
           /\ Extended(t, h).revision = t.revision + 1
           /\ Extended(t, h).pending = NoRequest
           /\ Extended(t, h).expires = t.expires
           /\ Extended(t, h).turns = Append(t.turns, TurnOf(h))
  <1>1. TurnOf(h) \in Turn
    BY ContinuityAssumption DEF TurnOf, Turn, CallRow
  <1>2. Append(t.turns, TurnOf(h)) \in Seq(Turn)
    BY <1>1, AppendProperties DEF ThreadRow
  <1> DEFINE f == Freed(t)
             s == Append(t.turns, TurnOf(h))
  <1>3. /\ f \in ThreadRow
        /\ f.state = t.state
        /\ f.revision = t.revision + 1
        /\ f.pending = NoRequest
        /\ f.expires = t.expires
        /\ f.turns = t.turns
    BY FreedRow
  <1>4. Extended(t, h) = [f EXCEPT !.turns = s]
    BY <1>3 DEF Extended, ThreadRow
  <1>5. s \in Seq(Turn)
    BY <1>2
  <1> HIDE DEF f, s
  <1>6. /\ Extended(t, h) \in ThreadRow
        /\ Extended(t, h).state = f.state
        /\ Extended(t, h).revision = f.revision
        /\ Extended(t, h).pending = f.pending
        /\ Extended(t, h).expires = f.expires
        /\ Extended(t, h).turns = s
    BY <1>3, <1>4, <1>5 DEF ThreadRow
  <1> QED
    BY <1>1, <1>3, <1>6 DEF s

LEMMA FinishEffect ==
    ASSUME TypeOK, ContinuityInv, NEW h \in Chat, Finish(h)
    PROVE  /\ call[h].thread \in Thread
           /\ Changed(call[h].thread, Extended(thread[call[h].thread], h))
           /\ Live(thread[call[h].thread])
           /\ thread[call[h].thread].expires > clock
           /\ thread[call[h].thread].revision < MaxRevision
           /\ thread[call[h].thread].revision = call[h].revision
           /\ thread[call[h].thread].pending = call[h].request
           /\ call[h].request # NoRequest
           /\ stage[h] = "asked"
           /\ stage' = [stage EXCEPT ![h] = "stored"]
           /\ UNCHANGED <<permitted, call, clock>>
  <1> DEFINE c == call[h].thread
  <1>1. stage[h] = "asked" /\ stage[h] \in Sent
    BY DEF Finish, Sent
  <1>2. c \in Thread
    BY <1>1 DEF ContinuityInv, AttemptIsPending
  <1>3. Live(Pruned[c]) /\ Pruned[c] = thread[c] /\ thread[c] \in ThreadRow
    BY <1>2, Pruning DEF Finish, Current, TypeOK
  <1>4. /\ thread[c].pending = call[h].request
        /\ thread[c].revision = call[h].revision
    BY <1>3 DEF Finish, Current
  <1>5. call[h] \in CallRow /\ call[h].request # NoRequest
    BY ContinuityAssumption DEF TypeOK, CallRow
  <1>6. thread[c].revision < MaxRevision
    BY <1>2, <1>4, <1>5 DEF ContinuityInv, SlotIsTaken
  <1>7. Extended(thread[c], h) \in ThreadRow
    BY <1>3, <1>5, <1>6, ExtendedRow
  <1>8. thread' = [Pruned EXCEPT ![c] = Extended(thread[c], h)]
    BY <1>3, <1>2, Pruning DEF Finish
  <1>9. Changed(c, Extended(thread[c], h))
    BY <1>2, <1>7, <1>8, Pruning DEF Changed, Kept
  <1>10. thread[c].expires > clock
    <2>1. ~Expired(thread[c])
      <3>1. NoThread("deleted").state = "deleted"
        BY EmptyRow
      <3> HIDE DEF c
      <3> QED
        BY <3>1, <1>2, <1>3 DEF Pruned, Live
    <2>2. thread[c].expires \in Nat /\ clock \in Nat
      BY <1>3, ContinuityAssumption DEF ThreadRow, TypeOK
    <2> QED
      BY <2>1, <2>2, <1>3 DEF Expired
  <1> QED
    BY <1>1, <1>2, <1>3, <1>4, <1>5, <1>6, <1>9, <1>10 DEF Finish

\* Every other step is quiet.
LEMMA QuietSteps ==
    ASSUME TypeOK,
           \/ \E c \in Thread : Delete(c) \/ Revoke(c)
           \/ \E h \in Chat, c \in Thread, q \in RequestId, m \in Message :
                 \/ Replay(h, c, q, m)
                 \/ \E revision \in 0..MaxRevision : Refuse(h, c, q, revision, m)
           \/ \E h \in Chat : Fail(h) \/ Discard(h)
           \/ List
           \/ Tick
           \/ Crash
    PROVE  /\ Quiet
           /\ call' \in [Chat -> CallRow]
           /\ stage' \in [Chat -> Stage]
           /\ permitted' \subseteq Thread
           /\ clock' \in 0..MaxClock
  <1>1. /\ thread \in [Thread -> ThreadRow]
        /\ call \in [Chat -> CallRow]
        /\ stage \in [Chat -> Stage]
        /\ permitted \subseteq Thread
        /\ clock \in 0..MaxClock
    BY DEF TypeOK
  <1>2. ASSUME NEW c \in Thread, Delete(c) \/ Revoke(c)
        PROVE  Quiet /\ UNCHANGED <<call, stage, clock>> /\ permitted' \subseteq Thread
    <2>1. NoThread("deleted") \in ThreadRow
      BY EmptyRow
    <2> QED
      BY <1>1, <1>2, <2>1 DEF Delete, Revoke, Quiet, Kept
  <1>3. ASSUME UNCHANGED thread \/ thread' = Pruned
        PROVE  /\ thread' \in [Thread -> ThreadRow]
               /\ \A c \in Thread : Kept(c)
    BY <1>1, <1>3, Pruning DEF Kept
  <1>4. ASSUME NEW h \in Chat, NEW c \in Thread, NEW q \in RequestId,
               NEW m \in Message, Replay(h, c, q, m)
        PROVE  /\ Quiet
               /\ call' \in [Chat -> CallRow]
               /\ stage' \in [Chat -> Stage]
               /\ UNCHANGED <<permitted, clock>>
    <2>1. PICK i \in StoredAt(Pruned[c], q) :
             call' = [call EXCEPT ![h] = [NoCall EXCEPT
                                             !.thread = c,
                                             !.request = q,
                                             !.message = m,
                                             !.answer = thread[c].turns[i].by]]
      BY <1>4 DEF Replay
    <2>2. Pruned[c] = thread[c] /\ i \in DOMAIN thread[c].turns
      BY <1>4, Pruning DEF Replay, Reaches, StoredAt
    <2>3. thread[c].turns[i].by \in Chat
      <3>1. thread[c].turns \in Seq(Turn)
        BY <1>1 DEF ThreadRow
      <3>2. thread[c].turns[i] \in Turn
        BY <3>1, <2>2, LenProperties, ElementOfSeq
      <3> QED
        BY <3>2 DEF Turn
    <2> DEFINE made == [NoCall EXCEPT !.thread = c, !.request = q, !.message = m,
                                      !.answer = thread[c].turns[i].by]
    <2>4. made \in CallRow
      BY <2>3, EmptyCall DEF CallRow
    <2> HIDE DEF made
    <2>5. call' = [call EXCEPT ![h] = made]
      BY <2>1 DEF made
    <2>6. /\ thread' = Pruned
          /\ stage[h] = "idle"
          /\ stage' = [stage EXCEPT ![h] = "replayed"]
          /\ UNCHANGED <<permitted, clock>>
      BY <1>4 DEF Replay, Reaches
    <2>7. call' \in [Chat -> CallRow] /\ stage' \in [Chat -> Stage]
      BY <2>4, <2>5, <2>6, <1>1 DEF Stage
    <2>8. Quiet
      BY <2>5, <2>6, <1>1, <1>3 DEF Quiet, Sent
    <2> QED
      BY <2>6, <2>7, <2>8
  <1>5. ASSUME NEW h \in Chat, NEW c \in Thread, NEW q \in RequestId,
               NEW m \in Message, NEW revision \in 0..MaxRevision,
               Refuse(h, c, q, revision, m)
        PROVE  Quiet /\ stage' \in [Chat -> Stage] /\ UNCHANGED <<permitted, call, clock>>
    BY <1>1, <1>3, <1>5 DEF Refuse, Quiet, Sent, Stage
  <1>6. ASSUME NEW h \in Chat, Fail(h) \/ Discard(h)
        PROVE  Quiet /\ stage' \in [Chat -> Stage] /\ UNCHANGED <<permitted, call, clock>>
    BY <1>1, <1>3, <1>6 DEF Fail, Discard, Quiet, Sent, Stage
  <1>7. ASSUME List \/ Tick
        PROVE  Quiet /\ UNCHANGED <<permitted, call, stage>> /\ clock' \in 0..MaxClock
    BY <1>1, <1>3, <1>7, ContinuityAssumption DEF List, Tick, Quiet, Kept
  <1>8. ASSUME Crash
        PROVE  Quiet /\ stage' \in [Chat -> Stage] /\ UNCHANGED <<permitted, call, clock>>
    BY <1>1, <1>3, <1>8 DEF Crash, Quiet, Sent, Stage
  <1> QED
    BY <1>1, <1>2, <1>4, <1>5, <1>6, <1>7, <1>8

------------------------------------------------------------------------------
(* What survives a step *)

\* Chats that were sent stay sent, as they asked, and stored ones stored.
CallsKept ==
    \A h \in Chat :
        /\ stage[h] \in Sent => stage'[h] \in Sent /\ call'[h] = call[h]
        /\ stage[h] = "stored" => stage'[h] = "stored"

LEMMA KeptAttempt ==
    ASSUME NEW h \in Chat, AttemptIsPending(h),
           Kept(call[h].thread), call'[h] = call[h],
           stage'[h] = "stored" => stage[h] = "stored"
    PROVE  AttemptIsPending(h)'
  <1>1. NoThread("deleted").state = "deleted"
    BY EmptyRow
  <1> HIDE DEF NoThread
  <1> QED
    BY <1>1 DEF AttemptIsPending, Kept, Live

LEMMA KeptSlot ==
    ASSUME NEW c \in Thread, thread[c].pending # NoRequest => SlotIsTaken(c),
           Kept(c), CallsKept, thread'[c].pending # NoRequest
    PROVE  SlotIsTaken(c)'
  <1>1. thread'[c] = thread[c] /\ thread[c].pending # NoRequest
    BY EmptyRow DEF Kept
  <1>2. SlotIsTaken(c)
    BY <1>1
  <1>3. PICK h \in Chat : /\ stage[h] \in Sent
                         /\ call[h].thread = c
                         /\ call[h].revision = thread[c].revision
    BY <1>2 DEF SlotIsTaken
  <1>4. /\ stage'[h] \in Sent
        /\ call'[h].thread = c
        /\ call'[h].revision = thread'[c].revision
    BY <1>1, <1>3 DEF CallsKept
  <1> QED
    BY <1>1, <1>2, <1>4 DEF SlotIsTaken, StoredAt

LEMMA KeptTurn ==
    ASSUME NEW c \in Thread, NEW i, TurnIsOwn(c, i), CallsKept,
           thread[c].turns[i] \in Turn,
           thread'[c].turns[i] = thread[c].turns[i],
           SubSeq(thread'[c].turns, 1, i - 1) = SubSeq(thread[c].turns, 1, i - 1)
    PROVE  TurnIsOwn(c, i)'
  <1> DEFINE u == thread[c].turns[i]
  <1>1. u.by \in Chat
    BY DEF Turn
  <1>2. stage[u.by] = "stored" /\ stage[u.by] \in Sent
    BY DEF TurnIsOwn, Sent
  <1>3. stage'[u.by] = "stored" /\ call'[u.by] = call[u.by]
    BY <1>1, <1>2 DEF CallsKept
  <1> QED
    BY <1>3 DEF TurnIsOwn

LEMMA TurnsOf ==
    ASSUME TypeOK, NEW c \in Thread
    PROVE  /\ thread[c].turns \in Seq(Turn)
           /\ Len(thread[c].turns) \in Nat
           /\ DOMAIN thread[c].turns = 1..Len(thread[c].turns)
           /\ \A i \in DOMAIN thread[c].turns : thread[c].turns[i] \in Turn
  <1>1. thread[c].turns \in Seq(Turn)
    BY DEF TypeOK, ThreadRow
  <1> QED
    BY <1>1, LenProperties, ElementOfSeq

LEMMA KeptTurns ==
    ASSUME TypeOK, NEW c \in Thread, Kept(c), CallsKept,
           \A i \in DOMAIN thread[c].turns : TurnIsOwn(c, i)
    PROVE  \A i \in DOMAIN thread'[c].turns : TurnIsOwn(c, i)'
  <1>1. CASE thread'[c] = thread[c]
    BY <1>1, TurnsOf, KeptTurn
  <1>2. CASE thread'[c] = NoThread("deleted")
    <2>1. thread'[c].turns = << >>
      BY <1>2, EmptyRow
    <2> QED
      BY <2>1
  <1> QED
    BY <1>1, <1>2 DEF Kept

LEMMA KeptRemoval ==
    ASSUME NEW c \in Thread, Kept(c),
           ~Live(thread[c]) => thread[c] = NoThread(thread[c].state)
    PROVE  ~Live(thread'[c]) => thread'[c] = NoThread(thread'[c].state)
  <1>1. NoThread("deleted").state = "deleted"
    BY EmptyRow
  <1> HIDE DEF NoThread
  <1> QED
    BY <1>1 DEF Kept, Live

\* The prefixes of a conversation are those it had before it was extended.
LEMMA Prefixes ==
    ASSUME NEW s \in Seq(Turn), NEW e \in Turn
    PROVE  /\ Append(s, e) \in Seq(Turn)
           /\ DOMAIN Append(s, e) = 1 .. (Len(s) + 1)
           /\ Append(s, e)[Len(s) + 1] = e
           /\ \A i \in 1..Len(s) : Append(s, e)[i] = s[i]
           /\ \A i \in 1..(Len(s) + 1) :
                 SubSeq(Append(s, e), 1, i - 1) = SubSeq(s, 1, i - 1)
           /\ SubSeq(s, 1, Len(s)) = s
  <1>1. /\ Append(s, e) \in Seq(Turn)
        /\ Len(Append(s, e)) = Len(s) + 1
        /\ \A i \in 1..Len(s) : Append(s, e)[i] = s[i]
        /\ Append(s, e)[Len(s) + 1] = e
        /\ Len(s) \in Nat
    BY AppendProperties, LenProperties
  <1>2. DOMAIN Append(s, e) = 1 .. (Len(s) + 1)
    BY <1>1, LenProperties
  <1>3. ASSUME NEW i \in 1..(Len(s) + 1)
        PROVE  SubSeq(Append(s, e), 1, i - 1) = SubSeq(s, 1, i - 1)
    <2> DEFINE a == Append(s, e)
               n == i - 1
    <2>1. n \in Nat /\ n <= Len(s)
      BY <1>1
    <2>2. \A j \in 1..n : s[j] \in Turn /\ a[j] \in Turn /\ a[j] = s[j]
      BY <1>1, <2>1, ElementOfSeq
    <2> HIDE DEF a, n
    <2>3. /\ SubSeq(a, 1, n) \in Seq(Turn)
          /\ SubSeq(s, 1, n) \in Seq(Turn)
          /\ Len(SubSeq(a, 1, n)) = n
          /\ Len(SubSeq(s, 1, n)) = n
          /\ \A j \in 1..n : /\ SubSeq(a, 1, n)[j] = a[j]
                             /\ SubSeq(s, 1, n)[j] = s[j]
      <3>1. ASSUME NEW t, \A j \in 1..n : t[j] \in Turn
            PROVE  /\ SubSeq(t, 1, n) \in Seq(Turn)
                   /\ Len(SubSeq(t, 1, n)) = n
                   /\ \A j \in 1..n : SubSeq(t, 1, n)[j] = t[j]
        <4>1. /\ SubSeq(t, 1, n) \in Seq(Turn)
              /\ Len(SubSeq(t, 1, n)) = IF 1 <= n THEN n - 1 + 1 ELSE 0
              /\ \A j \in 1 .. (n - 1 + 1) : SubSeq(t, 1, n)[j] = t[1 + j - 1]
          BY <2>1, <3>1, SubSeqProperties
        <4> QED
          BY <4>1, <2>1
      <3> QED
        BY <2>2, <3>1
    <2>4. SubSeq(a, 1, n) = SubSeq(s, 1, n)
      BY <2>2, <2>3, SeqEqual
    <2> QED
      BY <2>4 DEF a, n
  <1>4. SubSeq(s, 1, Len(s)) = s
    BY SubSeqFull
  <1> QED
    BY <1>1, <1>2, <1>3, <1>4

------------------------------------------------------------------------------
(* The invariant *)

LEMMA ContinuityTypesInit == Init => TypeOK
  <1> SUFFICES ASSUME Init PROVE TypeOK
    OBVIOUS
  <1>1. NoThread("unused") \in ThreadRow
    BY EmptyRow
  <1>2. NoCall \in CallRow
    BY EmptyCall
  <1> QED
    BY <1>1, <1>2, ContinuityAssumption DEF Init, TypeOK, Stage

LEMMA ContinuityInvInit == Init => ContinuityInv
  <1> SUFFICES ASSUME Init PROVE ContinuityInv
    OBVIOUS
  <1>1. \A h \in Chat : stage[h] \notin Sent
    BY DEF Init, Sent
  <1>2. \A c \in Thread : /\ thread[c] = NoThread("unused")
                         /\ thread[c].state = "unused"
                         /\ thread[c].pending = NoRequest
                         /\ thread[c].turns = << >>
    BY EmptyRow DEF Init
  <1>3. \A c \in Thread : DOMAIN thread[c].turns = {}
    BY <1>2
  <1> QED
    BY <1>1, <1>2, <1>3 DEF ContinuityInv

\* Quiet steps.
LEMMA QuietInv ==
    ASSUME TypeOK, ContinuityInv, Quiet
    PROVE  ContinuityInv'
  <1>1. CallsKept
    BY DEF Quiet, CallsKept, Sent
  <1>2. ASSUME NEW h \in Chat, stage'[h] \in Sent
        PROVE  AttemptIsPending(h)'
    <2>1. /\ stage[h] \in Sent
          /\ call'[h] = call[h]
          /\ stage'[h] = "stored" => stage[h] = "stored"
      BY <1>2 DEF Quiet, Sent
    <2>2. AttemptIsPending(h)
      BY <2>1 DEF ContinuityInv
    <2>3. Kept(call[h].thread)
      BY <2>2 DEF AttemptIsPending, Quiet
    <2> QED
      BY <2>1, <2>2, <2>3, KeptAttempt
  <1>3. ASSUME NEW c \in Thread, thread'[c].pending # NoRequest
        PROVE  SlotIsTaken(c)'
    BY <1>1, <1>3, KeptSlot DEF ContinuityInv, Quiet
  <1>4. ASSUME NEW c \in Thread
        PROVE  \A i \in DOMAIN thread'[c].turns : TurnIsOwn(c, i)'
    BY <1>1, KeptTurns DEF ContinuityInv, Quiet
  <1>5. ASSUME NEW c \in Thread, ~Live(thread'[c])
        PROVE  thread'[c] = NoThread(thread'[c].state)
    BY <1>5, KeptRemoval DEF ContinuityInv, Quiet
  <1> QED
    BY <1>2, <1>3, <1>4, <1>5 DEF ContinuityInv, Live

LEMMA CreateInv ==
    ASSUME TypeOK, ContinuityInv, NEW c \in Thread, NEW days \in Lifetime,
           Create(c, days)
    PROVE  ContinuityInv'
  <1> DEFINE row == [NoThread("live") EXCEPT !.expires = clock + days]
  <1>1. /\ row.state = "live"
        /\ row.pending = NoRequest
        /\ row.turns = << >>
    BY EmptyRow DEF ThreadRow
  <1> HIDE DEF row
  <1>2. /\ Changed(c, row)
        /\ thread[c].state = "unused"
        /\ UNCHANGED <<call, stage>>
    BY CreateEffect DEF row
  <1>3. CallsKept
    BY <1>2 DEF CallsKept
  <1>4. thread'[c] = row /\ \A x \in Thread \ {c} : Kept(x)
    BY <1>2 DEF Changed
  <1>5. ASSUME NEW h \in Chat, stage'[h] \in Sent
        PROVE  AttemptIsPending(h)'
    <2>1. stage[h] \in Sent /\ call'[h] = call[h] /\ stage'[h] = stage[h]
      BY <1>2, <1>5
    <2>2. AttemptIsPending(h)
      BY <2>1 DEF ContinuityInv
    <2>3. Kept(call[h].thread)
      BY <1>2, <1>4, <2>2 DEF AttemptIsPending
    <2> QED
      BY <2>1, <2>2, <2>3, KeptAttempt
  <1>6. ASSUME NEW x \in Thread, thread'[x].pending # NoRequest
        PROVE  SlotIsTaken(x)'
    BY <1>1, <1>3, <1>4, <1>6, KeptSlot DEF ContinuityInv
  <1>7. ASSUME NEW x \in Thread
        PROVE  \A i \in DOMAIN thread'[x].turns : TurnIsOwn(x, i)'
    <2>1. CASE x = c
      <3>1. DOMAIN thread'[x].turns = {}
        BY <1>1, <1>4, <2>1
      <3> QED
        BY <3>1
    <2>2. CASE x # c
      BY <1>3, <1>4, <2>2, KeptTurns DEF ContinuityInv
    <2> QED
      BY <2>1, <2>2
  <1>8. ASSUME NEW x \in Thread, ~Live(thread'[x])
        PROVE  thread'[x] = NoThread(thread'[x].state)
    BY <1>1, <1>4, <1>8, KeptRemoval DEF ContinuityInv, Live
  <1> QED
    BY <1>5, <1>6, <1>7, <1>8 DEF ContinuityInv, Live

LEMMA ClearInv ==
    ASSUME TypeOK, ContinuityInv, NEW c \in Thread, NEW q \in RequestId,
           ClearAttempt(c, q)
    PROVE  ContinuityInv'
  <1> DEFINE row == Freed(thread[c])
  <1>1. /\ thread[c] \in ThreadRow
        /\ thread[c].pending # NoRequest
        /\ thread[c].revision < MaxRevision
    BY ClearEffect, ContinuityAssumption DEF TypeOK, ContinuityInv, SlotIsTaken
  <1>2. /\ row.state = thread[c].state
        /\ row.revision = thread[c].revision + 1
        /\ row.pending = NoRequest
        /\ row.turns = thread[c].turns
    BY <1>1, FreedRow
  <1> HIDE DEF row
  <1>3. /\ Changed(c, row)
        /\ Live(thread[c])
        /\ UNCHANGED <<call, stage>>
    BY ClearEffect DEF row
  <1>4. CallsKept
    BY <1>3 DEF CallsKept
  <1>5. thread'[c] = row /\ \A x \in Thread \ {c} : Kept(x)
    BY <1>3 DEF Changed
  <1>6. ASSUME NEW h \in Chat, stage'[h] \in Sent
        PROVE  AttemptIsPending(h)'
    <2>1. stage[h] \in Sent /\ call'[h] = call[h] /\ stage'[h] = stage[h]
      BY <1>3, <1>6
    <2>2. AttemptIsPending(h) /\ call[h].revision \in Nat /\ thread[c].revision \in Nat
      BY <1>1, <2>1, ContinuityAssumption DEF ContinuityInv, TypeOK, CallRow, ThreadRow
    <2>3. CASE call[h].thread = c
      <3>1. ~(call[h].revision >= row.revision)
        BY <1>2, <1>3, <2>2, <2>3 DEF AttemptIsPending
      <3> QED
        BY <1>2, <1>3, <1>5, <2>1, <2>3, <3>1 DEF AttemptIsPending, Live
    <2>4. CASE call[h].thread # c
      <3>1. Kept(call[h].thread)
        BY <1>5, <2>2, <2>4 DEF AttemptIsPending
      <3> QED
        BY <2>1, <2>2, <3>1, KeptAttempt
    <2> QED
      BY <2>3, <2>4
  <1>7. ASSUME NEW x \in Thread, thread'[x].pending # NoRequest
        PROVE  SlotIsTaken(x)'
    BY <1>2, <1>4, <1>5, <1>7, KeptSlot DEF ContinuityInv
  <1>8. ASSUME NEW x \in Thread
        PROVE  \A i \in DOMAIN thread'[x].turns : TurnIsOwn(x, i)'
    <2>1. CASE x = c
      <3>1. thread'[x].turns = thread[x].turns
        BY <1>2, <1>5, <2>1
      <3>2. \A i \in DOMAIN thread[x].turns : TurnIsOwn(x, i) /\ thread[x].turns[i] \in Turn
        BY TurnsOf DEF ContinuityInv
      <3> QED
        BY <1>4, <3>1, <3>2, KeptTurn
    <2>2. CASE x # c
      BY <1>4, <1>5, <2>2, KeptTurns DEF ContinuityInv
    <2> QED
      BY <2>1, <2>2
  <1>9. ASSUME NEW x \in Thread, ~Live(thread'[x])
        PROVE  thread'[x] = NoThread(thread'[x].state)
    BY <1>2, <1>3, <1>5, <1>9, KeptRemoval DEF ContinuityInv, Live
  <1> QED
    BY <1>6, <1>7, <1>8, <1>9 DEF ContinuityInv, Live

LEMMA AskInv ==
    ASSUME TypeOK, ContinuityInv, NEW h \in Chat, NEW c \in Thread,
           NEW q \in RequestId, NEW revision \in 0..MaxRevision,
           NEW m \in Message, Ask(h, c, q, revision, m)
    PROVE  ContinuityInv'
  <1> DEFINE row == [thread[c] EXCEPT !.pending = q]
  <1>1. thread[c] \in ThreadRow
    BY DEF TypeOK
  <1>2. /\ row.state = thread[c].state
        /\ row.revision = thread[c].revision
        /\ row.pending = q
        /\ row.turns = thread[c].turns
    BY <1>1 DEF ThreadRow
  <1> HIDE DEF row
  <1>3. /\ Changed(c, row)
        /\ Live(thread[c])
        /\ thread[c].pending = NoRequest
        /\ thread[c].revision = revision
        /\ revision < MaxRevision
        /\ StoredAt(thread[c], q) = {}
        /\ stage[h] = "idle"
        /\ stage' = [stage EXCEPT ![h] = "asked"]
        /\ \A k \in Chat \ {h} : call'[k] = call[k]
        /\ call'[h].thread = c
        /\ call'[h].request = q
        /\ call'[h].revision = revision
        /\ call'[h].history = History(thread[c].turns)
    BY AskEffect DEF row
  <1>4. /\ stage'[h] = "asked"
        /\ \A k \in Chat \ {h} : stage'[k] = stage[k]
    BY <1>3 DEF TypeOK
  <1>5. CallsKept
    BY <1>3, <1>4 DEF CallsKept, Sent
  <1>6. thread'[c] = row /\ \A x \in Thread \ {c} : Kept(x)
    BY <1>3 DEF Changed
  <1>7. ASSUME NEW k \in Chat, stage'[k] \in Sent
        PROVE  AttemptIsPending(k)'
    <2>1. CASE k = h
      BY <1>2, <1>3, <1>4, <1>6, <2>1 DEF AttemptIsPending, Live
    <2>2. CASE k # h
      <3>1. stage[k] \in Sent /\ call'[k] = call[k] /\ stage'[k] = stage[k]
        BY <1>3, <1>4, <1>7, <2>2
      <3>2. AttemptIsPending(k) /\ call[k].request # NoRequest
        BY <3>1, ContinuityAssumption DEF ContinuityInv, TypeOK, CallRow
      <3>3. CASE call[k].thread = c
        <4>1. ~(call[k].revision >= row.revision)
          BY <1>2, <1>3, <3>2, <3>3 DEF AttemptIsPending
        <4> QED
          BY <1>2, <1>3, <1>6, <3>1, <3>3, <4>1 DEF AttemptIsPending, Live
      <3>4. CASE call[k].thread # c
        <4>1. Kept(call[k].thread)
          BY <1>6, <3>2, <3>4 DEF AttemptIsPending
        <4> QED
          BY <3>1, <3>2, <4>1, KeptAttempt
      <3> QED
        BY <3>3, <3>4
    <2> QED
      BY <2>1, <2>2
  <1>8. ASSUME NEW x \in Thread, thread'[x].pending # NoRequest
        PROVE  SlotIsTaken(x)'
    <2>1. CASE x = c
      <3>1. stage'[h] \in Sent
        BY <1>4 DEF Sent
      <3> QED
        BY <1>2, <1>3, <1>6, <2>1, <3>1 DEF SlotIsTaken, StoredAt
    <2>2. CASE x # c
      BY <1>5, <1>6, <1>8, <2>2, KeptSlot DEF ContinuityInv
    <2> QED
      BY <2>1, <2>2
  <1>9. ASSUME NEW x \in Thread
        PROVE  \A i \in DOMAIN thread'[x].turns : TurnIsOwn(x, i)'
    <2>1. CASE x = c
      <3>1. thread'[x].turns = thread[x].turns
        BY <1>2, <1>6, <2>1
      <3>2. \A i \in DOMAIN thread[x].turns : TurnIsOwn(x, i) /\ thread[x].turns[i] \in Turn
        BY TurnsOf DEF ContinuityInv
      <3> QED
        BY <1>5, <3>1, <3>2, KeptTurn
    <2>2. CASE x # c
      BY <1>5, <1>6, <2>2, KeptTurns DEF ContinuityInv
    <2> QED
      BY <2>1, <2>2
  <1>10. ASSUME NEW x \in Thread, ~Live(thread'[x])
         PROVE  thread'[x] = NoThread(thread'[x].state)
    BY <1>2, <1>3, <1>6, <1>10, KeptRemoval DEF ContinuityInv, Live
  <1> QED
    BY <1>7, <1>8, <1>9, <1>10 DEF ContinuityInv, Live

LEMMA FinishInv ==
    ASSUME TypeOK, ContinuityInv, NEW h \in Chat, Finish(h)
    PROVE  ContinuityInv'
  <1> DEFINE c == call[h].thread
             row == Extended(thread[c], h)
  <1>1. /\ c \in Thread
        /\ Changed(c, row)
        /\ Live(thread[c])
        /\ thread[c].revision < MaxRevision
        /\ thread[c].revision = call[h].revision
        /\ stage[h] = "asked"
        /\ stage' = [stage EXCEPT ![h] = "stored"]
        /\ call' = call
    BY FinishEffect
  <1>2. thread[c] \in ThreadRow /\ call[h] \in CallRow
    BY <1>1 DEF TypeOK
  <1>3. /\ TurnOf(h) \in Turn
        /\ row.state = thread[c].state
        /\ row.revision = thread[c].revision + 1
        /\ row.pending = NoRequest
        /\ row.turns = Append(thread[c].turns, TurnOf(h))
    BY <1>1, <1>2, ExtendedRow
  <1> HIDE DEF row
  <1>4. /\ stage'[h] = "stored"
        /\ \A k \in Chat \ {h} : stage'[k] = stage[k]
    BY <1>1 DEF TypeOK
  <1>5. CallsKept
    BY <1>1, <1>4 DEF CallsKept, Sent
  <1>6. thread'[c] = row /\ \A x \in Thread \ {c} : Kept(x)
    BY <1>1 DEF Changed
  <1>7. ASSUME NEW k \in Chat, stage'[k] \in Sent
        PROVE  AttemptIsPending(k)'
    <2>1. stage[k] \in Sent /\ call'[k] = call[k]
      BY <1>1, <1>4, <1>7 DEF Sent
    <2>2. AttemptIsPending(k) /\ call[k].revision \in Nat /\ thread[c].revision \in Nat
      BY <1>2, <2>1, ContinuityAssumption DEF ContinuityInv, TypeOK, CallRow, ThreadRow
    <2>3. CASE call[k].thread = c
      <3>1. ~(call[k].revision >= row.revision)
        BY <1>1, <1>3, <2>2, <2>3 DEF AttemptIsPending
      <3> HIDE DEF c
      <3> QED
        BY <1>1, <1>3, <1>6, <2>1, <2>3, <3>1 DEF AttemptIsPending, Live
    <2>4. CASE call[k].thread # c
      <3>1. Kept(call[k].thread)
        BY <1>6, <2>2, <2>4 DEF AttemptIsPending
      <3>2. stage'[k] = "stored" => stage[k] = "stored"
        BY <1>4, <2>4
      <3> QED
        BY <2>1, <2>2, <3>1, <3>2, KeptAttempt
    <2> QED
      BY <2>3, <2>4
  <1>8. ASSUME NEW x \in Thread, thread'[x].pending # NoRequest
        PROVE  SlotIsTaken(x)'
    BY <1>3, <1>5, <1>6, <1>8, KeptSlot DEF ContinuityInv
  <1>9. ASSUME NEW x \in Thread
        PROVE  \A i \in DOMAIN thread'[x].turns : TurnIsOwn(x, i)'
    <2>1. CASE x = c
      <3> DEFINE s == thread[x].turns
                 e == TurnOf(h)
      <3>1. /\ s \in Seq(Turn)
            /\ Len(s) \in Nat
            /\ DOMAIN s = 1..Len(s)
            /\ \A i \in DOMAIN s : s[i] \in Turn
        BY TurnsOf
      <3>2. /\ DOMAIN Append(s, e) = 1 .. (Len(s) + 1)
            /\ Append(s, e)[Len(s) + 1] = e
            /\ \A i \in 1..Len(s) : Append(s, e)[i] = s[i]
            /\ \A i \in 1..(Len(s) + 1) :
                  SubSeq(Append(s, e), 1, i - 1) = SubSeq(s, 1, i - 1)
            /\ SubSeq(s, 1, Len(s)) = s
        BY <1>3, <3>1, Prefixes
      <3>3. thread'[x].turns = Append(s, e)
        BY <1>3, <1>6, <2>1
      <3>4. ASSUME NEW i \in 1..Len(s)
            PROVE  TurnIsOwn(x, i)'
        <4>1. TurnIsOwn(x, i) /\ s[i] \in Turn
          BY <3>1 DEF ContinuityInv
        <4>2. /\ thread'[x].turns[i] = s[i]
              /\ SubSeq(thread'[x].turns, 1, i - 1) = SubSeq(s, 1, i - 1)
          BY <3>1, <3>2, <3>3
        <4> HIDE DEF s
        <4> QED
          BY <1>5, <4>1, <4>2, KeptTurn DEF s
      <3>5. ASSUME NEW i \in Nat, i = Len(s) + 1
            PROVE  TurnIsOwn(x, i)'
        <4>1. stage[h] \in Sent
          BY <1>1 DEF Sent
        <4>5. AttemptIsPending(h)
          BY <4>1 DEF ContinuityInv
        <4>2. call[h].history = History(s) /\ call[h].thread = x
          BY <1>1, <1>2, <2>1, <4>5, ContinuityAssumption DEF AttemptIsPending, CallRow
        <4>3. /\ thread'[x].turns[i] = e
              /\ SubSeq(thread'[x].turns, 1, i - 1) = s
          BY <3>1, <3>2, <3>3, <3>5
        <4>4. e.by = h /\ e.request = call[h].request /\ e.message = call[h].message
          BY DEF TurnOf
        <4> HIDE DEF s, e
        <4> QED
          BY <1>1, <1>4, <4>2, <4>3, <4>4 DEF TurnIsOwn
      <3>6. DOMAIN thread'[x].turns = 1 .. (Len(s) + 1)
        BY <3>2, <3>3
      <3>7. \A i \in 1 .. (Len(s) + 1) : i \in Nat /\ (i \in 1..Len(s) \/ i = Len(s) + 1)
        BY <3>1
      <3> HIDE DEF s
      <3> QED
        BY <3>4, <3>5, <3>6, <3>7
    <2>2. CASE x # c
      BY <1>5, <1>6, <2>2, KeptTurns DEF ContinuityInv
    <2> QED
      BY <2>1, <2>2
  <1>10. ASSUME NEW x \in Thread, ~Live(thread'[x])
         PROVE  thread'[x] = NoThread(thread'[x].state)
    BY <1>1, <1>3, <1>6, <1>10, KeptRemoval DEF ContinuityInv, Live
  <1> QED
    BY <1>7, <1>8, <1>9, <1>10 DEF ContinuityInv, Live

------------------------------------------------------------------------------
(* The specification *)

\* The steps, grouped by what they do to the conversations.
LEMMA Steps ==
    ASSUME [Next]_vars
    PROVE  \/ \E c \in Thread, days \in Lifetime : Create(c, days)
           \/ \E c \in Thread, q \in RequestId : ClearAttempt(c, q)
           \/ \E h \in Chat, c \in Thread, q \in RequestId, m \in Message,
                 revision \in 0..MaxRevision : Ask(h, c, q, revision, m)
           \/ \E h \in Chat : Finish(h)
           \/ \E c \in Thread : Delete(c) \/ Revoke(c)
           \/ \E h \in Chat, c \in Thread, q \in RequestId, m \in Message :
                 \/ Replay(h, c, q, m)
                 \/ \E revision \in 0..MaxRevision : Refuse(h, c, q, revision, m)
           \/ \E h \in Chat : Fail(h) \/ Discard(h)
           \/ List
           \/ Tick
           \/ Crash
           \/ UNCHANGED vars
  BY DEF Next

LEMMA ChangedTypes ==
    ASSUME TypeOK, NEW c \in Thread, NEW row, Changed(c, row),
           call' \in [Chat -> CallRow], stage' \in [Chat -> Stage],
           UNCHANGED <<permitted, clock>>
    PROVE  TypeOK'
  BY DEF Changed, TypeOK

LEMMA StepInv ==
    ASSUME TypeOK, ContinuityInv, [Next]_vars
    PROVE  TypeOK' /\ ContinuityInv'
  <1>1. call \in [Chat -> CallRow] /\ stage \in [Chat -> Stage]
    BY DEF TypeOK
  <1>2. ASSUME NEW c \in Thread, NEW days \in Lifetime, Create(c, days)
        PROVE  TypeOK' /\ ContinuityInv'
    BY <1>1, <1>2, CreateEffect, ChangedTypes, CreateInv
  <1>3. ASSUME NEW c \in Thread, NEW q \in RequestId, ClearAttempt(c, q)
        PROVE  TypeOK' /\ ContinuityInv'
    BY <1>1, <1>3, ClearEffect, ChangedTypes, ClearInv
  <1>4. ASSUME NEW h \in Chat, NEW c \in Thread, NEW q \in RequestId,
               NEW m \in Message, NEW revision \in 0..MaxRevision,
               Ask(h, c, q, revision, m)
        PROVE  TypeOK' /\ ContinuityInv'
    <2>1. stage' \in [Chat -> Stage]
      BY <1>1, <1>4, AskEffect DEF Stage
    <2> DEFINE row == [thread[c] EXCEPT !.pending = q]
    <2>2. /\ Changed(c, row)
          /\ call' \in [Chat -> CallRow]
          /\ UNCHANGED <<permitted, clock>>
      BY <1>4, AskEffect
    <2> HIDE DEF row
    <2>3. TypeOK'
      BY <2>1, <2>2, ChangedTypes
    <2> QED
      BY <2>3, <1>4, AskInv
  <1>5. ASSUME NEW h \in Chat, Finish(h)
        PROVE  TypeOK' /\ ContinuityInv'
    <2>1. stage' \in [Chat -> Stage]
      BY <1>1, <1>5, FinishEffect DEF Stage
    <2>2. PICK c \in Thread : c = call[h].thread
      BY <1>5, FinishEffect
    <2>3. Changed(c, Extended(thread[c], h)) /\ UNCHANGED <<permitted, call, clock>>
      BY <2>2, <1>5, FinishEffect
    <2> QED
      BY <1>1, <2>1, <2>3, <1>5, ChangedTypes, FinishInv
  <1>6. ASSUME \/ \E c \in Thread : Delete(c) \/ Revoke(c)
               \/ \E h \in Chat, c \in Thread, q \in RequestId, m \in Message :
                     \/ Replay(h, c, q, m)
                     \/ \E revision \in 0..MaxRevision : Refuse(h, c, q, revision, m)
               \/ \E h \in Chat : Fail(h) \/ Discard(h)
               \/ List
               \/ Tick
               \/ Crash
        PROVE  TypeOK' /\ ContinuityInv'
    <2>1. /\ Quiet
          /\ call' \in [Chat -> CallRow]
          /\ stage' \in [Chat -> Stage]
          /\ permitted' \subseteq Thread
          /\ clock' \in 0..MaxClock
      BY <1>6, QuietSteps
    <2> QED
      BY <2>1, QuietInv DEF Quiet, TypeOK
  <1>7. ASSUME UNCHANGED vars
        PROVE  TypeOK' /\ ContinuityInv'
    BY <1>7 DEF vars, TypeOK, ContinuityInv, AttemptIsPending, SlotIsTaken, StoredAt,
                TurnIsOwn, Live
  <1> QED
    BY <1>2, <1>3, <1>4, <1>5, <1>6, <1>7, Steps

\* Every variable holds a value of its type: in particular no sequence of
\* exchanges and cleared attempts takes a revision past the cap that
\* prepare_conversation tests.
THEOREM ContinuityTypes == Spec => []TypeOK
  <1>1. Init => TypeOK /\ ContinuityInv
    BY ContinuityTypesInit, ContinuityInvInit
  <1>2. TypeOK /\ ContinuityInv /\ [Next]_vars => (TypeOK /\ ContinuityInv)'
    BY StepInv
  <1> QED
    BY <1>1, <1>2, PTL DEF Spec

\* Calls, slots and stored exchanges are always related as continuity.rs needs.
THEOREM ContinuityInvariant == Spec => []ContinuityInv
  <1>1. Init => TypeOK /\ ContinuityInv
    BY ContinuityTypesInit, ContinuityInvInit
  <1>2. TypeOK /\ ContinuityInv /\ [Next]_vars => (TypeOK /\ ContinuityInv)'
    BY StepInv
  <1> QED
    BY <1>1, <1>2, PTL DEF Spec

\* Every stored exchange was answered with exactly the history that precedes it.
THEOREM AnswersAreInContext == Spec => []AnsweredInContext
  <1>1. ContinuityInv => AnsweredInContext
    BY DEF ContinuityInv, TurnIsOwn, AnsweredInContext
  <1> QED
    BY <1>1, ContinuityInvariant, PTL

------------------------------------------------------------------------------
(* One send per revision *)

LEMMA OneSendAsk ==
    ASSUME TypeOK, ContinuityInv, OneSendPerRevision, NEW h \in Chat,
           NEW c \in Thread, NEW q \in RequestId, NEW m \in Message,
           NEW revision \in 0..MaxRevision, Ask(h, c, q, revision, m)
    PROVE  OneSendPerRevision'
  <1> DEFINE row == [thread[c] EXCEPT !.pending = q]
  <1> HIDE DEF row
  <1>1. /\ Changed(c, row)
        /\ Live(thread[c])
        /\ thread[c].pending = NoRequest
        /\ thread[c].revision = revision
        /\ stage' = [stage EXCEPT ![h] = "asked"]
        /\ \A k \in Chat \ {h} : call'[k] = call[k]
        /\ call'[h].thread = c
        /\ call'[h].revision = revision
    BY AskEffect DEF row
  <1>2. \A k \in Chat \ {h} : stage'[k] = stage[k]
    BY <1>1 DEF TypeOK
  <1>3. ASSUME NEW k \in Chat \ {h}, stage[k] \in Sent, call[k].thread = c
        PROVE  call[k].revision # revision
    <2>1. AttemptIsPending(k) /\ call[k].request # NoRequest
      BY <1>3, ContinuityAssumption DEF ContinuityInv, TypeOK, CallRow
    <2>2. call[k].revision \in Nat /\ revision \in Nat
      BY ContinuityAssumption DEF TypeOK, CallRow
    <2> QED
      BY <1>1, <1>3, <2>1, <2>2 DEF AttemptIsPending
  <1> QED
    BY <1>1, <1>2, <1>3 DEF OneSendPerRevision

LEMMA OneSendStep ==
    ASSUME TypeOK, ContinuityInv, OneSendPerRevision, [Next]_vars
    PROVE  OneSendPerRevision'
  <1>1. ASSUME \A h \in Chat : stage'[h] \in Sent =>
                                stage[h] \in Sent /\ call'[h] = call[h]
        PROVE  OneSendPerRevision'
    BY <1>1 DEF OneSendPerRevision
  <1>2. ASSUME NEW h \in Chat, NEW c \in Thread, NEW q \in RequestId,
               NEW m \in Message, NEW revision \in 0..MaxRevision,
               Ask(h, c, q, revision, m)
        PROVE  OneSendPerRevision'
    BY <1>2, OneSendAsk
  <1>3. ASSUME NEW c \in Thread, NEW days \in Lifetime, Create(c, days)
        PROVE  OneSendPerRevision'
    BY <1>1, <1>3, CreateEffect
  <1>4. ASSUME NEW c \in Thread, NEW q \in RequestId, ClearAttempt(c, q)
        PROVE  OneSendPerRevision'
    BY <1>1, <1>4, ClearEffect
  <1>5. ASSUME NEW h \in Chat, Finish(h)
        PROVE  OneSendPerRevision'
    <2>1. /\ stage[h] = "asked"
          /\ stage' = [stage EXCEPT ![h] = "stored"]
          /\ call' = call
      BY <1>5, FinishEffect
    <2> QED
      BY <1>1, <2>1 DEF TypeOK, Sent
  <1>6. ASSUME Quiet
        PROVE  OneSendPerRevision'
    BY <1>1, <1>6 DEF Quiet, Sent
  <1>7. ASSUME UNCHANGED vars
        PROVE  OneSendPerRevision'
    BY <1>1, <1>7 DEF vars
  <1> QED
    BY <1>2, <1>3, <1>4, <1>5, <1>6, <1>7, Steps, QuietSteps

\* Whatever is retried, and whenever the process dies, the provider is asked at
\* most once at each revision of a conversation.
THEOREM OneSend == Spec => []OneSendPerRevision
  <1>1. Init => OneSendPerRevision
    BY DEF Init, OneSendPerRevision, Sent
  <1>2. TypeOK /\ ContinuityInv /\ OneSendPerRevision /\ [Next]_vars
        => OneSendPerRevision'
    BY OneSendStep
  <1> QED
    BY <1>1, <1>2, ContinuityTypes, ContinuityInvariant, PTL DEF Spec

------------------------------------------------------------------------------
(* The keys of the stored exchanges *)

\* The part of UniqueTurns about one conversation.
KeysOf(t) ==
    \A i, j \in DOMAIN t.turns :
        /\ i < j => /\ t.turns[i].request # t.turns[j].request
                    /\ t.turns[i].position < t.turns[j].position
        /\ t.turns[i].position <= t.revision

LEMMA EmptyKeys ==
    ASSUME NEW t, t.turns = << >>
    PROVE  KeysOf(t)
  <1>1. DOMAIN t.turns = {}
    OBVIOUS
  <1> QED
    BY <1>1 DEF KeysOf

LEMMA KeptKeys ==
    ASSUME NEW c \in Thread, KeysOf(thread[c]), Kept(c)
    PROVE  KeysOf(thread'[c])
  BY EmptyKeys, EmptyRow DEF Kept

LEMMA ExtendedKeys ==
    ASSUME NEW t \in ThreadRow, t.revision < MaxRevision, KeysOf(t),
           NEW h \in Chat, call[h] \in CallRow,
           call[h].revision = t.revision,
           StoredAt(t, call[h].request) = {}
    PROVE  KeysOf(Extended(t, h))
  <1> DEFINE e == TurnOf(h)
             s == t.turns
             x == Extended(t, h)
  <1>1. /\ e \in Turn
        /\ x.turns = Append(s, e)
        /\ x.revision = t.revision + 1
    BY ExtendedRow
  <1>2. /\ s \in Seq(Turn)
        /\ t.revision \in Nat
    BY ContinuityAssumption DEF ThreadRow
  <1>3. /\ DOMAIN x.turns = 1 .. (Len(s) + 1)
        /\ x.turns[Len(s) + 1] = e
        /\ \A i \in 1..Len(s) : x.turns[i] = s[i]
        /\ DOMAIN s = 1..Len(s)
        /\ Len(s) \in Nat
    BY <1>1, <1>2, Prefixes, LenProperties
  <1>4. e.request = call[h].request /\ e.position = t.revision + 1
    BY DEF TurnOf
  <1>5. ASSUME NEW i \in 1..Len(s)
        PROVE  /\ s[i].position \in Nat
               /\ s[i].position <= t.revision
               /\ s[i].request # e.request
    <2>1. s[i] \in Turn
      BY <1>2, ElementOfSeq
    <2>2. s[i].position \in Nat
      BY <2>1 DEF Turn
    <2>3. s[i].position <= t.revision
      BY <1>3 DEF KeysOf
    <2>4. s[i].request # e.request
      BY <1>3, <1>4 DEF StoredAt
    <2> QED
      BY <2>2, <2>3, <2>4
  <1>6. \A i, j \in 1..Len(s) :
           i < j => /\ s[i].request # s[j].request
                    /\ s[i].position < s[j].position
    BY <1>3 DEF KeysOf
  <1> HIDE DEF e, s, x
  <1>7. ASSUME NEW i \in 1 .. (Len(s) + 1), NEW j \in 1 .. (Len(s) + 1)
        PROVE  /\ i < j => /\ x.turns[i].request # x.turns[j].request
                           /\ x.turns[i].position < x.turns[j].position
               /\ x.turns[i].position <= x.revision
    <2>1. CASE i \in 1..Len(s) /\ j \in 1..Len(s)
      BY <2>1, <1>1, <1>2, <1>3, <1>5, <1>6
    <2>2. CASE i \in 1..Len(s) /\ j = Len(s) + 1
      BY <2>2, <1>1, <1>2, <1>3, <1>4, <1>5
    <2>3. CASE i = Len(s) + 1
      BY <2>3, <1>1, <1>2, <1>3, <1>4
    <2> QED
      BY <1>3, <2>1, <2>2, <2>3
  <1>8. KeysOf(x)
    BY <1>3, <1>7 DEF KeysOf
  <1> QED
    BY <1>8 DEF x

LEMMA KeysStep ==
    ASSUME TypeOK, ContinuityInv, \A c \in Thread : KeysOf(thread[c]), [Next]_vars
    PROVE  \A c \in Thread : KeysOf(thread'[c])
  <1>1. ASSUME NEW c \in Thread, NEW row, Changed(c, row), KeysOf(row)
        PROVE  \A x \in Thread : KeysOf(thread'[x])
    BY <1>1, KeptKeys DEF Changed
  <1>2. \A c \in Thread : thread[c] \in ThreadRow
    BY DEF TypeOK
  <1>3. ASSUME NEW c \in Thread, NEW days \in Lifetime, Create(c, days)
        PROVE  \A x \in Thread : KeysOf(thread'[x])
    <2> DEFINE row == [NoThread("live") EXCEPT !.expires = clock + days]
    <2>1. row.turns = << >>
      BY EmptyRow DEF ThreadRow
    <2>2. Changed(c, row)
      BY <1>3, CreateEffect
    <2> HIDE DEF row
    <2> QED
      BY <1>1, <2>1, <2>2, EmptyKeys
  <1>4. ASSUME NEW c \in Thread, NEW q \in RequestId, ClearAttempt(c, q)
        PROVE  \A x \in Thread : KeysOf(thread'[x])
    <2>1. /\ Changed(c, Freed(thread[c]))
          /\ thread[c].revision < MaxRevision
      BY <1>4, ClearEffect, ContinuityAssumption DEF ContinuityInv, SlotIsTaken
    <2>2. /\ Freed(thread[c]).turns = thread[c].turns
          /\ Freed(thread[c]).revision = thread[c].revision + 1
          /\ thread[c].revision \in Nat
      BY <1>2, <2>1, FreedRow, ContinuityAssumption DEF ThreadRow
    <2>3. \A i \in DOMAIN thread[c].turns : thread[c].turns[i].position \in Nat
      BY TurnsOf DEF Turn
    <2>4. KeysOf(Freed(thread[c]))
      <3> DEFINE f == Freed(thread[c])
      <3> HIDE DEF f
      <3>1. f.turns = thread[c].turns /\ f.revision = thread[c].revision + 1
        BY <2>2 DEF f
      <3>2. KeysOf(f)
        BY <2>2, <2>3, <3>1 DEF KeysOf
      <3> QED
        BY <3>2 DEF f
    <2> QED
      BY <1>1, <2>1, <2>4
  <1>5. ASSUME NEW h \in Chat, NEW c \in Thread, NEW q \in RequestId,
               NEW m \in Message, NEW revision \in 0..MaxRevision,
               Ask(h, c, q, revision, m)
        PROVE  \A x \in Thread : KeysOf(thread'[x])
    <2> DEFINE row == [thread[c] EXCEPT !.pending = q]
    <2>1. row.turns = thread[c].turns /\ row.revision = thread[c].revision
      BY <1>2 DEF ThreadRow
    <2>2. Changed(c, row)
      BY <1>5, AskEffect
    <2> HIDE DEF row
    <2>3. KeysOf(row)
      BY <2>1 DEF KeysOf
    <2> QED
      BY <1>1, <2>2, <2>3
  <1>6. ASSUME NEW h \in Chat, Finish(h)
        PROVE  \A x \in Thread : KeysOf(thread'[x])
    <2>1. PICK c \in Thread : c = call[h].thread
      BY <1>6, FinishEffect
    <2>2. /\ Changed(c, Extended(thread[c], h))
          /\ thread[c].revision < MaxRevision
          /\ thread[c].revision = call[h].revision
          /\ thread[c].pending = call[h].request
          /\ call[h].request # NoRequest
      BY <1>6, <2>1, FinishEffect
    <2>3. StoredAt(thread[c], call[h].request) = {}
      BY <2>2 DEF ContinuityInv, SlotIsTaken
    <2>4. KeysOf(Extended(thread[c], h))
      BY <1>2, <2>2, <2>3, ExtendedKeys DEF TypeOK
    <2> QED
      BY <1>1, <2>2, <2>4
  <1>7. ASSUME Quiet
        PROVE  \A x \in Thread : KeysOf(thread'[x])
    BY <1>7, KeptKeys DEF Quiet
  <1>8. ASSUME UNCHANGED vars
        PROVE  \A x \in Thread : KeysOf(thread'[x])
    BY <1>8 DEF vars
  <1> QED
    BY <1>3, <1>4, <1>5, <1>6, <1>7, <1>8, Steps, QuietSteps

\* Neither key of continuity_turns can reject the insert of a finished exchange.
THEOREM KeysAreUnique == Spec => []UniqueTurns
  <1> DEFINE Keys == \A c \in Thread : KeysOf(thread[c])
  <1>1. Init => Keys
    BY EmptyKeys, EmptyRow DEF Init
  <1>2. TypeOK /\ ContinuityInv /\ Keys /\ [Next]_vars => Keys'
    BY KeysStep
  <1>3. Keys => UniqueTurns
    BY DEF KeysOf, UniqueTurns
  <1> QED
    BY <1>1, <1>2, <1>3, ContinuityTypes, ContinuityInvariant, PTL DEF Spec

\* Calls, slots and stored exchanges fit together.
THEOREM ContinuityIsSafe == Spec => []ContinuitySafety
  BY ContinuityTypes, ContinuityInvariant, KeysAreUnique, PTL DEF ContinuitySafety

------------------------------------------------------------------------------
(* Replays *)

\* No chat is replayed by the step.
NoReplay ==
    \A h \in Chat : stage'[h] = "replayed" =>
        stage[h] = "replayed" /\ call'[h] = call[h]

LEMMA ReplayAsk ==
    ASSUME TypeOK, NEW h \in Chat, NEW c \in Thread, NEW q \in RequestId,
           NEW revision \in 0..MaxRevision, NEW m \in Message,
           Ask(h, c, q, revision, m)
    PROVE  CallsKept /\ NoReplay
  <1> DEFINE row == [thread[c] EXCEPT !.pending = q]
  <1> HIDE DEF row
  <1>1. /\ Changed(c, row)
        /\ stage[h] = "idle"
        /\ stage' = [stage EXCEPT ![h] = "asked"]
        /\ \A k \in Chat \ {h} : call'[k] = call[k]
    BY AskEffect DEF row
  <1>2. /\ stage'[h] = "asked"
        /\ \A k \in Chat \ {h} : stage'[k] = stage[k]
    BY <1>1 DEF TypeOK
  <1> QED
    BY <1>1, <1>2 DEF CallsKept, NoReplay, Sent

LEMMA ReplayNew ==
    ASSUME TypeOK, ContinuityInv, ReplayIsOwn, NEW h \in Chat, NEW c \in Thread,
           NEW q \in RequestId, NEW m \in Message, Replay(h, c, q, m)
    PROVE  ReplayIsOwn'
  <1>1. Pruned[c] = thread[c] /\ stage[h] = "idle" /\ stage \in [Chat -> Stage]
    BY Pruning DEF Replay, Reaches, TypeOK
  <1>2. PICK i \in StoredAt(thread[c], q) :
           /\ thread[c].turns[i].message = m
           /\ call' = [call EXCEPT ![h] = [NoCall EXCEPT
                                              !.thread = c,
                                              !.request = q,
                                              !.message = m,
                                              !.answer = thread[c].turns[i].by]]
    BY <1>1 DEF Replay
  <1> DEFINE k == thread[c].turns[i].by
             made == [NoCall EXCEPT !.thread = c, !.request = q, !.message = m,
                                    !.answer = k]
  <1>3. i \in DOMAIN thread[c].turns /\ thread[c].turns[i].request = q
    BY <1>2 DEF StoredAt
  <1>4. TurnIsOwn(c, i) /\ k \in Chat
    BY <1>3, TurnsOf DEF ContinuityInv, Turn
  <1>5. /\ stage[k] = "stored"
        /\ call[k].thread = c
        /\ call[k].request = q
        /\ call[k].message = m
    BY <1>2, <1>3, <1>4 DEF TurnIsOwn
  <1>6. made.thread = c /\ made.request = q /\ made.message = m /\ made.answer = k
    BY EmptyCall DEF CallRow
  <1> HIDE DEF k, made
  <1>7. call' = [call EXCEPT ![h] = made]
    BY <1>2 DEF made, k
  <1>8. /\ stage'[h] = "replayed"
        /\ call'[h] = made
        /\ \A g \in Chat \ {h} : stage'[g] = stage[g] /\ call'[g] = call[g]
    BY <1>1, <1>7 DEF Replay, TypeOK
  <1>9. ASSUME NEW g \in Chat, stage'[g] = "replayed", g # h
        PROVE  /\ call'[g].answer \in Chat
               /\ stage'[call'[g].answer] = "stored"
               /\ call'[call'[g].answer].thread = call'[g].thread
               /\ call'[call'[g].answer].request = call'[g].request
               /\ call'[call'[g].answer].message = call'[g].message
    BY <1>1, <1>8, <1>9 DEF ReplayIsOwn
  <1>10. /\ k # h
         /\ stage'[k] = "stored"
         /\ call'[k] = call[k]
    BY <1>1, <1>4, <1>5, <1>8
  <1> QED
    BY <1>4, <1>5, <1>6, <1>8, <1>9, <1>10 DEF ReplayIsOwn

LEMMA ReplayStep ==
    ASSUME TypeOK, ContinuityInv, ReplayIsOwn, [Next]_vars
    PROVE  ReplayIsOwn'
  <1>1. ASSUME CallsKept, NoReplay
        PROVE  ReplayIsOwn'
    BY <1>1 DEF CallsKept, NoReplay, ReplayIsOwn, Sent
  <1>2. ASSUME NEW c \in Thread, NEW days \in Lifetime, Create(c, days)
        PROVE  ReplayIsOwn'
    BY <1>1, <1>2, CreateEffect DEF CallsKept, NoReplay
  <1>3. ASSUME NEW c \in Thread, NEW q \in RequestId, ClearAttempt(c, q)
        PROVE  ReplayIsOwn'
    BY <1>1, <1>3, ClearEffect DEF CallsKept, NoReplay
  <1>4. ASSUME NEW h \in Chat, NEW c \in Thread, NEW q \in RequestId,
               NEW m \in Message, NEW revision \in 0..MaxRevision,
               Ask(h, c, q, revision, m)
        PROVE  ReplayIsOwn'
    BY <1>1, <1>4, ReplayAsk
  <1>5. ASSUME NEW h \in Chat, Finish(h)
        PROVE  ReplayIsOwn'
    <2>1. /\ stage[h] = "asked"
          /\ stage' = [stage EXCEPT ![h] = "stored"]
          /\ call' = call
      BY <1>5, FinishEffect
    <2> QED
      BY <1>1, <2>1 DEF TypeOK, CallsKept, NoReplay, Sent
  <1>6. Quiet => CallsKept
    BY DEF Quiet, CallsKept, Sent
  <1>7. ASSUME NEW h \in Chat, NEW c \in Thread, NEW q \in RequestId,
               NEW m \in Message, Replay(h, c, q, m)
        PROVE  ReplayIsOwn'
    BY <1>7, ReplayNew
  <1>8. ASSUME NEW h \in Chat, NEW c \in Thread, NEW q \in RequestId,
               NEW m \in Message, NEW revision \in 0..MaxRevision,
               Refuse(h, c, q, revision, m)
        PROVE  ReplayIsOwn'
    <2>1. NoReplay
      BY <1>8 DEF Refuse, NoReplay, TypeOK
    <2> QED
      BY <1>1, <1>6, <1>8, <2>1, QuietSteps
  <1>9. ASSUME NEW h \in Chat, Fail(h) \/ Discard(h)
        PROVE  ReplayIsOwn'
    <2>1. NoReplay
      BY <1>9 DEF Fail, Discard, NoReplay, TypeOK
    <2> QED
      BY <1>1, <1>6, <1>9, <2>1, QuietSteps
  <1>10. ASSUME (\E c \in Thread : Delete(c) \/ Revoke(c)) \/ List \/ Tick \/ Crash
         PROVE  ReplayIsOwn'
    <2>1. NoReplay
      BY <1>10 DEF Delete, Revoke, List, Tick, Crash, NoReplay
    <2> QED
      BY <1>1, <1>6, <1>10, <2>1, QuietSteps
  <1>11. ASSUME UNCHANGED vars
         PROVE  ReplayIsOwn'
    BY <1>1, <1>11 DEF vars, CallsKept, NoReplay
  <1> QED
    BY <1>2, <1>3, <1>4, <1>5, <1>7, <1>8, <1>9, <1>10, <1>11, Steps

\* A replayed reply answers the same text under the same request UUID in the
\* same conversation.
THEOREM ReplaysAreOwn == Spec => []ReplayIsOwn
  <1>1. Init => ReplayIsOwn
    BY DEF Init, ReplayIsOwn
  <1>2. TypeOK /\ ContinuityInv /\ ReplayIsOwn /\ [Next]_vars => ReplayIsOwn'
    BY ReplayStep
  <1> QED
    BY <1>1, <1>2, ContinuityTypes, ContinuityInvariant, PTL DEF Spec

------------------------------------------------------------------------------
(* Expiry *)

\* ExpiryIsFinal of one conversation.
Final(c) ==
    Live(thread[c]) /\ thread[c].expires <= clock =>
        \/ thread'[c].turns = thread[c].turns
        \/ thread'[c] = NoThread("deleted")

LEMMA ExpiryStep ==
    ASSUME TypeOK, ContinuityInv, [Next]_vars, NEW c \in Thread
    PROVE  Final(c)
  <1>1. ASSUME Kept(c)
        PROVE  Final(c)
    BY <1>1 DEF Kept, Final
  <1>2. ASSUME NEW x \in Thread, NEW row, Changed(x, row),
               x = c => row.turns = thread[c].turns
        PROVE  Final(c)
    BY <1>1, <1>2 DEF Changed, Final
  <1>3. \A x \in Thread : thread[x] \in ThreadRow
    BY DEF TypeOK
  <1>4. ASSUME NEW x \in Thread, NEW days \in Lifetime, Create(x, days)
        PROVE  Final(c)
    <2>1. /\ Changed(x, [NoThread("live") EXCEPT !.expires = clock + days])
          /\ thread[x].state = "unused"
      BY <1>4, CreateEffect
    <2>2. CASE x = c
      BY <2>1, <2>2 DEF Final, Live
    <2>3. CASE x # c
      BY <1>1, <2>1, <2>3 DEF Changed
    <2> QED
      BY <2>2, <2>3
  <1>5. ASSUME NEW x \in Thread, NEW q \in RequestId, ClearAttempt(x, q)
        PROVE  Final(c)
    <2>1. /\ Changed(x, Freed(thread[x]))
          /\ thread[x].revision < MaxRevision
      BY <1>5, ClearEffect, ContinuityAssumption DEF ContinuityInv, SlotIsTaken
    <2>2. Freed(thread[x]).turns = thread[x].turns
      BY <1>3, <2>1, FreedRow
    <2> QED
      BY <1>2, <2>1, <2>2
  <1>6. ASSUME NEW h \in Chat, NEW x \in Thread, NEW q \in RequestId,
               NEW m \in Message, NEW revision \in 0..MaxRevision,
               Ask(h, x, q, revision, m)
        PROVE  Final(c)
    <2> DEFINE row == [thread[x] EXCEPT !.pending = q]
    <2>1. row.turns = thread[x].turns
      BY <1>3 DEF ThreadRow
    <2>2. Changed(x, row)
      BY <1>6, AskEffect
    <2> HIDE DEF row
    <2> QED
      BY <1>2, <2>1, <2>2
  <1>7. ASSUME NEW h \in Chat, Finish(h)
        PROVE  Final(c)
    <2>1. PICK x \in Thread : x = call[h].thread
      BY <1>7, FinishEffect
    <2>2. /\ Changed(x, Extended(thread[x], h))
          /\ thread[x].expires > clock
      BY <1>7, <2>1, FinishEffect
    <2>3. CASE x = c
      <3>1. thread[c].expires \in Nat /\ clock \in Nat
        BY <1>3, ContinuityAssumption DEF ThreadRow, TypeOK
      <3> QED
        BY <2>2, <2>3, <3>1 DEF Final
    <2>4. CASE x # c
      BY <1>1, <2>2, <2>4 DEF Changed
    <2> QED
      BY <2>3, <2>4
  <1>8. ASSUME Quiet
        PROVE  Final(c)
    BY <1>1, <1>8 DEF Quiet
  <1>9. ASSUME UNCHANGED vars
        PROVE  Final(c)
    BY <1>9 DEF vars, Final
  <1> QED
    BY <1>4, <1>5, <1>6, <1>7, <1>8, <1>9, Steps, QuietSteps

\* From the instant a conversation expires nothing is stored in it, however long
\* its reply was on the way.
THEOREM ExpiriesAreFinal == Spec => ExpiryIsFinal
  <1>1. TypeOK /\ ContinuityInv /\ [Next]_vars
        => [\A c \in Thread : Live(thread[c]) /\ thread[c].expires <= clock =>
               \/ thread'[c].turns = thread[c].turns
               \/ thread'[c] = NoThread("deleted")]_vars
    BY ExpiryStep DEF Final
  <1> QED
    BY <1>1, ContinuityTypes, ContinuityInvariant, PTL DEF Spec, ExpiryIsFinal

------------------------------------------------------------------------------
(* Refinement *)

\* The chat in the slot is the only holder.
LEMMA SlotIsHolder ==
    ASSUME TypeOK, ContinuityInv, OneSendPerRevision,
           Live(thread[Observed]), thread[Observed].pending # NoRequest
    PROVE  /\ Slot \in Chat
           /\ \A h \in Chat : /\ stage[h] \in Sent
                              /\ call[h].thread = Observed
                              /\ call[h].revision = thread[Observed].revision
                              => Slot = h
  <1>1. SlotIsTaken(Observed)
    BY ObservedAssumption DEF ContinuityInv
  <1>2. PICK k \in Chat : /\ stage[k] \in Sent
                         /\ call[k].thread = Observed
                         /\ call[k].revision = thread[Observed].revision
    BY <1>1 DEF SlotIsTaken
  <1>3. /\ stage[k] # "stored"
        /\ call[k].request = thread[Observed].pending
    <2>1. AttemptIsPending(k)
      BY <1>2 DEF ContinuityInv
    <2>2. call[k].revision >= thread[Observed].revision
      BY <1>2, ContinuityAssumption, ObservedAssumption DEF TypeOK, CallRow
    <2> QED
      BY <1>2, <2>1, <2>2 DEF AttemptIsPending
  <1>4. k \in Holders
    BY <1>2, <1>3 DEF Holders
  <1>5. \A h \in Holders : h = k
    BY <1>2 DEF Holders, OneSendPerRevision
  <1>6. Slot = k
    BY <1>4, <1>5 DEF Slot
  <1> QED
    BY <1>2, <1>6 DEF OneSendPerRevision

LEMMA SlotIsFree ==
    ASSUME ~Live(thread[Observed]) \/ thread[Observed].pending = NoRequest
    PROVE  Slot = NoChat
  BY DEF Slot

LEMMA StoredExtended ==
    ASSUME NEW s \in Seq(Turn), NEW e \in Turn
    PROVE  Exchanges(Append(s, e)) = Append(Exchanges(s), e.by)
  <1>1. /\ DOMAIN Append(s, e) = 1 .. (Len(s) + 1)
        /\ Append(s, e)[Len(s) + 1] = e
        /\ \A i \in 1..Len(s) : Append(s, e)[i] = s[i]
        /\ Len(s) \in Nat
        /\ DOMAIN s = 1..Len(s)
    BY Prefixes, LenProperties
  <1> DEFINE x == Exchanges(s)
             a == Append(s, e)
  <1>2. x \in Seq(Chat) /\ Len(x) = Len(s) /\ DOMAIN x = 1..Len(s)
    <2>1. \A i \in 1..Len(s) : s[i] \in Turn
      BY ElementOfSeq
    <2>2. x = [i \in 1..Len(s) |-> s[i].by]
      BY <1>1 DEF Exchanges
    <2>3. [i \in 1..Len(s) |-> s[i].by] \in [1..Len(s) -> Chat]
      BY <2>1 DEF Turn
    <2>4. ASSUME NEW n \in Nat, NEW f \in [1..n -> Chat]
          PROVE  f \in Seq(Chat) /\ Len(f) = n
      OBVIOUS
    <2>5. x \in Seq(Chat) /\ Len(x) = Len(s)
      BY <1>1, <2>2, <2>3, <2>4
    <2> QED
      BY <2>5, LenProperties
  <1>3. e.by \in Chat
    BY DEF Turn
  <1>4. /\ Append(x, e.by) \in Seq(Chat)
        /\ Len(Append(x, e.by)) = Len(s) + 1
        /\ \A i \in 1..Len(s) : Append(x, e.by)[i] = x[i]
        /\ Append(x, e.by)[Len(s) + 1] = e.by
    BY <1>2, <1>3, AppendProperties
  <1>5. \A i \in 1..Len(s) : x[i] = s[i].by
    BY <1>1 DEF Exchanges
  <1>6. Append(x, e.by) = [i \in 1 .. (Len(s) + 1) |-> Append(x, e.by)[i]]
    <2>1. DOMAIN Append(x, e.by) = 1 .. (Len(s) + 1)
      BY <1>4, LenProperties
    <2>2. Append(x, e.by) \in [1 .. (Len(s) + 1) -> Chat]
      BY <1>4, <2>1, LenProperties
    <2> QED
      BY <2>2
  <1>7. \A i \in 1 .. (Len(s) + 1) : a[i].by = Append(x, e.by)[i]
    <2>1. \A i \in 1 .. (Len(s) + 1) : i \in 1..Len(s) \/ i = Len(s) + 1
      BY <1>1
    <2> QED
      BY <1>1, <1>4, <1>5, <2>1
  <1>8. Exchanges(a) = [i \in 1 .. (Len(s) + 1) |-> a[i].by]
    BY <1>1 DEF Exchanges
  <1> HIDE DEF x, a
  <1>9. Exchanges(a) = Append(x, e.by)
    BY <1>6, <1>7, <1>8
  <1> QED
    BY <1>9 DEF x, a

\* The conversation looked at is left alone or ends.
LEMMA LogKept ==
    ASSUME TypeOK, ContinuityInv, Kept(Observed), Shown' = Shown,
           thread'[Observed] = thread[Observed] => Holders' = Holders
    PROVE  [Log!LogNext]_(Log!logVars)
  <1>1. CASE thread'[Observed] = thread[Observed]
    <2>1. Stored' = Stored /\ Slot' = Slot /\ Opened' = Opened
      BY <1>1 DEF Stored, Exchanges, Slot, Opened, Live
    <2> QED
      BY <2>1 DEF Log!logVars
  <1>2. CASE Live(thread[Observed]) /\ thread'[Observed] = NoThread("deleted")
    <2>1. /\ thread'[Observed].state = "deleted"
          /\ thread'[Observed].turns = << >>
      BY <1>2, EmptyRow
    <2>2. Opened = "open" /\ Opened' = "closed" /\ Slot' = NoChat
      BY <1>2, <2>1 DEF Opened, Live, Slot
    <2>3. Stored' = << >>
      BY <2>1 DEF Stored, Exchanges
    <2> QED
      BY <2>2, <2>3 DEF Log!LogNext, Log!Close
  <1> QED
    BY <1>1, <1>2 DEF Kept

LEMMA LogInitially == Init => Log!LogInit
  <1> SUFFICES ASSUME Init PROVE Log!LogInit
    OBVIOUS
  <1>1. /\ thread[Observed].state = "unused"
        /\ thread[Observed].turns = << >>
    BY ObservedAssumption, EmptyRow DEF Init
  <1>2. Stored = << >>
    BY <1>1 DEF Stored, Exchanges
  <1>3. Slot = NoChat /\ Opened = "new"
    BY <1>1 DEF Slot, Opened, Live
  <1>4. Shown = [h \in Chat |-> << >>]
    BY DEF Init, Shown, Sent
  <1> QED
    BY <1>2, <1>3, <1>4 DEF Log!LogInit

LEMMA LogAsk ==
    ASSUME TypeOK, ContinuityInv, OneSendPerRevision, OneSendPerRevision',
           NEW h \in Chat, NEW c \in Thread, NEW q \in RequestId,
           NEW revision \in 0..MaxRevision, NEW m \in Message,
           Ask(h, c, q, revision, m)
    PROVE  [Log!LogNext]_(Log!logVars)
  <1> DEFINE row == [thread[c] EXCEPT !.pending = q]
  <1>1. /\ row.state = thread[c].state
        /\ row.revision = thread[c].revision
        /\ row.pending = q
        /\ row.turns = thread[c].turns
        /\ q # NoRequest
    BY ContinuityAssumption DEF TypeOK, ThreadRow
  <1> HIDE DEF row
  <1>2. /\ Changed(c, row)
        /\ Live(thread[c])
        /\ thread[c].pending = NoRequest
        /\ thread[c].revision = revision
        /\ stage[h] = "idle"
        /\ stage' = [stage EXCEPT ![h] = "asked"]
        /\ \A k \in Chat \ {h} : call'[k] = call[k]
        /\ call'[h].thread = c
        /\ call'[h].request = q
        /\ call'[h].revision = revision
        /\ call'[h].history = History(thread[c].turns)
    BY AskEffect DEF row
  <1>3. /\ stage'[h] = "asked"
        /\ stage'[h] \in Sent
        /\ stage[h] \notin Sent
        /\ \A k \in Chat \ {h} : stage'[k] = stage[k]
    BY <1>2 DEF TypeOK, Sent
  <1>4. thread'[c] = row /\ \A x \in Thread \ {c} : Kept(x)
    BY <1>2 DEF Changed
  <1>5. CASE c # Observed
    <2>1. Kept(Observed)
      BY <1>4, <1>5, ObservedAssumption
    <2>2. Shown' = Shown
      BY <1>2, <1>3, <1>5 DEF Shown
    <2>3. thread'[Observed] = thread[Observed] => Holders' = Holders
      BY <1>2, <1>3, <1>5 DEF Holders
    <2> QED
      BY <2>1, <2>2, <2>3, LogKept
  <1>6. CASE c = Observed
    <2>1. Opened = "open" /\ Opened' = "open" /\ Live(thread'[Observed])
      BY <1>1, <1>2, <1>4, <1>6 DEF Opened, Live
    <2>2. Slot = NoChat
      BY <1>2, <1>6, SlotIsFree
    <2>3. h \in Holders'
      BY <1>1, <1>2, <1>3, <1>4, <1>6 DEF Holders
    <2>4. \A k \in Holders' : k = h
      BY <1>1, <1>2, <1>3, <1>4, <1>6 DEF Holders, OneSendPerRevision
    <2>5. Slot' = h
      BY <1>1, <1>4, <1>6, <2>1, <2>3, <2>4 DEF Slot
    <2>6. Stored' = Stored
      BY <1>1, <1>4, <1>6 DEF Stored, Exchanges
    <2>7. call'[h].history = Log!Recent(Stored)
      BY <1>2, <1>6 DEF History, Log!Recent, Stored
    <2>8. Shown' = [Shown EXCEPT ![h] = Log!Recent(Stored)]
      <3> DEFINE r == Log!Recent(Stored)
      <3> HIDE DEF r
      <3>1. call'[h].history = r
        BY <2>7 DEF r
      <3>2. Shown' = [Shown EXCEPT ![h] = r]
        BY <1>2, <1>3, <1>6, <3>1 DEF Shown
      <3> QED
        BY <3>2 DEF r
    <2>9. Log!Ask(h)
      BY <2>1, <2>2, <2>5, <2>6, <2>8 DEF Log!Ask
    <2> QED
      BY <2>9 DEF Log!LogNext
  <1> QED
    BY <1>5, <1>6

LEMMA LogFinish ==
    ASSUME TypeOK, ContinuityInv, OneSendPerRevision, NEW h \in Chat, Finish(h)
    PROVE  [Log!LogNext]_(Log!logVars)
  <1>1. PICK c \in Thread : c = call[h].thread
    BY FinishEffect
  <1> DEFINE row == Extended(thread[c], h)
  <1>2. /\ Changed(c, row)
        /\ Live(thread[c])
        /\ thread[c].revision < MaxRevision
        /\ thread[c].revision = call[h].revision
        /\ thread[c].pending = call[h].request
        /\ call[h].request # NoRequest
        /\ stage[h] = "asked"
        /\ stage' = [stage EXCEPT ![h] = "stored"]
        /\ call' = call
    BY <1>1, FinishEffect
  <1>3. /\ TurnOf(h) \in Turn
        /\ row.state = thread[c].state
        /\ row.pending = NoRequest
        /\ row.turns = Append(thread[c].turns, TurnOf(h))
    BY <1>2, ExtendedRow DEF TypeOK
  <1> HIDE DEF row
  <1>4. /\ stage[h] \in Sent
        /\ stage'[h] \in Sent
        /\ \A k \in Chat \ {h} : stage'[k] = stage[k]
    BY <1>2 DEF TypeOK, Sent
  <1>5. thread'[c] = row /\ \A x \in Thread \ {c} : Kept(x)
    BY <1>2 DEF Changed
  <1>6. Shown' = Shown
    BY <1>2, <1>4 DEF Shown
  <1>7. CASE c # Observed
    <2>1. Kept(Observed)
      BY <1>5, <1>7, ObservedAssumption
    <2>2. thread'[Observed] = thread[Observed] => Holders' = Holders
      BY <1>1, <1>2, <1>4, <1>7 DEF Holders
    <2> QED
      BY <1>6, <2>1, <2>2, LogKept
  <1>8. CASE c = Observed
    <2>1. Opened = "open" /\ Opened' = "open"
      BY <1>2, <1>3, <1>5, <1>8 DEF Opened, Live
    <2>2. Slot = h
      BY <1>1, <1>2, <1>4, <1>8, SlotIsHolder
    <2>3. Slot' = NoChat
      BY <1>3, <1>5, <1>8 DEF Slot
    <2>4. Stored' = Append(Stored, h)
      <3>1. thread[c].turns \in Seq(Turn)
        BY TurnsOf
      <3>2. Exchanges(row.turns) = Append(Exchanges(thread[c].turns), TurnOf(h).by)
        BY <1>3, <3>1, StoredExtended
      <3>3. TurnOf(h).by = h
        BY DEF TurnOf
      <3>4. Stored' = Exchanges(row.turns)
        BY <1>5, <1>8 DEF Stored, Exchanges
      <3> QED
        BY <1>8, <3>2, <3>3, <3>4 DEF Stored
    <2>5. Log!Store
      BY <1>6, <2>1, <2>2, <2>3, <2>4, ContinuityAssumption DEF Log!Store
    <2> QED
      BY <2>5 DEF Log!LogNext
  <1> QED
    BY <1>7, <1>8

LEMMA LogClear ==
    ASSUME TypeOK, ContinuityInv, OneSendPerRevision, NEW c \in Thread,
           NEW q \in RequestId, ClearAttempt(c, q)
    PROVE  [Log!LogNext]_(Log!logVars)
  <1> DEFINE row == Freed(thread[c])
  <1>1. /\ Changed(c, row)
        /\ Live(thread[c])
        /\ thread[c].pending # NoRequest
        /\ UNCHANGED <<call, stage>>
    BY ClearEffect, ContinuityAssumption
  <1>2. /\ row.state = thread[c].state
        /\ row.pending = NoRequest
        /\ row.turns = thread[c].turns
    BY <1>1, FreedRow DEF TypeOK, ContinuityInv, SlotIsTaken
  <1> HIDE DEF row
  <1>3. thread'[c] = row /\ \A x \in Thread \ {c} : Kept(x)
    BY <1>1 DEF Changed
  <1>4. Shown' = Shown
    BY <1>1 DEF Shown
  <1>5. CASE c # Observed
    <2>1. Kept(Observed)
      BY <1>3, <1>5, ObservedAssumption
    <2>2. thread'[Observed] = thread[Observed] => Holders' = Holders
      BY <1>1 DEF Holders
    <2> QED
      BY <1>4, <2>1, <2>2, LogKept
  <1>6. CASE c = Observed
    <2>1. Opened = "open" /\ Opened' = "open"
      BY <1>1, <1>2, <1>3, <1>6 DEF Opened, Live
    <2>2. Slot # NoChat
      BY <1>1, <1>6, SlotIsHolder, ContinuityAssumption
    <2>3. Slot' = NoChat
      BY <1>2, <1>3, <1>6 DEF Slot
    <2>4. Stored' = Stored
      BY <1>2, <1>3, <1>6 DEF Stored, Exchanges
    <2>5. Log!Abandon
      BY <1>4, <2>1, <2>2, <2>3, <2>4 DEF Log!Abandon
    <2> QED
      BY <2>5 DEF Log!LogNext
  <1> QED
    BY <1>5, <1>6

LEMMA LogCreate ==
    ASSUME TypeOK, ContinuityInv, NEW c \in Thread, NEW days \in Lifetime,
           Create(c, days)
    PROVE  [Log!LogNext]_(Log!logVars)
  <1> DEFINE row == [NoThread("live") EXCEPT !.expires = clock + days]
  <1>1. /\ row.state = "live"
        /\ row.pending = NoRequest
        /\ row.turns = << >>
    BY EmptyRow DEF ThreadRow
  <1>2. /\ Changed(c, row)
        /\ thread[c].state = "unused"
        /\ UNCHANGED <<call, stage>>
    BY CreateEffect
  <1> HIDE DEF row
  <1>3. thread'[c] = row /\ \A x \in Thread \ {c} : Kept(x)
    BY <1>2 DEF Changed
  <1>4. Shown' = Shown
    BY <1>2 DEF Shown
  <1>5. CASE c # Observed
    <2>1. Kept(Observed)
      BY <1>3, <1>5, ObservedAssumption
    <2>2. thread'[Observed] = thread[Observed] => Holders' = Holders
      BY <1>2 DEF Holders
    <2> QED
      BY <1>4, <2>1, <2>2, LogKept
  <1>6. CASE c = Observed
    <2>1. Opened = "new" /\ Opened' = "open"
      BY <1>1, <1>2, <1>3, <1>6 DEF Opened, Live
    <2>2. Slot = NoChat /\ Slot' = NoChat
      BY <1>1, <1>2, <1>3, <1>6 DEF Slot, Live
    <2>3. thread[c].turns = << >>
      <3>1. thread[c] = NoThread("unused")
        BY <1>2 DEF ContinuityInv, Live
      <3> QED
        BY <3>1, EmptyRow
    <2>4. Stored' = Stored
      BY <1>1, <1>3, <1>6, <2>3 DEF Stored, Exchanges
    <2>5. Log!Create
      BY <1>4, <2>1, <2>2, <2>4 DEF Log!Create
    <2> QED
      BY <2>5 DEF Log!LogNext
  <1> QED
    BY <1>5, <1>6

LEMMA LogStep ==
    ASSUME TypeOK, ContinuityInv, OneSendPerRevision, OneSendPerRevision', [Next]_vars
    PROVE  [Log!LogNext]_(Log!logVars)
  <1>1. ASSUME Quiet
        PROVE  [Log!LogNext]_(Log!logVars)
    <2>1. ASSUME NEW h \in Chat
          PROVE  /\ stage'[h] \in Sent <=> stage[h] \in Sent
                 /\ stage'[h] \in Sent \ {"stored"} <=> stage[h] \in Sent \ {"stored"}
                 /\ stage[h] \in Sent => call'[h] = call[h]
      <3>1. /\ stage'[h] \in Sent <=> stage[h] \in Sent
            /\ stage'[h] = "stored" <=> stage[h] = "stored"
            /\ stage[h] # "idle" => call'[h] = call[h]
        BY <1>1 DEF Quiet
      <3>2. stage[h] \in Sent => stage[h] # "idle"
        BY DEF Sent
      <3> QED
        BY <3>1, <3>2
    <2>2. Kept(Observed)
      BY <1>1, ObservedAssumption DEF Quiet
    <2>3. Shown' = Shown
      <3>1. ASSUME NEW h \in Chat
            PROVE  (IF stage'[h] \in Sent /\ call'[h].thread = Observed
                    THEN call'[h].history ELSE << >>)
                   = (IF stage[h] \in Sent /\ call[h].thread = Observed
                      THEN call[h].history ELSE << >>)
        <4>1. CASE stage[h] \in Sent
          BY <2>1, <4>1
        <4>2. CASE stage[h] \notin Sent
          BY <2>1, <4>2
        <4> QED
          BY <4>1, <4>2
      <3> QED
        BY <3>1 DEF Shown
    <2>4. ASSUME thread'[Observed] = thread[Observed]
          PROVE  Holders' = Holders
      <3>1. ASSUME NEW h \in Chat
            PROVE  h \in Holders' <=> h \in Holders
        <4>1. CASE stage[h] \in Sent
          BY <2>1, <2>4, <4>1 DEF Holders
        <4>2. CASE stage[h] \notin Sent
          BY <2>1, <4>2 DEF Holders
        <4> QED
          BY <4>1, <4>2
      <3>2. Holders \subseteq Chat /\ Holders' \subseteq Chat
        BY DEF Holders
      <3> QED
        BY <3>1, <3>2
    <2> QED
      BY <2>2, <2>3, <2>4, LogKept
  <1>2. ASSUME UNCHANGED vars
        PROVE  [Log!LogNext]_(Log!logVars)
    BY <1>2 DEF vars, Log!logVars, Stored, Exchanges, Slot, Holders, Shown, Opened, Live
  <1> QED
    BY <1>1, <1>2, LogAsk, LogFinish, LogClear, LogCreate, Steps, QuietSteps

\* Preparation and completion, however far apart, amount to one exchange
\* appended to the log it was asked with: every conversation implements the
\* one-slot log.
THEOREM ConversationsAreLogs == Spec => ImplementsLog
  <1>1. TypeOK /\ ContinuityInv /\ OneSendPerRevision /\ OneSendPerRevision'
        /\ [Next]_vars => [Log!LogNext]_(Log!logVars)
    BY LogStep
  <1> QED
    BY <1>1, LogInitially, ContinuityTypes, ContinuityInvariant, OneSend, PTL
       DEF Spec, ImplementsLog, Log!LogSpec
==============================================================================
