--------------------------- MODULE DisclosureProofs ---------------------------
(* Safety of the disclosure pipeline, for every value of the constants. *)
EXTENDS Disclosure, TLAPS

------------------------------------------------------------------------------
(* Type correctness *)

\* Every owner operation keeps the vault's tables well typed.
LEMMA VaultTyped == VaultTypeOK /\ VaultNext => VaultTypeOK'
<1> SUFFICES ASSUME VaultTypeOK, VaultNext PROVE VaultTypeOK'
  OBVIOUS
<1> USE VaultAssumption DEF VaultTypeOK
<1>1. ASSUME NEW m \in Memory, NEW c \in Content, NEW st \in MemoryStatus,
             AddMemory(m, c, st)
      PROVE  VaultTypeOK'
  BY <1>1 DEF AddMemory, NewRow, MemoryRow
<1>2. ASSUME NEW m \in Memory, NEW c \in Content, NEW st \in MemoryStatus,
             UpdateMemory(m, c, st)
      PROVE  VaultTypeOK'
  <2>1. [status |-> st, content |-> c, edits |-> memory[m].edits + 1] \in MemoryRow
    BY <1>2 DEF UpdateMemory, MemoryRow
  <2>2. memory' = [memory EXCEPT ![m] =
                      [status |-> st, content |-> c, edits |-> memory[m].edits + 1]]
    BY <1>2 DEF UpdateMemory
  <2> QED
    BY <1>2, <2>1, <2>2 DEF UpdateMemory
<1>3. ASSUME NEW s \in Source, NEW ps \in SUBSET Memory, NEW c \in Content,
             AddCapture(s, ps, c)
      PROVE  VaultTypeOK'
  <2>1. NewRow("proposed", c) \in MemoryRow
    BY DEF NewRow, MemoryRow, MemoryStatus
  <2> QED
    BY <1>3, <2>1 DEF AddCapture
<1>4. ASSUME NEW m \in Memory, DeleteMemory(m) PROVE VaultTypeOK'
  BY <1>4 DEF DeleteMemory, MemoryRow
<1>5. ASSUME NEW s \in Source, DeleteSource(s) PROVE VaultTypeOK'
  <2>1. \A m \in Memory : [memory[m] EXCEPT !.status = "deleted"] \in MemoryRow
    BY DEF MemoryRow
  <2> QED
    BY <1>5, <2>1 DEF DeleteSource
<1>6. ASSUME NEW g \in Grant, NEW d \in AnyDestination, NEW sc \in SUBSET Memory,
             NEW e \in 1..MaxClock + 1, NEW h \in Client \cup {NoClient},
             CreateGrant(g, d, sc, e, h)
      PROVE  VaultTypeOK'
  BY <1>6 DEF CreateGrant, GrantRow
<1>7. ASSUME NEW g \in Grant, RevokeGrant(g) PROVE VaultTypeOK'
  BY <1>7 DEF RevokeGrant, GrantRow
<1>8. CASE EnableWork
  BY <1>8 DEF EnableWork
<1>9. ASSUME NEW c \in Client, NEW ds \in SUBSET Destination,
             NEW e \in 1..MaxClock + 1, CreateClient(c, ds, e)
      PROVE  VaultTypeOK'
  BY <1>9 DEF CreateClient, ClientRow
<1>10. ASSUME NEW c \in Client, RevokeClient(c) PROVE VaultTypeOK'
  <2>1. \A g \in Grant : [grant[g] EXCEPT !.state = "revoked"] \in GrantRow
    BY DEF GrantRow
  <2> QED
    BY <1>10, <2>1 DEF RevokeClient, ClientRow
<1>11. ASSUME NEW n \in 0..MaxRevision, NEW ts \in SUBSET Content, SavePolicy(n, ts)
       PROVE  VaultTypeOK'
  BY <1>11 DEF SavePolicy
<1>12. CASE Tick
  BY <1>12 DEF Tick
<1> QED
  BY <1>1, <1>2, <1>3, <1>4, <1>5, <1>6, <1>7, <1>8, <1>9, <1>10, <1>11, <1>12
     DEF VaultNext

\* Whatever a read selects, it is typed, in scope and confirmed.
LEMMA SelectionSound ==
    ASSUME VaultTypeOK, NEW g \in Grant, NEW rows \in SUBSET Eligible(g)
    PROVE  /\ Fitting(rows) \in Rows
           /\ Ids(Fitting(rows)) \subseteq grant[g].scope
           /\ \A m \in Ids(Fitting(rows)) : memory[m].status = "confirmed"
<1>1. Fitting(rows) \subseteq Eligible(g)
  BY DEF Fitting
<1>2. grant[g].scope \subseteq Memory /\ \A m \in Memory : memory[m] \in MemoryRow
  BY DEF VaultTypeOK, GrantRow
<1>3. Eligible(g) \in Rows
  BY <1>2 DEF Eligible, Rows
<1> QED
  BY <1>1, <1>3 DEF Eligible, Rows, Ids

\* A context snapshot is a set of typed, confirmed rows of memories in scope.
LEMMA ContextTyped ==
    ASSUME VaultTypeOK, NEW g \in Grant
    PROVE  /\ Context(g) \in Rows
           /\ Ids(Context(g)) \subseteq grant[g].scope
           /\ \A m \in Ids(Context(g)) : memory[m].status = "confirmed"
  BY SelectionSound DEF Context

\* So are the rows that match a query.
LEMMA MatchesTyped ==
    ASSUME VaultTypeOK, NEW g \in Grant, NEW ts
    PROVE  /\ Matches(g, ts) \in Rows
           /\ Ids(Matches(g, ts)) \subseteq grant[g].scope
           /\ \A m \in Ids(Matches(g, ts)) : memory[m].status = "confirmed"
<1>1. {x \in Eligible(g) : x[2].content \in ts} \in SUBSET Eligible(g)
  OBVIOUS
<1> QED
  BY <1>1, SelectionSound DEF Matches

LEMMA SnapshotTyped ==
    ASSUME TypeOK, NEW r \in Request
    PROVE  Snapshot(r) \in Rows
  <1>1. call[r].grant \in Grant \cup {NoGrant}
    BY DEF TypeOK, DisclosureTypeOK, CallRow
  <1> QED
    BY <1>1, ContextTyped DEF TypeOK, Snapshot, Rows

LEMMA VerdictTyped == \A t : Verdict(t) \in {"allowed", "managed", "local"}
  BY DEF Verdict

LEMMA RecordVerdictTyped ==
    ASSUME TypeOK, NEW r \in Request, NEW t, RecordVerdict(r, t)
    PROVE  decision' \in [Request -> DecisionRow]
  BY VerdictTyped DEF TypeOK, VaultTypeOK, DisclosureTypeOK, RecordVerdict, DecisionRow

LEMMA WriteReceiptTyped ==
    ASSUME TypeOK, NEW r \in Request, NEW rows \in Rows, WriteReceipt(r, rows)
    PROVE  receipt' \in [Request -> ReceiptRow]
  <1>1. Ids(rows) \in SUBSET Memory
    BY DEF Ids, Rows
  <1>2. [status |-> "authorized", destination |-> call[r].destination,
         grant |-> call[r].grant, memories |-> Ids(rows)] \in ReceiptRow
    BY <1>1 DEF TypeOK, DisclosureTypeOK, CallRow, ReceiptRow
  <1> QED
    BY <1>2 DEF TypeOK, DisclosureTypeOK, WriteReceipt

LEMMA HandOverTyped ==
    ASSUME TypeOK, NEW r \in Request, NEW rows \in Rows, HandOver(r, rows)
    PROVE  wire' \in [Request -> WireRow]
  <1>1. [handed |-> TRUE, destination |-> call[r].destination,
         prompt |-> call[r].prompt, body |-> rows] \in WireRow
    BY DEF TypeOK, DisclosureTypeOK, CallRow, WireRow
  <1> QED
    BY <1>1 DEF TypeOK, DisclosureTypeOK, HandOver

LEMMA SelectedTyped ==
    ASSUME TypeOK, NEW r \in Request, NEW rows \in Rows,
           call' = [call EXCEPT ![r].selected = rows]
    PROVE  call' \in [Request -> CallRow]
  BY DEF TypeOK, DisclosureTypeOK, CallRow

LEMMA SettleTyped ==
    ASSUME TypeOK, NEW r \in Request,
           NEW status \in {"sent", "send_failed_or_partial"}, Settle(r, status)
    PROVE  TypeOK'
  <1>1. \A st \in {"sent", "send_failed_or_partial"} :
            [receipt[r] EXCEPT !.status = st] \in ReceiptRow
    BY DEF TypeOK, DisclosureTypeOK, ReceiptRow
  <1>2. receipt' \in [Request -> ReceiptRow]
    BY <1>1 DEF Settle, TypeOK, DisclosureTypeOK
  <1>3. stage' \in [Request -> Stage]
    BY DEF Settle, Goto, TypeOK, DisclosureTypeOK, Stage
  <1>4. VaultTypeOK'
    BY DEF Settle, TypeOK, VaultTypeOK, vaultVars, MemoryRow, GrantRow, ClientRow,
           AnyDestination
  <1> QED
    BY <1>2, <1>3, <1>4 DEF Settle, TypeOK, DisclosureTypeOK

LEMMA InitTyped == Init => TypeOK
<1> SUFFICES ASSUME Init PROVE TypeOK
  OBVIOUS
<1>1. NoText \in Content
  BY VaultAssumption DEF NoText
<1>2. VaultTypeOK
  <2>1. [status |-> "unused", content |-> NoText, edits |-> 0] \in MemoryRow
    BY <1>1, VaultAssumption DEF MemoryRow
  <2>2. [state |-> "unused", destination |-> McpDestination, scope |-> {},
         expires |-> 0, holder |-> NoClient] \in GrantRow
    BY VaultAssumption DEF GrantRow, AnyDestination
  <2>3. [state |-> "unused", destinations |-> {}, expires |-> 0] \in ClientRow
    BY VaultAssumption DEF ClientRow
  <2>4. 0 \in 0..MaxRevision /\ 0 \in 0..MaxClock
    BY VaultAssumption
  <2>5. Init => VaultInit
    BY DEF Init
  <2> QED
    BY <2>1, <2>2, <2>3, <2>4, <2>5 DEF VaultInit, VaultTypeOK
<1>3. DisclosureTypeOK
  BY <1>1, VaultAssumption
     DEF Init, DisclosureTypeOK, Stage, CallRow, DecisionRow, ReceiptRow, WireRow,
         Principal, AnyDestination, Rows
<1> QED
  BY <1>2, <1>3 DEF TypeOK

\* A step of one request leaves the vault alone and keeps its own rows typed.
LEMMA HandlerTyped ==
    ASSUME TypeOK, NEW r \in Request, Handler(r) \/ Drop(r)
    PROVE  TypeOK'
<1>0. UNCHANGED vaultVars => VaultTypeOK'
  BY DEF TypeOK, VaultTypeOK, vaultVars, MemoryRow, GrantRow, ClientRow, AnyDestination
<1>1. CASE SelectContext(r)
  BY <1>0, <1>1, SnapshotTyped, SelectedTyped
     DEF SelectContext, Goto, TypeOK, DisclosureTypeOK, Stage
<1>2. CASE SelectDenied(r)
  BY <1>0, <1>2 DEF SelectDenied, Goto, TypeOK, DisclosureTypeOK, Stage
<1>3. CASE Inspect(r)
  BY <1>0, <1>3, RecordVerdictTyped DEF Inspect, Goto, TypeOK, DisclosureTypeOK, Stage
<1>4. CASE Malformed(r)
  BY <1>0, <1>4 DEF Malformed, Goto, TypeOK, DisclosureTypeOK, Stage
<1>5. CASE Clear(r) \/ ClearDenied(r)
  BY <1>0, <1>5 DEF Clear, ClearDenied, Goto, TypeOK, DisclosureTypeOK, Stage
<1>6. CASE Revalidate(r)
  <2>1. call[r].selected \in Rows
    BY DEF TypeOK, DisclosureTypeOK, CallRow
  <2> QED
    BY <1>0, <1>6, <2>1, WriteReceiptTyped
       DEF Revalidate, Goto, TypeOK, DisclosureTypeOK, Stage
<1>7. CASE RevalidateDenied(r)
  BY <1>0, <1>7 DEF RevalidateDenied, Goto, TypeOK, DisclosureTypeOK, Stage
<1>8. CASE Journal(r) \/ JournalFails(r)
  BY <1>0, <1>8 DEF Journal, JournalFails, Goto, TypeOK, DisclosureTypeOK, Stage
<1>9. CASE Send(r)
  <2>1. call[r].selected \in Rows
    BY DEF TypeOK, DisclosureTypeOK, CallRow
  <2> QED
    BY <1>0, <1>9, <2>1, HandOverTyped
       DEF Send, Goto, TypeOK, DisclosureTypeOK, Stage
<1>10. CASE SendOk(r) \/ SendError(r)
  BY <1>10, SettleTyped DEF SendOk, SendError
<1>11. CASE SearchDenied(r)
  BY <1>0, <1>11 DEF SearchDenied, Goto, TypeOK, DisclosureTypeOK, Stage
<1>12. ASSUME NEW ts \in SUBSET Content, MemorySearch(r, ts)
       PROVE  TypeOK'
  <2> DEFINE found == Matches(call[r].grant, ts)
  <2>1. found \in Rows
    <3>1. call[r].grant \in Grant
      BY <1>12 DEF MemorySearch, TypeOK, DisclosureTypeOK, CallRow
    <3> QED
      BY <3>1, MatchesTyped DEF TypeOK
  <2>2. call' = [call EXCEPT ![r].selected = found] /\ UNCHANGED vaultVars
    BY <1>12 DEF MemorySearch
  <2>3. decision' \in [Request -> DecisionRow]
    BY <1>12, RecordVerdictTyped DEF MemorySearch
  <2>4. receipt' \in [Request -> ReceiptRow] /\ wire' \in [Request -> WireRow]
    <3>1. CASE WriteReceipt(r, found) /\ HandOver(r, found)
      BY <2>1, <3>1, WriteReceiptTyped, HandOverTyped
    <3>2. CASE UNCHANGED <<receipt, wire>>
      BY <3>2 DEF TypeOK, DisclosureTypeOK
    <3> QED
      BY <1>12, <3>1, <3>2 DEF MemorySearch
  <2>5. stage' \in [Request -> Stage]
    BY <1>12 DEF MemorySearch, Goto, TypeOK, DisclosureTypeOK, Stage
  <2>6. call' \in [Request -> CallRow]
    BY <2>1, <2>2, SelectedTyped
  <2> QED
    BY <1>0, <2>2, <2>3, <2>4, <2>5, <2>6 DEF TypeOK, DisclosureTypeOK
<1>13. CASE Drop(r)
  BY <1>0, <1>13 DEF Drop, Goto, TypeOK, DisclosureTypeOK, Stage
<1> QED
  BY <1>1, <1>2, <1>3, <1>4, <1>5, <1>6, <1>7, <1>8, <1>9, <1>10, <1>11, <1>12,
     <1>13 DEF Handler

LEMMA NextTyped == TypeOK /\ [Next]_vars => TypeOK'
<1> SUFFICES ASSUME TypeOK, [Next]_vars PROVE TypeOK'
  OBVIOUS
<1>0. UNCHANGED vaultVars => VaultTypeOK'
  BY DEF TypeOK, VaultTypeOK, vaultVars, MemoryRow, GrantRow, ClientRow, AnyDestination
<1>1. CASE VaultStep
  BY <1>1, VaultTyped DEF VaultStep, requestVars, TypeOK, DisclosureTypeOK
<1>2. ASSUME NEW r \in Request, NEW p \in Principal, NEW d \in AnyDestination,
             NEW g \in Grant \cup {NoGrant}, NEW c \in Content, Admit(r, p, d, g, c)
      PROVE  TypeOK'
  BY <1>0, <1>2 DEF Admit, Goto, TypeOK, DisclosureTypeOK, Stage, CallRow, Rows
<1>3. ASSUME NEW r \in Request, Handler(r) \/ Drop(r) PROVE TypeOK'
  BY <1>3, HandlerTyped
<1>4. CASE Crash
  BY <1>0, <1>4 DEF Crash, TypeOK, DisclosureTypeOK, Stage, Final
<1>5. CASE UNCHANGED vars
  BY <1>0, <1>5 DEF vars, requestVars, TypeOK, DisclosureTypeOK
<1> QED
  BY <1>1, <1>2, <1>3, <1>4, <1>5 DEF Next

\* Every reachable state is well typed.
THEOREM TypeInvariant == Spec => []TypeOK
<1>1. Init => TypeOK
  BY InitTyped
<1>2. TypeOK /\ [Next]_vars => TypeOK'
  BY NextTyped
<1> QED
  BY <1>1, <1>2, PTL DEF Spec

------------------------------------------------------------------------------
(* What owner operations leave alone *)

\* An issued grant keeps its terms; only its state may become "revoked".
LEMMA GrantStable ==
    ASSUME VaultTypeOK, VaultNext, NEW g \in Grant, grant[g].state # "unused"
    PROVE  /\ grant'[g].state # "unused"
           /\ grant'[g].destination = grant[g].destination
           /\ grant'[g].scope = grant[g].scope
           /\ grant'[g].holder = grant[g].holder
<1>1. ASSUME NEW h \in Grant, RevokeGrant(h)
      PROVE  /\ grant'[g].state # "unused"
             /\ grant'[g].destination = grant[g].destination
             /\ grant'[g].scope = grant[g].scope
             /\ grant'[g].holder = grant[g].holder
  BY <1>1 DEF RevokeGrant, VaultTypeOK, GrantRow
<1>2. ASSUME NEW c \in Client, RevokeClient(c)
      PROVE  /\ grant'[g].state # "unused"
             /\ grant'[g].destination = grant[g].destination
             /\ grant'[g].scope = grant[g].scope
             /\ grant'[g].holder = grant[g].holder
  <2>1. grant'[g] = grant[g] \/ grant'[g] = [grant[g] EXCEPT !.state = "revoked"]
    BY <1>2 DEF RevokeClient
  <2>2. grant[g] \in GrantRow
    BY DEF VaultTypeOK
  <2> QED
    BY <2>1, <2>2 DEF GrantRow
<1>3. ASSUME NEW h \in Grant, NEW d \in AnyDestination, NEW sc \in SUBSET Memory,
             NEW e \in 1..MaxClock + 1, NEW k \in Client \cup {NoClient},
             CreateGrant(h, d, sc, e, k)
      PROVE  grant'[g] = grant[g]
  BY <1>3 DEF CreateGrant, VaultTypeOK
<1>4. ASSUME UNCHANGED grant
      PROVE  grant'[g] = grant[g]
  BY <1>4
<1>5. \/ UNCHANGED grant
      \/ \E h \in Grant : RevokeGrant(h)
      \/ \E c \in Client : RevokeClient(c)
      \/ \E h \in Grant, d \in AnyDestination, sc \in SUBSET Memory,
            e \in 1..MaxClock + 1, k \in Client \cup {NoClient} :
            CreateGrant(h, d, sc, e, k)
  BY DEF VaultNext, AddMemory, UpdateMemory, AddCapture, DeleteMemory, DeleteSource,
         EnableWork, CreateClient, SavePolicy, Tick
<1> QED
  BY <1>1, <1>2, <1>3, <1>4, <1>5

\* Policy revisions only grow, and a past revision never changes.
LEMMA PolicyStable ==
    ASSUME VaultTypeOK, VaultNext
    PROVE  /\ revision' \in Nat /\ revision <= revision'
           /\ \A n \in 0..revision : blocked'[n] = blocked[n]
<1>1. ASSUME NEW n \in 0..MaxRevision, NEW ts \in SUBSET Content, SavePolicy(n, ts)
      PROVE  /\ revision' \in Nat /\ revision <= revision'
             /\ \A k \in 0..revision : blocked'[k] = blocked[k]
  BY <1>1, VaultAssumption DEF SavePolicy, VaultTypeOK
<1>2. UNCHANGED <<revision, blocked>> \/
      \E n \in 0..MaxRevision, ts \in SUBSET Content : SavePolicy(n, ts)
  BY DEF VaultNext, AddMemory, UpdateMemory, AddCapture, DeleteMemory, DeleteSource,
         CreateGrant, RevokeGrant, EnableWork, CreateClient, RevokeClient, Tick
<1>3. ASSUME UNCHANGED <<revision, blocked>>
      PROVE  /\ revision' \in Nat /\ revision <= revision'
             /\ \A k \in 0..revision : blocked'[k] = blocked[k]
  <2>1. revision \in Nat
    BY VaultAssumption DEF VaultTypeOK
  <2> QED
    BY <1>3, <2>1
<1> QED
  BY <1>1, <1>2, <1>3

------------------------------------------------------------------------------
(* The pipeline invariant *)

\* An owner operation keeps what a handler established.
LEMMA VaultKeepsRequest ==
    ASSUME TypeOK, VaultStep, NEW r \in Request, RequestInv(r)
    PROVE  RequestInv(r)'
<1>1. VaultTypeOK /\ VaultNext /\ UNCHANGED <<stage, call, decision, receipt, wire>>
  BY DEF TypeOK, VaultStep, requestVars
<1>2. decision[r].revision \in 0..revision /\ revision \in Nat
  BY DEF TypeOK, DisclosureTypeOK, VaultTypeOK, RequestInv, DecisionRow
<1>3. call[r].grant \in Grant \cup {NoGrant}
  BY DEF TypeOK, DisclosureTypeOK, CallRow
<1>4. Inspected(r) => Inspected(r)'
  BY <1>1, <1>2, PolicyStable DEF Inspected, Body
<1>5. Receipted(r) => Receipted(r)'
  BY <1>1, <1>3, GrantStable DEF Receipted
<1>6. OwnGrant(r) => OwnGrant(r)'
  BY <1>1, <1>3, GrantStable DEF OwnGrant
<1>7. decision'[r].revision <= revision'
  <2>1. revision' \in Nat /\ revision <= revision'
    BY <1>1, PolicyStable
  <2>2. decision'[r].revision = decision[r].revision
    BY <1>1
  <2> QED
    BY <1>2, <2>1, <2>2
<1>8. /\ stage'[r] = stage[r] /\ call'[r] = call[r] /\ receipt'[r] = receipt[r]
      /\ wire'[r] = wire[r]
  BY <1>1
<1> QED
  BY <1>4, <1>5, <1>6, <1>7, <1>8 DEF RequestInv

\* So does a step of another request.
LEMMA OtherKeepsRequest ==
    ASSUME NEW r \in Request, RequestInv(r), UNCHANGED vaultVars,
           stage'[r] = stage[r], call'[r] = call[r], decision'[r] = decision[r],
           receipt'[r] = receipt[r], wire'[r] = wire[r]
    PROVE  RequestInv(r)'
  BY DEF RequestInv, Receipted, Inspected, OwnGrant, Body, vaultVars

LEMMA AdmitKeeps ==
    ASSUME TypeOK, NEW r \in Request, RequestInv(r), NEW p \in Principal,
           NEW d \in AnyDestination, NEW g \in Grant \cup {NoGrant},
           NEW c \in Content, Admit(r, p, d, g, c)
    PROVE  RequestInv(r)'
<1>1. /\ stage[r] = "idle" /\ stage'[r] = "admitted"
      /\ call'[r].principal = p /\ call'[r].destination = d
      /\ UNCHANGED <<vaultVars, decision, receipt, wire>>
      /\ d = McpDestination => p \notin Client
  BY DEF Admit, Goto, TypeOK, DisclosureTypeOK
<1> QED
  BY <1>1 DEF RequestInv, vaultVars

\* The snapshot is taken under a grant that stands and is the client's own.
LEMMA SelectKeeps ==
    ASSUME TypeOK, NEW r \in Request, RequestInv(r), SelectContext(r)
    PROVE  RequestInv(r)'
<1>1. /\ stage[r] = "admitted" /\ stage'[r] = "selected"
      /\ call[r].destination # McpDestination
      /\ call'[r].principal = call[r].principal
      /\ call'[r].grant = call[r].grant
      /\ call'[r].destination = call[r].destination
      /\ UNCHANGED <<vaultVars, decision, receipt, wire>>
  BY DEF SelectContext, Goto, TypeOK, DisclosureTypeOK, CallRow
<1>2. OwnGrant(r)'
  <2>1. AuthorizePrincipal(call[r].principal, call[r].destination, call[r].grant)
        /\ GrantStands(r)
    BY DEF SelectContext
  <2> QED
    BY <1>1, <2>1, VaultAssumption
       DEF OwnGrant, AuthorizePrincipal, GrantStands, GrantPermits, vaultVars
<1> QED
  BY <1>1, <1>2 DEF RequestInv, vaultVars

\* A body goes on only when the recorded verdict covers all of it.
LEMMA InspectKeeps ==
    ASSUME TypeOK, NEW r \in Request, RequestInv(r), Inspect(r)
    PROVE  RequestInv(r)'
<1>1. /\ stage[r] = "selected"
      /\ stage'[r] = IF Verdict(Body(r)) = "allowed" THEN "inspected" ELSE "denied"
      /\ decision'[r].verdict = Verdict(Body(r))
      /\ decision'[r].revision = revision
      /\ UNCHANGED <<vaultVars, call, receipt, wire>>
  BY DEF Inspect, RecordVerdict, Goto, TypeOK, DisclosureTypeOK
<1>2. Verdict(Body(r)) = "allowed" => Inspected(r)'
  BY <1>1 DEF Verdict, Inspected, Body, vaultVars
<1>3. (decision[r].revision <= revision)'
  BY <1>1 DEF vaultVars, TypeOK, VaultTypeOK
<1>4. OwnGrant(r) => OwnGrant(r)'
  BY <1>1 DEF OwnGrant, vaultVars
<1> QED
  BY <1>1, <1>2, <1>3, <1>4 DEF RequestInv

\* The receipt describes the snapshot, which is the context of the moment.
LEMMA RevalidateKeeps ==
    ASSUME TypeOK, NEW r \in Request, RequestInv(r), Revalidate(r)
    PROVE  RequestInv(r)'
<1>1. /\ stage[r] = "cleared" /\ stage'[r] = "receipted"
      /\ UNCHANGED <<vaultVars, call, decision, wire>>
  BY DEF Revalidate, Goto, TypeOK, DisclosureTypeOK
<1>2. CASE call[r].selected = {}
  <2>1. receipt' = receipt
    BY <1>2 DEF Revalidate
  <2> QED
    BY <1>1, <1>2, <2>1
       DEF RequestInv, Receipted, Inspected, OwnGrant, Body, vaultVars
<1>3. CASE call[r].selected # {}
  <2>1. receipt'[r] = [status |-> "authorized",
                       destination |-> call[r].destination,
                       grant |-> call[r].grant,
                       memories |-> Ids(call[r].selected)]
    BY <1>3 DEF Revalidate, WriteReceipt, TypeOK, DisclosureTypeOK
  <2>2. /\ call[r].grant \in Grant
        /\ call[r].selected = Context(call[r].grant)
        /\ GrantPermits(call[r].grant, call[r].destination)
    BY <1>3 DEF Revalidate, Snapshot, GrantStands, TypeOK, DisclosureTypeOK, CallRow
  <2>3. Ids(call[r].selected) \subseteq grant[call[r].grant].scope
    BY <2>2, ContextTyped DEF TypeOK
  <2>4. Receipted(r)'
    BY <1>1, <2>1, <2>2, <2>3 DEF Receipted, GrantPermits, vaultVars
  <2>5. Inspected(r) => Inspected(r)'
    BY <1>1 DEF Inspected, Body, vaultVars
  <2>6. UNCHANGED revision
    BY <1>1 DEF vaultVars
  <2> QED
    BY <1>1, <2>1, <2>4, <2>5, <2>6 DEF RequestInv
<1> QED
  BY <1>2, <1>3

LEMMA SendKeeps ==
    ASSUME TypeOK, NEW r \in Request, RequestInv(r), Send(r)
    PROVE  RequestInv(r)'
<1>1. /\ stage[r] = "journaled" /\ stage'[r] = "sending"
      /\ wire'[r] = [handed |-> TRUE, destination |-> call[r].destination,
                     prompt |-> call[r].prompt, body |-> call[r].selected]
      /\ UNCHANGED <<vaultVars, call, decision, receipt>>
  BY DEF Send, HandOver, Goto, TypeOK, DisclosureTypeOK
<1>2. Inspected(r) => Inspected(r)'
  BY <1>1 DEF Inspected, Body, vaultVars
<1>3. Receipted(r) => Receipted(r)'
  BY <1>1 DEF Receipted, vaultVars
<1>4. UNCHANGED revision
  BY <1>1 DEF vaultVars
<1> QED
  BY <1>1, <1>2, <1>3, <1>4 DEF RequestInv

LEMMA SettleKeeps ==
    ASSUME TypeOK, NEW r \in Request, RequestInv(r),
           NEW status \in {"sent", "send_failed_or_partial"}, Settle(r, status)
    PROVE  RequestInv(r)'
<1>1. /\ stage[r] = "sending"
      /\ stage'[r] = IF status = "sent" THEN "answered" ELSE "failed"
      /\ UNCHANGED <<vaultVars, call, decision, wire>>
  BY DEF Settle, Goto, TypeOK, DisclosureTypeOK
<1>2. \/ receipt'[r] = receipt[r] /\ receipt[r].status = "none"
      \/ /\ receipt'[r].status = status
         /\ receipt[r].status # "none"
         /\ receipt'[r].destination = receipt[r].destination
         /\ receipt'[r].grant = receipt[r].grant
         /\ receipt'[r].memories = receipt[r].memories
  BY DEF Settle, TypeOK, DisclosureTypeOK, ReceiptRow
<1>3. Inspected(r) => Inspected(r)'
  BY <1>1 DEF Inspected, Body, vaultVars
<1>4. receipt[r].status # "none" => Receipted(r)'
  BY <1>1, <1>2 DEF Receipted, RequestInv, vaultVars
<1>5. UNCHANGED revision
  BY <1>1 DEF vaultVars
<1> QED
  BY <1>1, <1>2, <1>3, <1>4, <1>5 DEF RequestInv

\* A search answers, records and is judged on the very same rows.
LEMMA SearchKeeps ==
    ASSUME TypeOK, NEW r \in Request, RequestInv(r), NEW ts \in SUBSET Content,
           MemorySearch(r, ts)
    PROVE  RequestInv(r)'
<1> DEFINE found == Matches(call[r].grant, ts)
           texts == {call[r].prompt} \cup Texts(found)
<1>1. /\ stage[r] = "admitted"
      /\ stage'[r] = IF Verdict(texts) = "allowed" THEN "answered" ELSE "denied"
      /\ UNCHANGED vaultVars
      /\ decision'[r].verdict = Verdict(texts)
      /\ decision'[r].revision = revision
  BY DEF MemorySearch, RecordVerdict, Goto, TypeOK, DisclosureTypeOK
<1>2. /\ call'[r].selected = found
      /\ call'[r].grant = call[r].grant
      /\ call'[r].destination = call[r].destination
      /\ call'[r].prompt = call[r].prompt
      /\ call'[r].principal = call[r].principal
  BY DEF MemorySearch, TypeOK, DisclosureTypeOK, CallRow
<1>3. (decision[r].revision <= revision)'
  BY <1>1 DEF vaultVars, TypeOK, VaultTypeOK
<1>4. CASE Verdict(texts) = "allowed"
  <2>1. /\ receipt'[r] = [status |-> "authorized",
                          destination |-> call[r].destination,
                          grant |-> call[r].grant,
                          memories |-> Ids(found)]
        /\ wire'[r] = [handed |-> TRUE, destination |-> call[r].destination,
                       prompt |-> call[r].prompt, body |-> found]
    BY <1>4 DEF MemorySearch, WriteReceipt, HandOver, TypeOK, DisclosureTypeOK
  <2>2. call[r].grant \in Grant /\ GrantPermits(call[r].grant, call[r].destination)
    BY DEF MemorySearch, GrantStands, TypeOK, DisclosureTypeOK, CallRow
  <2>3. Ids(found) \subseteq grant[call[r].grant].scope
    BY <2>2, MatchesTyped DEF TypeOK
  <2>4. Receipted(r)'
    BY <1>1, <1>2, <2>1, <2>2, <2>3 DEF Receipted, GrantPermits, vaultVars
  <2>5. Inspected(r)'
    BY <1>1, <1>2, <1>4 DEF Inspected, Body, Verdict, vaultVars
  <2> QED
    BY <1>1, <1>2, <1>3, <1>4, <2>1, <2>4, <2>5 DEF RequestInv
<1>5. CASE Verdict(texts) # "allowed"
  <2>1. UNCHANGED <<receipt, wire>>
    BY <1>5 DEF MemorySearch
  <2> QED
    BY <1>1, <1>2, <1>3, <1>5, <2>1 DEF RequestInv
<1> QED
  BY <1>4, <1>5

\* Refusals, failures before the send and a dropped future only move the stage.
LEMMA StageKeeps ==
    ASSUME TypeOK, NEW r \in Request, RequestInv(r),
           UNCHANGED <<vaultVars, call, decision, receipt, wire>>,
           \/ stage[r] = "inspected" /\ stage'[r] = "cleared"
           \/ stage[r] = "receipted" /\ stage'[r] = "journaled"
           \/ stage[r] \notin Final /\ stage'[r] \in {"denied", "dropped", "lost"}
           \/ /\ stage[r] \in {"selected", "receipted"}
              /\ stage'[r] = "failed"
    PROVE  RequestInv(r)'
<1>1. Inspected(r) => Inspected(r)'
  BY DEF Inspected, Body, vaultVars
<1>2. Receipted(r) => Receipted(r)'
  BY DEF Receipted, vaultVars
<1>3. OwnGrant(r) => OwnGrant(r)'
  BY DEF OwnGrant, vaultVars
<1>4. UNCHANGED revision
  BY DEF vaultVars
<1> QED
  BY <1>1, <1>2, <1>3, <1>4 DEF RequestInv, Final

LEMMA HandlerKeeps ==
    ASSUME TypeOK, NEW r \in Request, RequestInv(r), Handler(r) \/ Drop(r)
    PROVE  RequestInv(r)'
<1>1. CASE SelectContext(r)
  BY <1>1, SelectKeeps
<1>2. CASE Inspect(r)
  BY <1>2, InspectKeeps
<1>3. CASE Revalidate(r)
  BY <1>3, RevalidateKeeps
<1>4. CASE Send(r)
  BY <1>4, SendKeeps
<1>5. CASE SendOk(r) \/ SendError(r)
  BY <1>5, SettleKeeps DEF SendOk, SendError
<1>6. CASE \E ts \in SUBSET Content : MemorySearch(r, ts)
  BY <1>6, SearchKeeps
<1>7. CASE SelectDenied(r) \/ SearchDenied(r) \/ ClearDenied(r) \/ RevalidateDenied(r)
  BY <1>7, StageKeeps
     DEF SelectDenied, SearchDenied, ClearDenied, RevalidateDenied, Goto, Final, TypeOK,
         DisclosureTypeOK
<1>8. CASE Malformed(r) \/ JournalFails(r) \/ Drop(r)
  BY <1>8, StageKeeps
     DEF Malformed, JournalFails, Drop, Goto, Final, TypeOK, DisclosureTypeOK
<1>9. CASE Clear(r) \/ Journal(r)
  BY <1>9, StageKeeps DEF Clear, Journal, Goto, TypeOK, DisclosureTypeOK
<1> QED
  BY <1>1, <1>2, <1>3, <1>4, <1>5, <1>6, <1>7, <1>8, <1>9 DEF Handler

\* A handler's step touches the rows of its own request only.
LEMMA HandlerLocal ==
    ASSUME TypeOK, NEW r \in Request, Handler(r) \/ Drop(r),
           NEW q \in Request, q # r
    PROVE  /\ UNCHANGED vaultVars
           /\ stage'[q] = stage[q] /\ call'[q] = call[q]
           /\ decision'[q] = decision[q]
           /\ receipt'[q] = receipt[q] /\ wire'[q] = wire[q]
<1> USE DEF TypeOK, DisclosureTypeOK, Goto
<1>1. CASE SelectContext(r) \/ SelectDenied(r) \/ SearchDenied(r) \/ Malformed(r)
  BY <1>1 DEF SelectContext, SelectDenied, SearchDenied, Malformed
<1>2. CASE Inspect(r)
  BY <1>2 DEF Inspect, RecordVerdict
<1>3. CASE Clear(r) \/ ClearDenied(r) \/ RevalidateDenied(r)
  BY <1>3 DEF Clear, ClearDenied, RevalidateDenied
<1>4. CASE Revalidate(r)
  BY <1>4 DEF Revalidate, WriteReceipt
<1>5. CASE Journal(r) \/ JournalFails(r) \/ Drop(r)
  BY <1>5 DEF Journal, JournalFails, Drop
<1>6. CASE Send(r)
  BY <1>6 DEF Send, HandOver
<1>7. CASE SendOk(r) \/ SendError(r)
  BY <1>7 DEF SendOk, SendError, Settle
<1>8. ASSUME NEW ts \in SUBSET Content, MemorySearch(r, ts)
      PROVE  /\ UNCHANGED vaultVars
             /\ stage'[q] = stage[q] /\ call'[q] = call[q]
             /\ decision'[q] = decision[q]
             /\ receipt'[q] = receipt[q] /\ wire'[q] = wire[q]
  BY <1>8 DEF MemorySearch, RecordVerdict, WriteReceipt, HandOver
<1> QED
  BY <1>1, <1>2, <1>3, <1>4, <1>5, <1>6, <1>7, <1>8 DEF Handler

LEMMA PipelineStart == Init => PipelineInv
<1> SUFFICES ASSUME Init, NEW r \in Request PROVE RequestInv(r)
  BY DEF PipelineInv
<1>1. revision = 0
  BY DEF Init, VaultInit
<1>2. decision[r].revision = 0
  BY DEF Init
<1> QED
  BY <1>1, <1>2 DEF Init, RequestInv

LEMMA PipelineStep ==
    ASSUME TypeOK, PipelineInv, [Next]_vars, NEW q \in Request
    PROVE  RequestInv(q)'
<1>0. RequestInv(q)
  BY DEF PipelineInv
<1>1. CASE VaultStep
  BY <1>0, <1>1, VaultKeepsRequest
<1>2. ASSUME NEW r \in Request, NEW p \in Principal, NEW d \in AnyDestination,
             NEW g \in Grant \cup {NoGrant}, NEW c \in Content, Admit(r, p, d, g, c)
      PROVE  RequestInv(q)'
  <2>1. CASE r = q
    BY <1>0, <1>2, <2>1, AdmitKeeps
  <2>2. CASE r # q
    BY <1>0, <1>2, <2>2, OtherKeepsRequest
       DEF Admit, Goto, TypeOK, DisclosureTypeOK
  <2> QED
    BY <2>1, <2>2
<1>3. ASSUME NEW r \in Request, Handler(r) \/ Drop(r)
      PROVE  RequestInv(q)'
  <2>1. CASE r = q
    BY <1>0, <1>3, <2>1, HandlerKeeps
  <2>2. CASE r # q
    BY <1>0, <1>3, <2>2, HandlerLocal, OtherKeepsRequest
  <2> QED
    BY <2>1, <2>2
<1>4. CASE Crash
  <2>1. CASE stage[q] \in Final \cup {"idle"}
    BY <1>0, <1>4, <2>1, OtherKeepsRequest DEF Crash
  <2>2. CASE stage[q] \notin Final \cup {"idle"}
    BY <1>0, <1>4, <2>2, StageKeeps DEF Crash
  <2> QED
    BY <2>1, <2>2
<1>5. CASE UNCHANGED vars
  BY <1>0, <1>5, OtherKeepsRequest DEF vars, requestVars
<1> QED
  BY <1>1, <1>2, <1>3, <1>4, <1>5 DEF Next

\* Every handler's knowledge of its request is true at every stage.
THEOREM PipelineInvariant == Spec => []PipelineInv
<1>1. Init => PipelineInv
  BY PipelineStart
<1>2. TypeOK /\ PipelineInv /\ [Next]_vars => PipelineInv'
  BY PipelineStep DEF PipelineInv
<1> QED
  BY <1>1, <1>2, TypeInvariant, PTL DEF Spec

\* Context never leaves without a receipt that accounts for it.
THEOREM ContextIsWitnessed == Spec => []WireWitnessed
<1>1. PipelineInv => WireWitnessed
  BY DEF PipelineInv, RequestInv, Receipted, WireWitnessed
<1> QED
  BY <1>1, PipelineInvariant, PTL

\* No text leaves that the managed baseline or the recorded policy denies.
THEOREM PolicyIsComplete == Spec => []PolicyCovers
<1>1. PipelineInv => PolicyCovers
  BY DEF PipelineInv, RequestInv, Inspected, Body, PolicyCovers
<1> QED
  BY <1>1, PipelineInvariant, PTL

\* A settled receipt tells what happened to the bytes.
THEOREM ReceiptsAreTrue == Spec => []ReceiptTruth
<1>1. PipelineInv => ReceiptTruth
  BY DEF PipelineInv, RequestInv, ReceiptTruth
<1> QED
  BY <1>1, PipelineInvariant, PTL

------------------------------------------------------------------------------
(* Invariants of the vault alone *)

\* The vault moves by owner operations only.
LEMMA OnlyVaultSteps ==
    ASSUME TypeOK, [Next]_vars
    PROVE  VaultNext \/ UNCHANGED vaultVars
<1>1. \A r \in Request : Handler(r) \/ Drop(r) => UNCHANGED vaultVars
  BY DEF Handler, Drop, SelectContext, SelectDenied, Inspect, Malformed, Clear,
         ClearDenied, Revalidate, RevalidateDenied, Journal, JournalFails, Send,
         SendOk, SendError, Settle, SearchDenied, MemorySearch
<1> QED
  BY <1>1 DEF Next, VaultStep, Admit, Crash, vars

LEMMA ClientStep ==
    ASSUME TypeOK, RevokedClientHoldsNothing, VaultNext
    PROVE  RevokedClientHoldsNothing'
<1> USE DEF TypeOK, VaultTypeOK, GrantRow, ClientRow
<1>1. ASSUME NEW g \in Grant, RevokeGrant(g) PROVE RevokedClientHoldsNothing'
  BY <1>1 DEF RevokeGrant, RevokedClientHoldsNothing
<1>2. ASSUME NEW c \in Client, RevokeClient(c) PROVE RevokedClientHoldsNothing'
  <2> SUFFICES ASSUME NEW g \in Grant, grant'[g].state = "active",
                      grant'[g].holder # NoClient
               PROVE  client'[grant'[g].holder].state = "active"
    BY DEF RevokedClientHoldsNothing
  <2>1. \A h \in Grant : [grant[h] EXCEPT !.state = "revoked"].state = "revoked"
    OBVIOUS
  <2>2. grant[g].holder # c /\ grant'[g] = grant[g]
    BY <1>2, <2>1 DEF RevokeClient
  <2> QED
    BY <1>2, <2>2 DEF RevokeClient, RevokedClientHoldsNothing
<1>3. ASSUME NEW g \in Grant, NEW d \in AnyDestination, NEW sc \in SUBSET Memory,
             NEW e \in 1..MaxClock + 1, NEW h \in Client \cup {NoClient},
             CreateGrant(g, d, sc, e, h)
      PROVE  RevokedClientHoldsNothing'
  <2>1. h # NoClient => client[h].state = "active"
    BY <1>3, VaultAssumption DEF CreateGrant, AuthorizePrincipal, ClientActive
  <2> QED
    BY <1>3, <2>1 DEF CreateGrant, RevokedClientHoldsNothing
<1>4. ASSUME NEW c \in Client, NEW ds \in SUBSET Destination,
             NEW e \in 1..MaxClock + 1, CreateClient(c, ds, e)
      PROVE  RevokedClientHoldsNothing'
  BY <1>4 DEF CreateClient, RevokedClientHoldsNothing
<1>5. ASSUME UNCHANGED <<grant, client>> PROVE RevokedClientHoldsNothing'
  BY <1>5 DEF RevokedClientHoldsNothing
<1> QED
  BY <1>1, <1>2, <1>3, <1>4, <1>5
     DEF VaultNext, AddMemory, UpdateMemory, AddCapture, DeleteMemory, DeleteSource,
         EnableWork, SavePolicy, Tick

\* A revoked client keeps no usable permission.
THEOREM RevokedClientsAreInert == Spec => []RevokedClientHoldsNothing
<1>1. Init => RevokedClientHoldsNothing
  BY DEF Init, VaultInit, RevokedClientHoldsNothing
<1>2. TypeOK /\ RevokedClientHoldsNothing /\ [Next]_vars => RevokedClientHoldsNothing'
  <2> SUFFICES ASSUME TypeOK, RevokedClientHoldsNothing, [Next]_vars
               PROVE  RevokedClientHoldsNothing'
    OBVIOUS
  <2>1. VaultNext \/ UNCHANGED vaultVars
    BY OnlyVaultSteps
  <2>2. CASE VaultNext
    BY <2>2, ClientStep
  <2>3. CASE UNCHANGED vaultVars
    BY <2>3 DEF vaultVars, RevokedClientHoldsNothing
  <2> QED
    BY <2>1, <2>2, <2>3
<1> QED
  BY <1>1, <1>2, TypeInvariant, PTL DEF Spec

LEMMA OrphanStep ==
    ASSUME TypeOK, NoOrphan, VaultNext
    PROVE  NoOrphan'
<1>0. \/ UNCHANGED <<source, memory>>
      \/ \E m \in Memory, c \in Content, st \in MemoryStatus :
            AddMemory(m, c, st) \/ UpdateMemory(m, c, st)
      \/ \E s \in Source, ps \in SUBSET Memory, c \in Content : AddCapture(s, ps, c)
      \/ \E m \in Memory : DeleteMemory(m)
      \/ \E s \in Source : DeleteSource(s)
  BY DEF VaultNext, CreateGrant, RevokeGrant, EnableWork, CreateClient, RevokeClient,
         SavePolicy, Tick
<1> USE VaultAssumption
    DEF TypeOK, VaultTypeOK, MemoryRow, NoOrphan, Present, DerivedFrom, MemoryStatus
<1>1. ASSUME NEW m \in Memory, NEW c \in Content, NEW st \in MemoryStatus,
             AddMemory(m, c, st)
      PROVE  NoOrphan'
  BY <1>1 DEF AddMemory
<1>2. ASSUME NEW m \in Memory, NEW c \in Content, NEW st \in MemoryStatus,
             UpdateMemory(m, c, st)
      PROVE  NoOrphan'
  BY <1>2 DEF UpdateMemory
<1>3. ASSUME NEW s \in Source, NEW ps \in SUBSET Memory, NEW c \in Content,
             AddCapture(s, ps, c)
      PROVE  NoOrphan'
  BY <1>3 DEF AddCapture
<1>4. ASSUME NEW m \in Memory, DeleteMemory(m) PROVE NoOrphan'
  BY <1>4 DEF DeleteMemory
<1>5. ASSUME NEW s \in Source, DeleteSource(s) PROVE NoOrphan'
  <2>1. \A m \in Memory : [memory[m] EXCEPT !.status = "deleted"].status = "deleted"
    OBVIOUS
  <2> QED
    BY <1>5, <2>1 DEF DeleteSource
<1>6. ASSUME UNCHANGED <<source, memory>> PROVE NoOrphan'
  BY <1>6
<1> QED
  <2> HIDE DEF NoOrphan, MemoryStatus
  <2> QED
    BY <1>0, <1>1, <1>2, <1>3, <1>4, <1>5, <1>6

\* Memories and sources stay in step whatever the order of edits and deletions.
THEOREM NoMemoryIsOrphaned == Spec => []NoOrphan
<1>1. Init => NoOrphan
  BY DEF Init, VaultInit, NoOrphan, Present, MemoryStatus
<1>2. TypeOK /\ NoOrphan /\ [Next]_vars => NoOrphan'
  <2> SUFFICES ASSUME TypeOK, NoOrphan, [Next]_vars PROVE NoOrphan'
    OBVIOUS
  <2>1. VaultNext \/ UNCHANGED vaultVars
    BY OnlyVaultSteps
  <2>2. CASE VaultNext
    BY <2>2, OrphanStep
  <2>3. CASE UNCHANGED vaultVars
    BY <2>3 DEF vaultVars, NoOrphan, Present
  <2> QED
    BY <2>1, <2>2, <2>3
<1> QED
  BY <1>1, <1>2, TypeInvariant, PTL DEF Spec

\* The vault and every handler fit together at every instant.
THEOREM DisclosureInvariant == Spec => []DisclosureInv
BY TypeInvariant, NoMemoryIsOrphaned, RevokedClientsAreInert, PipelineInvariant,
   PTL DEF DisclosureInv

------------------------------------------------------------------------------
(* Withdrawal: what a step may never add *)

\* A receipt row is written by a revalidation or a search, and by nothing else
\* is its account of grant and memories changed.
LEMMA ReceiptWritten ==
    ASSUME TypeOK, [Next]_vars, NEW r \in Request
    PROVE  \/ Revalidate(r) /\ call[r].selected # {}
           \/ \E ts \in SUBSET Content : MemorySearch(r, ts)
           \/ /\ (receipt'[r].status # "none") = (receipt[r].status # "none")
              /\ receipt'[r].grant = receipt[r].grant
              /\ receipt'[r].memories = receipt[r].memories
              /\ \/ call'[r].principal = call[r].principal
                 \/ stage[r] = "idle"
<1>0. ASSUME receipt'[r] = receipt[r],
             call'[r].principal = call[r].principal \/ stage[r] = "idle"
      PROVE  /\ (receipt'[r].status # "none") = (receipt[r].status # "none")
             /\ receipt'[r].grant = receipt[r].grant
             /\ receipt'[r].memories = receipt[r].memories
             /\ \/ call'[r].principal = call[r].principal
                \/ stage[r] = "idle"
  BY <1>0
<1>1. CASE VaultStep \/ Crash \/ UNCHANGED vars
  BY <1>1, <1>0 DEF VaultStep, Crash, vars, requestVars
<1>2. ASSUME NEW q \in Request, NEW p \in Principal, NEW d \in AnyDestination,
             NEW g \in Grant \cup {NoGrant}, NEW c \in Content, Admit(q, p, d, g, c)
      PROVE  /\ receipt'[r] = receipt[r]
             /\ call'[r].principal = call[r].principal \/ stage[r] = "idle"
  BY <1>2 DEF Admit, Goto, TypeOK, DisclosureTypeOK
<1>3. ASSUME NEW q \in Request, Handler(q) \/ Drop(q), q # r
      PROVE  receipt'[r] = receipt[r] /\ call'[r].principal = call[r].principal
  BY <1>3, HandlerLocal
<1>4. CASE Handler(r) \/ Drop(r)
  <2>1. CASE SelectContext(r)
    BY <2>1, <1>0 DEF SelectContext, TypeOK, DisclosureTypeOK, CallRow
  <2>2. CASE SelectDenied(r) \/ SearchDenied(r) \/ Inspect(r) \/ Malformed(r)
             \/ Clear(r) \/ ClearDenied(r) \/ RevalidateDenied(r)
    BY <2>2, <1>0
       DEF SelectDenied, SearchDenied, Inspect, Malformed, Clear, ClearDenied,
           RevalidateDenied
  <2>3. CASE Journal(r) \/ JournalFails(r) \/ Send(r) \/ Drop(r)
    BY <2>3, <1>0 DEF Journal, JournalFails, Send, Drop
  <2>4. CASE Revalidate(r) /\ call[r].selected = {}
    BY <2>4, <1>0 DEF Revalidate
  <2>5. ASSUME NEW status \in {"sent", "send_failed_or_partial"}, Settle(r, status)
        PROVE  /\ (receipt'[r].status # "none") = (receipt[r].status # "none")
               /\ receipt'[r].grant = receipt[r].grant
               /\ receipt'[r].memories = receipt[r].memories
               /\ call'[r].principal = call[r].principal
    BY <2>5 DEF Settle, TypeOK, DisclosureTypeOK, ReceiptRow
  <2> QED
    BY <1>4, <2>1, <2>2, <2>3, <2>4, <2>5 DEF Handler, SendOk, SendError
<1> QED
  BY <1>0, <1>1, <1>2, <1>3, <1>4 DEF Next

\* A receipt is new only where a grant stands, for rows confirmed at that instant.
LEMMA NewReceipt ==
    ASSUME TypeOK, PipelineInv, [Next]_vars, NEW r \in Request,
           \/ Revalidate(r) /\ call[r].selected # {}
           \/ \E ts \in SUBSET Content : MemorySearch(r, ts)
    PROVE  /\ receipt[r].status = "none"
           /\ receipt'[r].status # "none" =>
                 /\ call[r].grant \in Grant
                 /\ receipt'[r].grant = call[r].grant
                 /\ GrantPermits(call[r].grant, call[r].destination)
                 /\ \A m \in receipt'[r].memories : memory[m].status = "confirmed"
           /\ call'[r].principal = call[r].principal
           /\ call[r].principal \in Client => OwnGrant(r)
<1>0. RequestInv(r)
  BY DEF PipelineInv
<1>1. CASE Revalidate(r) /\ call[r].selected # {}
  <2>1. /\ stage[r] = "cleared"
        /\ receipt'[r].grant = call[r].grant
        /\ receipt'[r].memories = Ids(call[r].selected)
        /\ UNCHANGED call
    BY <1>1 DEF Revalidate, Goto, WriteReceipt, TypeOK, DisclosureTypeOK
  <2>2. /\ call[r].grant \in Grant
        /\ GrantPermits(call[r].grant, call[r].destination)
        /\ call[r].selected = Context(call[r].grant)
    BY <1>1 DEF Revalidate, GrantStands, Snapshot, TypeOK, DisclosureTypeOK, CallRow
  <2>3. \A m \in Ids(Context(call[r].grant)) : memory[m].status = "confirmed"
    BY <2>2, ContextTyped DEF TypeOK
  <2> QED
    BY <1>0, <2>1, <2>2, <2>3 DEF RequestInv
<1>2. ASSUME NEW ts \in SUBSET Content, MemorySearch(r, ts)
      PROVE  /\ receipt[r].status = "none"
             /\ receipt'[r].status # "none" =>
                   /\ call[r].grant \in Grant
                   /\ receipt'[r].grant = call[r].grant
                   /\ GrantPermits(call[r].grant, call[r].destination)
                   /\ \A m \in receipt'[r].memories : memory[m].status = "confirmed"
             /\ call'[r].principal = call[r].principal
             /\ call[r].principal \in Client => OwnGrant(r)
  <2> DEFINE found == Matches(call[r].grant, ts)
  <2>1. /\ stage[r] = "admitted" /\ call[r].destination = McpDestination
        /\ call[r].grant \in Grant
        /\ GrantPermits(call[r].grant, call[r].destination)
    BY <1>2 DEF MemorySearch, Goto, GrantStands, TypeOK, DisclosureTypeOK, CallRow
  <2>2. call'[r].principal = call[r].principal
    BY <1>2 DEF MemorySearch, TypeOK, DisclosureTypeOK, CallRow
  <2>3. receipt[r].status = "none" /\ call[r].principal \notin Client
    BY <1>0, <2>1 DEF RequestInv
  <2>4. \A m \in Ids(found) : memory[m].status = "confirmed"
    BY <2>1, MatchesTyped DEF TypeOK
  <2>5. \/ receipt' = receipt
        \/ /\ receipt'[r].grant = call[r].grant
           /\ receipt'[r].memories = Ids(found)
    BY <1>2 DEF MemorySearch, WriteReceipt, TypeOK, DisclosureTypeOK
  <2> QED
    BY <2>1, <2>2, <2>3, <2>4, <2>5
<1> QED
  BY <1>1, <1>2

\* After a revocation no request obtains a receipt under the grant.
THEOREM GrantRevocationIsFinal == Spec => GrantRevocationCloses
<1>1. ASSUME TypeOK, PipelineInv, [Next]_vars, NEW g \in Grant,
             grant[g].state = "revoked"
      PROVE  ReceiptsUnder(g)' = ReceiptsUnder(g)
  <2>1. ASSUME NEW r \in Request
        PROVE  (receipt'[r].status # "none" /\ receipt'[r].grant = g)
                  <=> (receipt[r].status # "none" /\ receipt[r].grant = g)
    BY <1>1, <2>1, ReceiptWritten, NewReceipt DEF GrantPermits
  <2> QED
    BY <2>1 DEF ReceiptsUnder
<1>2. TypeOK /\ PipelineInv /\ [Next]_vars =>
         [\A g \in Grant : grant[g].state = "revoked" =>
             ReceiptsUnder(g)' = ReceiptsUnder(g)]_vars
  BY <1>1
<1> QED
  BY <1>2, TypeInvariant, PipelineInvariant, PTL DEF Spec, GrantRevocationCloses

\* After a memory was withdrawn no request obtains a receipt naming it.
THEOREM WithdrawalIsFinal == Spec => WithdrawalCloses
<1>1. ASSUME TypeOK, PipelineInv, [Next]_vars, NEW m \in Memory,
             memory[m].status # "confirmed"
      PROVE  ReceiptsNaming(m)' = ReceiptsNaming(m)
  <2>1. ASSUME NEW r \in Request
        PROVE  (receipt'[r].status # "none" /\ m \in receipt'[r].memories)
                  <=> (receipt[r].status # "none" /\ m \in receipt[r].memories)
    BY <1>1, <2>1, ReceiptWritten, NewReceipt
  <2> QED
    BY <2>1 DEF ReceiptsNaming
<1>2. TypeOK /\ PipelineInv /\ [Next]_vars =>
         [\A m \in Memory : memory[m].status # "confirmed" =>
             ReceiptsNaming(m)' = ReceiptsNaming(m)]_vars
  BY <1>1
<1> QED
  BY <1>2, TypeInvariant, PipelineInvariant, PTL DEF Spec, WithdrawalCloses

\* After a client was revoked none of its requests obtains a receipt.
THEOREM ClientRevocationIsFinal == Spec => ClientRevocationCloses
<1>1. ASSUME TypeOK, PipelineInv, RevokedClientHoldsNothing, [Next]_vars,
             NEW c \in Client, client[c].state = "revoked"
      PROVE  ReceiptsOf(c)' = ReceiptsOf(c)
  <2>1. ASSUME NEW r \in Request
        PROVE  (receipt'[r].status # "none" /\ call'[r].principal = c)
                  <=> (receipt[r].status # "none" /\ call[r].principal = c)
    <3>1. CASE \/ Revalidate(r) /\ call[r].selected # {}
               \/ \E ts \in SUBSET Content : MemorySearch(r, ts)
      <4>1. ASSUME call[r].principal = c, receipt'[r].status # "none" PROVE FALSE
        <5>1. /\ call[r].grant \in Grant
              /\ grant[call[r].grant].state = "active"
              /\ OwnGrant(r)
          BY <1>1, <3>1, <4>1, NewReceipt DEF GrantPermits
        <5>2. grant[call[r].grant].holder = c
          BY <4>1, <5>1, VaultAssumption DEF OwnGrant
        <5> QED
          BY <1>1, <5>1, <5>2, VaultAssumption DEF RevokedClientHoldsNothing
      <4> QED
        BY <1>1, <3>1, <4>1, NewReceipt
    <3>2. stage[r] = "idle" => receipt[r].status = "none"
      BY <1>1 DEF PipelineInv, RequestInv
    <3> QED
      BY <1>1, <3>1, <3>2, ReceiptWritten
  <2> QED
    BY <2>1 DEF ReceiptsOf
<1>2. TypeOK /\ PipelineInv /\ RevokedClientHoldsNothing /\ [Next]_vars =>
         [\A c \in Client : client[c].state = "revoked" =>
             ReceiptsOf(c)' = ReceiptsOf(c)]_vars
  BY <1>1
<1> QED
  BY <1>2, TypeInvariant, PipelineInvariant, RevokedClientsAreInert, PTL
     DEF Spec, ClientRevocationCloses

\* Revoking a grant or a client stops whatever is under way under it.
THEOREM RevocationIsFinal == Spec => RevocationCloses
BY GrantRevocationIsFinal, ClientRevocationIsFinal DEF RevocationCloses

------------------------------------------------------------------------------
(* Liveness.  ENABLED is opaque to the provers: that a handler can always   *)
(* take a step is an invariant that TLC checks, and a hypothesis here.      *)

\* r was admitted, and at most n steps of its handler are left.
AtMost(r, n) ==
    stage[r] \in Final
        \cup (IF n >= 1 THEN {"sending"} ELSE {})
        \cup (IF n >= 2 THEN {"journaled"} ELSE {})
        \cup (IF n >= 3 THEN {"receipted"} ELSE {})
        \cup (IF n >= 4 THEN {"cleared"} ELSE {})
        \cup (IF n >= 5 THEN {"inspected"} ELSE {})
        \cup (IF n >= 6 THEN {"selected"} ELSE {})
        \cup (IF n >= 7 THEN {"admitted"} ELSE {})

\* The stage a handler's step leads to, and that of a dropped one.
LEMMA HandlerAdvances ==
    ASSUME TypeOK, NEW r \in Request, Handler(r)
    PROVE  \/ stage[r] = "admitted" /\ stage'[r] \in Final \cup {"selected"}
           \/ stage[r] = "selected" /\ stage'[r] \in Final \cup {"inspected"}
           \/ stage[r] = "inspected" /\ stage'[r] \in Final \cup {"cleared"}
           \/ stage[r] = "cleared" /\ stage'[r] \in Final \cup {"receipted"}
           \/ stage[r] = "receipted" /\ stage'[r] \in Final \cup {"journaled"}
           \/ stage[r] = "journaled" /\ stage'[r] = "sending"
           \/ stage[r] = "sending" /\ stage'[r] \in Final
<1> USE DEF TypeOK, DisclosureTypeOK, Goto, Final
<1>1. CASE SelectContext(r) \/ SelectDenied(r) \/ SearchDenied(r)
  BY <1>1 DEF SelectContext, SelectDenied, SearchDenied
<1>2. CASE Inspect(r) \/ Malformed(r)
  BY <1>2 DEF Inspect, Malformed
<1>3. CASE Clear(r) \/ ClearDenied(r)
  BY <1>3 DEF Clear, ClearDenied
<1>4. CASE Revalidate(r) \/ RevalidateDenied(r)
  BY <1>4 DEF Revalidate, RevalidateDenied
<1>5. CASE Journal(r) \/ JournalFails(r)
  BY <1>5 DEF Journal, JournalFails
<1>6. CASE Send(r)
  BY <1>6 DEF Send
<1>7. CASE SendOk(r) \/ SendError(r)
  BY <1>7 DEF SendOk, SendError, Settle
<1>8. ASSUME NEW ts \in SUBSET Content, MemorySearch(r, ts)
      PROVE  stage[r] = "admitted" /\ stage'[r] \in Final
  BY <1>8 DEF MemorySearch
<1> QED
  BY <1>1, <1>2, <1>3, <1>4, <1>5, <1>6, <1>7, <1>8 DEF Handler

\* Every step of the handler brings its request nearer to its end, and no step
\* of anyone takes it further away.
LEMMA StepsBringNearer ==
    ASSUME TypeOK, [Next]_vars, NEW r \in Request, NEW n \in 0..7, AtMost(r, n)
    PROVE  /\ AtMost(r, n)'
           /\ <<Handler(r)>>_vars /\ n > 0 => AtMost(r, n - 1)'
<1>1. CASE Handler(r)
  BY <1>1, HandlerAdvances DEF AtMost, Final
<1>2. ASSUME ~ Handler(r)
      PROVE  AtMost(r, n)'
  <2>1. CASE VaultStep \/ UNCHANGED vars
    BY <2>1 DEF VaultStep, vars, requestVars, AtMost, Final
  <2>2. ASSUME NEW q \in Request, NEW p \in Principal, NEW d \in AnyDestination,
               NEW g \in Grant \cup {NoGrant}, NEW c \in Content, Admit(q, p, d, g, c)
        PROVE  AtMost(r, n)'
    <3>1. q # r /\ stage'[r] = stage[r]
      BY <2>2 DEF Admit, Goto, AtMost, Final, TypeOK, DisclosureTypeOK
    <3> QED BY <3>1 DEF AtMost, Final
  <2>3. ASSUME NEW q \in Request, Handler(q) \/ Drop(q)
        PROVE  AtMost(r, n)'
    <3>1. CASE q # r
      <4>1. stage'[r] = stage[r]
        BY <2>3, <3>1, HandlerLocal
      <4> QED BY <4>1 DEF AtMost, Final
    <3>2. CASE q = r
      BY <1>2, <2>3, <3>2 DEF Drop, Goto, AtMost, Final, TypeOK, DisclosureTypeOK
    <3> QED BY <3>1, <3>2
  <2>4. CASE Crash
    BY <2>4 DEF Crash, AtMost, Final
  <2> QED BY <2>1, <2>2, <2>3, <2>4 DEF Next
<1> QED BY <1>1, <1>2

\* An admitted request ends, if its handler keeps running.
LEMMA RequestEnds ==
    ASSUME NEW r \in Request
    PROVE  Spec /\ HandlerRuns(r) /\ []HandlersCanRun
           => ((stage[r] = "admitted") ~> (stage[r] \in Final))
<1>0. HandlersCanRun /\ AtMost(r, 7) => AtMost(r, 0) \/ ENABLED <<Handler(r)>>_vars
  BY DEF HandlersCanRun, AtMost, Final
<1>1. /\ TypeOK /\ [Next]_vars /\ AtMost(r, 1) => AtMost(r, 1)'
      /\ TypeOK /\ [Next]_vars /\ AtMost(r, 1) /\ <<Handler(r)>>_vars => AtMost(r, 0)'
  BY StepsBringNearer
<1>2. /\ TypeOK /\ [Next]_vars /\ AtMost(r, 2) => AtMost(r, 2)'
      /\ TypeOK /\ [Next]_vars /\ AtMost(r, 2) /\ <<Handler(r)>>_vars => AtMost(r, 1)'
  BY StepsBringNearer
<1>3. /\ TypeOK /\ [Next]_vars /\ AtMost(r, 3) => AtMost(r, 3)'
      /\ TypeOK /\ [Next]_vars /\ AtMost(r, 3) /\ <<Handler(r)>>_vars => AtMost(r, 2)'
  BY StepsBringNearer
<1>4. /\ TypeOK /\ [Next]_vars /\ AtMost(r, 4) => AtMost(r, 4)'
      /\ TypeOK /\ [Next]_vars /\ AtMost(r, 4) /\ <<Handler(r)>>_vars => AtMost(r, 3)'
  BY StepsBringNearer
<1>5. /\ TypeOK /\ [Next]_vars /\ AtMost(r, 5) => AtMost(r, 5)'
      /\ TypeOK /\ [Next]_vars /\ AtMost(r, 5) /\ <<Handler(r)>>_vars => AtMost(r, 4)'
  BY StepsBringNearer
<1>6. /\ TypeOK /\ [Next]_vars /\ AtMost(r, 6) => AtMost(r, 6)'
      /\ TypeOK /\ [Next]_vars /\ AtMost(r, 6) /\ <<Handler(r)>>_vars => AtMost(r, 5)'
  BY StepsBringNearer
<1>7. /\ TypeOK /\ [Next]_vars /\ AtMost(r, 7) => AtMost(r, 7)'
      /\ TypeOK /\ [Next]_vars /\ AtMost(r, 7) /\ <<Handler(r)>>_vars => AtMost(r, 6)'
  BY StepsBringNearer
<1>8. /\ AtMost(r, 0) => stage[r] \in Final
      /\ stage[r] = "admitted" => AtMost(r, 7)
      /\ AtMost(r, 1) \/ AtMost(r, 2) \/ AtMost(r, 3)
             \/ AtMost(r, 4) \/ AtMost(r, 5) \/ AtMost(r, 6)
         => AtMost(r, 7)
  BY DEF AtMost
<1> QED
  BY TypeInvariant, <1>0, <1>1, <1>2, <1>3, <1>4, <1>5, <1>6, <1>7, <1>8, PTL
     DEF Spec, HandlerRuns


\* A receipt that is written when its request goes out, and is still open.
Unsettled(r, s) == receipt[r].status = "authorized" /\ stage[r] = s

Settled(r) ==
    \/ receipt[r].status \in {"sent", "send_failed_or_partial"}
    \/ stage[r] \in {"dropped", "lost"}

\* Nothing happens to an open receipt but by its own handler, by dropping it
\* or by the end of the process.
LEMMA ReceiptsAdvance ==
    ASSUME TypeOK, [Next]_vars, NEW r \in Request
    PROVE  /\ Unsettled(r, "journaled") =>
               /\ Unsettled(r, "journaled")' \/ Unsettled(r, "sending")' \/ Settled(r)'
               /\ <<Handler(r)>>_vars => Unsettled(r, "sending")'
           /\ Unsettled(r, "sending") =>
               /\ Unsettled(r, "sending")' \/ Settled(r)'
               /\ <<Handler(r)>>_vars => Settled(r)'
<1> USE DEF Unsettled, Settled
<1>1. CASE Handler(r)
  <2>1. CASE stage[r] = "journaled"
    <3>1. Send(r) \/ Drop(r)
      BY <1>1, <2>1 DEF Handler, SelectContext, SelectDenied, SearchDenied, Inspect,
         Malformed, Clear, ClearDenied, Revalidate, RevalidateDenied, Journal,
         JournalFails, SendOk, SendError, Settle, MemorySearch, Goto
    <3> QED BY <2>1, <3>1 DEF Send, Drop, Goto, TypeOK, DisclosureTypeOK
  <2>2. CASE stage[r] = "sending"
    <3>1. SendOk(r) \/ SendError(r)
      BY <1>1, <2>2 DEF Handler, SelectContext, SelectDenied, SearchDenied, Inspect,
         Malformed, Clear, ClearDenied, Revalidate, RevalidateDenied, Journal,
         JournalFails, Send, MemorySearch, Goto
    <3>2. receipt[r].status = "authorized"
            => receipt'[r].status \in {"sent", "send_failed_or_partial"}
      <4>1. receipt[r] \in ReceiptRow /\ receipt \in [Request -> ReceiptRow]
        BY DEF TypeOK, DisclosureTypeOK
      <4> QED BY <3>1, <4>1 DEF SendOk, SendError, Settle, ReceiptRow
    <3> QED BY <2>2, <3>2
  <2> QED BY <2>1, <2>2
<1>2. CASE ~ Handler(r)
  <2> SUFFICES ASSUME stage[r] \in {"journaled", "sending"}
               PROVE  \/ stage'[r] = stage[r] /\ receipt'[r] = receipt[r]
                      \/ stage'[r] \in {"dropped", "lost"}
    BY <1>2
  <2>1. CASE VaultStep \/ UNCHANGED vars
    BY <2>1 DEF VaultStep, vars, requestVars
  <2>2. ASSUME NEW q \in Request, NEW p \in Principal, NEW d \in AnyDestination,
               NEW g \in Grant \cup {NoGrant}, NEW c \in Content, Admit(q, p, d, g, c)
        PROVE  stage'[r] = stage[r] /\ receipt'[r] = receipt[r]
    BY <2>2 DEF Admit, Goto, TypeOK, DisclosureTypeOK
  <2>3. ASSUME NEW q \in Request, Handler(q) \/ Drop(q)
        PROVE  \/ stage'[r] = stage[r] /\ receipt'[r] = receipt[r]
               \/ stage'[r] \in {"dropped", "lost"}
    <3>1. CASE q # r
      BY <2>3, <3>1, HandlerLocal
    <3>2. CASE q = r
      BY <1>2, <2>3, <3>2 DEF Drop, Goto, TypeOK, DisclosureTypeOK
    <3> QED BY <3>1, <3>2
  <2>4. CASE Crash
    BY <2>4 DEF Crash
  <2> QED BY <2>1, <2>2, <2>3, <2>4 DEF Next
<1> QED BY <1>1, <1>2

LEMMA ReceiptSettlesOf ==
    ASSUME NEW r \in Request
    PROVE  Spec /\ HandlerRuns(r) /\ []HandlersCanRun
           => ((receipt[r].status = "authorized" /\ stage[r] = "journaled")
                  ~> (\/ receipt[r].status \in {"sent", "send_failed_or_partial"}
                      \/ stage[r] \in {"dropped", "lost"}))
<1>1. HandlersCanRun /\ (Unsettled(r, "journaled") \/ Unsettled(r, "sending"))
        => ENABLED <<Handler(r)>>_vars
  BY DEF HandlersCanRun, Unsettled, Final
<1>2. /\ TypeOK /\ [Next]_vars /\ Unsettled(r, "journaled")
           => Unsettled(r, "journaled")' \/ Unsettled(r, "sending")' \/ Settled(r)'
      /\ TypeOK /\ [Next]_vars /\ Unsettled(r, "journaled") /\ <<Handler(r)>>_vars
           => Unsettled(r, "sending")'
      /\ TypeOK /\ [Next]_vars /\ Unsettled(r, "sending")
           => Unsettled(r, "sending")' \/ Settled(r)'
      /\ TypeOK /\ [Next]_vars /\ Unsettled(r, "sending") /\ <<Handler(r)>>_vars
           => Settled(r)'
  BY ReceiptsAdvance
<1>3. /\ receipt[r].status = "authorized" /\ stage[r] = "journaled"
           => Unsettled(r, "journaled")
      /\ Settled(r) => \/ receipt[r].status \in {"sent", "send_failed_or_partial"}
                       \/ stage[r] \in {"dropped", "lost"}
  BY DEF Unsettled, Settled
<1> QED BY TypeInvariant, <1>1, <1>2, <1>3, PTL DEF Spec, HandlerRuns

\* Every request ends and every open receipt of one that goes out is settled,
\* unless its handler was dropped or died with the process.
THEOREM RequestsConclude == FairSpec /\ []HandlersCanRun => Concludes
<1>1. ASSUME NEW r \in Request
      PROVE  Spec /\ HandlerRuns(r) /\ []HandlersCanRun
             => ((stage[r] = "admitted") ~> (stage[r] \in Final))
  BY RequestEnds
<1>2. FairSpec /\ []HandlersCanRun => Terminates
  BY <1>1 DEF FairSpec, Terminates
<1>3. ASSUME NEW r \in Request
      PROVE  Spec /\ HandlerRuns(r) /\ []HandlersCanRun
             => ((receipt[r].status = "authorized" /\ stage[r] = "journaled")
                    ~> (\/ receipt[r].status \in {"sent", "send_failed_or_partial"}
                        \/ stage[r] \in {"dropped", "lost"}))
  BY ReceiptSettlesOf
<1>4. FairSpec /\ []HandlersCanRun => ReceiptSettles
  BY <1>3 DEF FairSpec, ReceiptSettles
<1> QED BY <1>2, <1>4 DEF Concludes

==============================================================================
