-------------------------- MODULE DisclosureRefinement --------------------------
(* The gateway pipeline and memory_search implement the disclosure ledger. *)
EXTENDS DisclosureProofs

\* The abstract state of a concrete one.
EnteredRows ==
    {[request |-> r, grant |-> receipt[r].grant,
      destination |-> receipt[r].destination, rows |-> call[r].selected] :
        r \in {x \in Request : receipt[x].status # "none"}}

DeliveredRows ==
    {[request |-> r, destination |-> wire[r].destination, rows |-> wire[r].body] :
        r \in {x \in Request : wire[x].handed}}

LEMMA SameCardinality == \A S : Cardinality(S) = Ledger!Cardinality(S)
  BY DEF Cardinality, Ledger!Cardinality

\* The owner's operations are the same ones.
LEMMA SameVault == VaultNext => Ledger!VaultNext
<1>1. \A m, c, st : AddMemory(m, c, st) => Ledger!AddMemory(m, c, st)
  BY DEF AddMemory, NewRow,
         Ledger!AddMemory, Ledger!NewRow
<1>2. \A m, c, st : UpdateMemory(m, c, st) => Ledger!UpdateMemory(m, c, st)
  BY DEF UpdateMemory, Present, MemoryStatus,
         Ledger!UpdateMemory, Ledger!Present, Ledger!MemoryStatus
<1>3. \A s, ps, c : AddCapture(s, ps, c) => Ledger!AddCapture(s, ps, c)
  <2> SUFFICES ASSUME NEW s, NEW ps, NEW c, AddCapture(s, ps, c)
               PROVE  Ledger!AddCapture(s, ps, c)
    OBVIOUS
  <2>1. /\ source[s] = "unused"
        /\ Cardinality(ps) <= 5
        /\ source' = [source EXCEPT ![s] = "live"]
        /\ UNCHANGED <<grant, client, workEnabled, blocked, revision, clock>>
    BY DEF AddCapture
  <2>2. ps \subseteq Ledger!DerivedFrom(s)
    BY DEF AddCapture, DerivedFrom, Ledger!DerivedFrom
  <2>3. memory' = [m \in Memory |-> IF m \in ps THEN Ledger!NewRow("proposed", c)
                                               ELSE memory[m]]
    BY DEF AddCapture, NewRow, Ledger!NewRow
  <2> QED
    BY <2>1, <2>2, <2>3, SameCardinality DEF Ledger!AddCapture
<1>4. \A m : DeleteMemory(m) => Ledger!DeleteMemory(m)
  BY DEF DeleteMemory, Present, DerivedFrom, MemoryStatus,
         Ledger!DeleteMemory, Ledger!Present, Ledger!DerivedFrom, Ledger!MemoryStatus
<1>5. \A s : DeleteSource(s) => Ledger!DeleteSource(s)
  BY DEF DeleteSource, Present, DerivedFrom, MemoryStatus,
         Ledger!DeleteSource, Ledger!Present, Ledger!DerivedFrom, Ledger!MemoryStatus
<1>6. \A g, d, sc, e, h : CreateGrant(g, d, sc, e, h) => Ledger!CreateGrant(g, d, sc, e, h)
  BY DEF CreateGrant, AuthorizePrincipal, ClientActive, Present, MemoryStatus,
         Ledger!CreateGrant, Ledger!AuthorizePrincipal, Ledger!ClientActive, Ledger!Present, Ledger!MemoryStatus
<1>7. \A g : RevokeGrant(g) => Ledger!RevokeGrant(g)
  BY DEF RevokeGrant,
         Ledger!RevokeGrant
<1>8. \A c, ds, e : CreateClient(c, ds, e) => Ledger!CreateClient(c, ds, e)
  BY SameCardinality DEF CreateClient, Ledger!CreateClient
<1>9. \A c : RevokeClient(c) => Ledger!RevokeClient(c)
  BY DEF RevokeClient,
         Ledger!RevokeClient
<1>10. \A n, ts : SavePolicy(n, ts) => Ledger!SavePolicy(n, ts)
  BY DEF SavePolicy,
         Ledger!SavePolicy
<1>11. (EnableWork => Ledger!EnableWork) /\ (Tick => Ledger!Tick)
  BY DEF EnableWork, Tick, Ledger!EnableWork, Ledger!Tick
<1>12. MemoryStatus = Ledger!MemoryStatus /\ AnyDestination = Ledger!AnyDestination
  BY DEF MemoryStatus, AnyDestination, Ledger!MemoryStatus, Ledger!AnyDestination
<1> SUFFICES ASSUME VaultNext PROVE Ledger!VaultNext
  OBVIOUS
<1>13. CASE \E m \in Memory, c \in Content, st \in MemoryStatus :
               AddMemory(m, c, st) \/ UpdateMemory(m, c, st)
  BY <1>1, <1>2, <1>12, <1>13, Zenon DEF Ledger!VaultNext
<1>14. CASE \E s \in Source, ps \in SUBSET Memory, c \in Content : AddCapture(s, ps, c)
  BY <1>3, <1>14, Zenon DEF Ledger!VaultNext
<1>15. CASE \E m \in Memory : DeleteMemory(m)
  BY <1>4, <1>15, Zenon DEF Ledger!VaultNext
<1>16. CASE \E s \in Source : DeleteSource(s)
  BY <1>5, <1>16, Zenon DEF Ledger!VaultNext
<1>17. CASE \E g \in Grant, d \in AnyDestination, sc \in SUBSET Memory,
               e \in 1..MaxClock + 1, h \in Client \cup {NoClient} :
               CreateGrant(g, d, sc, e, h)
  <2>1. PICK g \in Grant, d \in AnyDestination, sc \in SUBSET Memory,
             e \in 1..MaxClock + 1, h \in Client \cup {NoClient} :
             CreateGrant(g, d, sc, e, h)
    BY <1>17
  <2>2. Ledger!CreateGrant(g, d, sc, e, h) /\ d \in Ledger!AnyDestination
    BY <1>6, <1>12, <2>1
  <2> QED
    BY <2>2 DEF Ledger!VaultNext
<1>18. CASE \E g \in Grant : RevokeGrant(g)
  BY <1>7, <1>18, Zenon DEF Ledger!VaultNext
<1>19. CASE \E c \in Client, ds \in SUBSET Destination, e \in 1..MaxClock + 1 :
               CreateClient(c, ds, e)
  BY <1>8, <1>19, Zenon DEF Ledger!VaultNext
<1>20. CASE \E c \in Client : RevokeClient(c)
  BY <1>9, <1>20, Zenon DEF Ledger!VaultNext
<1>21. CASE \E n \in 0..MaxRevision, ts \in SUBSET Content : SavePolicy(n, ts)
  BY <1>10, <1>21, Zenon DEF Ledger!VaultNext
<1>22. CASE EnableWork \/ Tick
  BY <1>11, <1>22, Zenon DEF Ledger!VaultNext
<1> QED
  BY <1>13, <1>14, <1>15, <1>16, <1>17, <1>18, <1>19, <1>20, <1>21, <1>22
     DEF VaultNext

LEMMA SameReads ==
    /\ \A g, d : GrantPermits(g, d) <=> Ledger!GrantPermits(g, d)
    /\ \A g : Eligible(g) = Ledger!Eligible(g)
    /\ \A g : Context(g) = Ledger!Context(g)
<1>1. \A g, d : GrantPermits(g, d) <=> Ledger!GrantPermits(g, d)
  BY DEF GrantPermits, Ledger!GrantPermits
<1>2. \A g : Eligible(g) = Ledger!Eligible(g)
  BY DEF Eligible, Ledger!Eligible
<1>3. \A rows : Fitting(rows) = Ledger!Fitting(rows)
  BY SameCardinality DEF Fitting, Ledger!Fitting
<1> QED
  BY <1>1, <1>2, <1>3 DEF Context, Ledger!Context

LEMMA InitImplements == Init => Ledger!LedgerInit
<1> SUFFICES ASSUME Init PROVE Ledger!LedgerInit
  OBVIOUS
<1>1. Ledger!VaultInit
  BY DEF Init, VaultInit, NoText, Ledger!VaultInit, Ledger!NoText
<1>2. EnteredRows = {} /\ DeliveredRows = {}
  BY DEF Init, EnteredRows, DeliveredRows
<1> QED
  BY <1>1, <1>2 DEF Ledger!LedgerInit, EnteredRows, DeliveredRows


\* No step of the pipeline that writes no receipt and sends nothing is seen.
LEMMA Stutters ==
    ASSUME TypeOK, PipelineInv, UNCHANGED vaultVars,
           \A r \in Request :
              /\ (receipt'[r].status # "none") = (receipt[r].status # "none")
              /\ receipt'[r].grant = receipt[r].grant
              /\ receipt'[r].destination = receipt[r].destination
              /\ receipt[r].status # "none" => call'[r].selected = call[r].selected
              /\ wire'[r] = wire[r]
    PROVE  UNCHANGED <<vaultVars, EnteredRows, DeliveredRows>>
<1>1. EnteredRows' = EnteredRows
  BY DEF EnteredRows
<1>2. DeliveredRows' = DeliveredRows
  BY DEF DeliveredRows
<1> QED
  BY <1>1, <1>2

\* One more request has a receipt: one more entry.
LEMMA OneMoreEntry ==
    ASSUME NEW r \in Request, receipt[r].status = "none",
           receipt'[r].status # "none",
           \A q \in Request \ {r} : receipt'[q] = receipt[q] /\ call'[q] = call[q]
    PROVE  EnteredRows' = EnteredRows \cup
               {[request |-> r, grant |-> receipt'[r].grant,
                 destination |-> receipt'[r].destination,
                 rows |-> call'[r].selected]}
  BY DEF EnteredRows

\* One more body was handed over: one more delivery.
LEMMA OneMoreDelivery ==
    ASSUME NEW r \in Request, ~wire[r].handed, wire'[r].handed,
           \A q \in Request \ {r} : wire'[q] = wire[q]
    PROVE  DeliveredRows' = DeliveredRows \cup
               {[request |-> r, destination |-> wire'[r].destination,
                 rows |-> wire'[r].body]}
  BY DEF DeliveredRows

LEMMA Fresh ==
    ASSUME NEW r \in Request
    PROVE  /\ receipt[r].status = "none" =>
                 ~ \E e \in EnteredRows : e.request = r
           /\ ~wire[r].handed => ~ \E e \in DeliveredRows : e.request = r
  BY DEF EnteredRows, DeliveredRows

\* Revalidation enters the whole context of the moment.
LEMMA RevalidateImplements ==
    ASSUME TypeOK, PipelineInv, NEW r \in Request, Revalidate(r),
           call[r].selected # {},
           NEW g, g = call[r].grant, NEW d, d = call[r].destination
    PROVE  Ledger!Authorize(r, g, d)
<1>0. RequestInv(r)
  BY DEF PipelineInv
<1>1. /\ stage[r] = "cleared"
      /\ UNCHANGED <<vaultVars, call, wire>>
      /\ receipt' = [receipt EXCEPT ![r] = [status |-> "authorized",
                                            destination |-> call[r].destination,
                                            grant |-> call[r].grant,
                                            memories |-> Ids(call[r].selected)]]
  BY DEF Revalidate, Goto, WriteReceipt
<1>2. receipt[r].status = "none" /\ ~wire[r].handed
  BY <1>0, <1>1 DEF RequestInv
<1>3. /\ call[r].grant \in Grant
      /\ GrantPermits(call[r].grant, call[r].destination)
      /\ call[r].selected = Context(call[r].grant)
  BY DEF Revalidate, GrantStands, Snapshot, TypeOK, DisclosureTypeOK, CallRow
<1>4. EnteredRows' = EnteredRows \cup
         {[request |-> r, grant |-> call[r].grant,
           destination |-> call[r].destination, rows |-> Context(call[r].grant)]}
  BY <1>1, <1>2, <1>3, OneMoreEntry DEF TypeOK, DisclosureTypeOK
<1>5. DeliveredRows' = DeliveredRows
  BY <1>1 DEF DeliveredRows
<1>6. /\ ~ \E e \in EnteredRows : e.request = r
      /\ ~ \E e \in DeliveredRows : e.request = r
  BY <1>2, Fresh
<1> QED
  BY <1>1, <1>3, <1>4, <1>5, <1>6, SameReads
     DEF Ledger!Authorize, Ledger!Entered, Ledger!Delivered, Ledger!Entry, EnteredRows,
         DeliveredRows, vaultVars, Ledger!vaultVars

\* A body that leaves carries the rows of its entry, or none.
LEMMA SendImplements ==
    ASSUME TypeOK, PipelineInv, NEW r \in Request, Send(r),
           NEW d, d = call[r].destination, NEW rows, rows = call[r].selected
    PROVE  /\ Ledger!Deliver(r, d, rows)
           /\ d \in Destination
           /\ rows \in Ledger!Disclosable
<1>0. RequestInv(r)
  BY DEF PipelineInv
<1>1. /\ stage[r] = "journaled"
      /\ UNCHANGED <<vaultVars, call, receipt>>
      /\ wire' = [wire EXCEPT ![r] = [handed |-> TRUE,
                                      destination |-> call[r].destination,
                                      prompt |-> call[r].prompt,
                                      body |-> call[r].selected]]
  BY DEF Send, Goto, HandOver
<1>2. ~wire[r].handed /\ call[r].destination \in Destination
  BY <1>0, <1>1 DEF RequestInv, TypeOK, DisclosureTypeOK, CallRow, AnyDestination
<1>3. DeliveredRows' = DeliveredRows \cup
         {[request |-> r, destination |-> call[r].destination,
           rows |-> call[r].selected]}
  BY <1>1, <1>2, OneMoreDelivery DEF TypeOK, DisclosureTypeOK
<1>4. EnteredRows' = EnteredRows
  BY <1>1 DEF EnteredRows
<1>5. ~ \E e \in DeliveredRows : e.request = r
  BY <1>2, Fresh
<1>6. CASE receipt[r].status = "none"
  <2>1. call[r].selected = {}
    BY <1>0, <1>1, <1>6 DEF RequestInv
  <2>2. ~ \E e \in EnteredRows : e.request = r
    BY <1>6, Fresh
  <2>3. Ledger!Deliver(r, d, rows)
    BY <1>1, <1>3, <1>4, <1>5, <2>1, <2>2
       DEF Ledger!Deliver, Ledger!Entered, Ledger!Delivered, Ledger!Delivery,
           EnteredRows, DeliveredRows, vaultVars, Ledger!vaultVars
  <2> QED
    BY <1>2, <2>1, <2>3 DEF Ledger!Disclosable
<1>7. CASE receipt[r].status # "none"
  <2> DEFINE entry == [request |-> r, grant |-> call[r].grant,
                       destination |-> call[r].destination,
                       rows |-> call[r].selected]
  <2>1. call[r].grant \in Grant /\ entry \in EnteredRows
    BY <1>0, <1>7 DEF RequestInv, Receipted, EnteredRows
  <2>2. Ledger!Deliver(r, d, rows)
    BY <1>1, <1>3, <1>4, <1>5, <2>1
       DEF Ledger!Deliver, Ledger!Entered, Ledger!Delivered, Ledger!Delivery,
           Ledger!Entry, EnteredRows, DeliveredRows, vaultVars, Ledger!vaultVars
  <2>3. call[r].selected \in Ledger!Disclosable
    <3>1. entry.rows = call[r].selected
      OBVIOUS
    <3> QED
      BY <2>1, <3>1, Zenon DEF Ledger!Disclosable, EnteredRows
  <2> QED
    BY <1>2, <2>2, <2>3
<1> QED
  BY <1>6, <1>7

\* A search enters a part of the context and delivers it at once.
LEMMA SearchImplements ==
    ASSUME TypeOK, PipelineInv, NEW r \in Request, NEW ts \in SUBSET Content,
           MemorySearch(r, ts), receipt' # receipt
    PROVE  \E g \in Grant : \E rows \in SUBSET Ledger!Eligible(g) :
              Ledger!Search(r, g, rows)
<1> DEFINE found == Matches(call[r].grant, ts)
<1>0. RequestInv(r)
  BY DEF PipelineInv
<1>1. /\ stage[r] = "admitted"
      /\ call[r].destination = McpDestination
      /\ UNCHANGED vaultVars
      /\ call' = [call EXCEPT ![r].selected = found]
      /\ receipt' = [receipt EXCEPT ![r] = [status |-> "authorized",
                                            destination |-> call[r].destination,
                                            grant |-> call[r].grant,
                                            memories |-> Ids(found)]]
      /\ wire' = [wire EXCEPT ![r] = [handed |-> TRUE,
                                      destination |-> call[r].destination,
                                      prompt |-> call[r].prompt,
                                      body |-> found]]
  BY DEF MemorySearch, Goto, WriteReceipt, HandOver
<1>2. receipt[r].status = "none" /\ ~wire[r].handed
  BY <1>0, <1>1 DEF RequestInv
<1>3. /\ call[r].grant \in Grant
      /\ GrantPermits(call[r].grant, McpDestination)
      /\ found \in SUBSET Eligible(call[r].grant)
  BY <1>1 DEF MemorySearch, GrantStands, Matches, Fitting, TypeOK, DisclosureTypeOK, CallRow
<1>4. EnteredRows' = EnteredRows \cup
         {[request |-> r, grant |-> call[r].grant,
           destination |-> McpDestination, rows |-> found]}
  <2>1. /\ receipt'[r].status # "none" /\ receipt'[r].grant = call[r].grant
        /\ receipt'[r].destination = McpDestination
        /\ call'[r].selected = found
        /\ \A q \in Request \ {r} : receipt'[q] = receipt[q] /\ call'[q] = call[q]
    BY <1>1 DEF TypeOK, DisclosureTypeOK, CallRow
  <2> HIDE DEF found
  <2> QED
    BY <1>2, <2>1, OneMoreEntry
<1>5. DeliveredRows' = DeliveredRows \cup
         {[request |-> r, destination |-> McpDestination, rows |-> found]}
  BY <1>1, <1>2, OneMoreDelivery DEF TypeOK, DisclosureTypeOK
<1>6. /\ ~ \E e \in EnteredRows : e.request = r
      /\ ~ \E e \in DeliveredRows : e.request = r
  BY <1>2, Fresh
<1> HIDE DEF found
<1>7. PICK g, rows : g = call[r].grant /\ rows = found
  OBVIOUS
<1>8. Ledger!Search(r, g, rows)
  BY <1>7, <1>1, <1>3, <1>4, <1>5, <1>6, SameReads
     DEF Ledger!Search, Ledger!Entered, Ledger!Delivered, Ledger!Entry,
         Ledger!Delivery, EnteredRows, DeliveredRows, vaultVars, Ledger!vaultVars
<1>9. g \in Grant /\ rows \in SUBSET Ledger!Eligible(g)
  BY <1>3, <1>7, SameReads
<1> QED
  BY <1>8, <1>9

LEMMA HandlerImplements ==
    ASSUME TypeOK, PipelineInv, NEW r \in Request, Handler(r) \/ Drop(r)
    PROVE  \/ Ledger!LedgerNext
           \/ UNCHANGED <<vaultVars, EnteredRows, DeliveredRows>>
<1>0. RequestInv(r)
  BY DEF PipelineInv
<1>1. CASE Revalidate(r) /\ call[r].selected # {}
  <2>1. call[r].grant \in Grant /\ call[r].destination \in Destination
    <3>1. stage[r] = "cleared" /\ call[r].grant # NoGrant
      BY <1>1 DEF Revalidate, Goto, Snapshot
    <3> QED
      BY <1>0, <3>1
         DEF RequestInv, TypeOK, DisclosureTypeOK, CallRow, AnyDestination
  <2>2. PICK g \in Grant, d \in Destination :
             g = call[r].grant /\ d = call[r].destination
    BY <2>1
  <2>3. Ledger!Authorize(r, g, d)
    BY <1>1, <2>2, RevalidateImplements
  <2> QED
    BY <2>3 DEF Ledger!LedgerNext
<1>2. CASE Send(r)
  <2>1. PICK d, rows : d = call[r].destination /\ rows = call[r].selected
    OBVIOUS
  <2>2. Ledger!Deliver(r, d, rows) /\ d \in Destination /\ rows \in Ledger!Disclosable
    BY <1>2, <2>1, SendImplements
  <2> QED
    BY <2>2 DEF Ledger!LedgerNext
<1>3. ASSUME NEW ts \in SUBSET Content, MemorySearch(r, ts), receipt' # receipt
      PROVE  Ledger!LedgerNext
  BY <1>3, SearchImplements, Zenon DEF Ledger!LedgerNext
<1>4. ASSUME UNCHANGED vaultVars, wire' = wire, receipt' = receipt,
             \A q \in Request : receipt[q].status # "none" =>
                 call'[q].selected = call[q].selected
      PROVE  UNCHANGED <<vaultVars, EnteredRows, DeliveredRows>>
  BY <1>4, Stutters
<1>5. CASE SelectContext(r)
  <2>1. receipt[r].status = "none"
    BY <1>0, <1>5 DEF SelectContext, Goto, RequestInv
  <2> QED
    BY <1>4, <1>5, <2>1 DEF SelectContext, TypeOK, DisclosureTypeOK
<1>6. CASE SelectDenied(r) \/ SearchDenied(r) \/ Inspect(r) \/ Malformed(r) \/ Clear(r)
  BY <1>4, <1>6 DEF SelectDenied, SearchDenied, Inspect, Malformed, Clear
<1>7. CASE ClearDenied(r) \/ RevalidateDenied(r) \/ Journal(r) \/ JournalFails(r)
           \/ Drop(r)
  BY <1>4, <1>7 DEF ClearDenied, RevalidateDenied, Journal, JournalFails, Drop
<1>8. CASE Revalidate(r) /\ call[r].selected = {}
  BY <1>4, <1>8 DEF Revalidate
<1>9. ASSUME NEW status \in {"sent", "send_failed_or_partial"}, Settle(r, status)
      PROVE  UNCHANGED <<vaultVars, EnteredRows, DeliveredRows>>
  <2>1. UNCHANGED <<vaultVars, call, wire>>
    BY <1>9 DEF Settle
  <2>2. \A q \in Request :
           /\ (receipt'[q].status # "none") = (receipt[q].status # "none")
           /\ receipt'[q].grant = receipt[q].grant
           /\ receipt'[q].destination = receipt[q].destination
    BY <1>9 DEF Settle, TypeOK, DisclosureTypeOK, ReceiptRow
  <2> QED
    BY <2>1, <2>2, Stutters
<1>10. ASSUME NEW ts \in SUBSET Content, MemorySearch(r, ts), receipt' = receipt
       PROVE  UNCHANGED <<vaultVars, EnteredRows, DeliveredRows>>
  <2>1. stage[r] = "admitted" /\ UNCHANGED vaultVars
    BY <1>10 DEF MemorySearch, Goto
  <2>2. receipt[r].status = "none"
    BY <1>0, <2>1 DEF RequestInv
  <2>3. wire' = wire
    BY <1>10, <2>2 DEF MemorySearch, WriteReceipt, TypeOK, DisclosureTypeOK
  <2>4. \A q \in Request : receipt[q].status # "none" =>
           call'[q].selected = call[q].selected
    BY <1>10, <2>2 DEF MemorySearch, TypeOK, DisclosureTypeOK
  <2> QED
    BY <1>4, <1>10, <2>1, <2>3, <2>4
<1> QED
  BY <1>1, <1>2, <1>3, <1>5, <1>6, <1>7, <1>8, <1>9, <1>10
     DEF Handler, SendOk, SendError

LEMMA NextImplements ==
    ASSUME TypeOK, PipelineInv, [Next]_vars
    PROVE  Ledger!LedgerNext \/ UNCHANGED <<vaultVars, EnteredRows, DeliveredRows>>
<1>1. CASE VaultStep
  <2>1. EnteredRows' = EnteredRows /\ DeliveredRows' = DeliveredRows
    BY <1>1 DEF VaultStep, requestVars, EnteredRows, DeliveredRows
  <2> QED
    BY <1>1, <2>1, SameVault
       DEF VaultStep, Ledger!LedgerNext, EnteredRows, DeliveredRows
<1>2. ASSUME NEW r \in Request, NEW p \in Principal, NEW d \in AnyDestination,
             NEW g \in Grant \cup {NoGrant}, NEW c \in Content, Admit(r, p, d, g, c)
      PROVE  UNCHANGED <<vaultVars, EnteredRows, DeliveredRows>>
  <2>1. receipt[r].status = "none"
    BY <1>2 DEF Admit, Goto, PipelineInv, RequestInv
  <2> QED
    BY <1>2, <2>1, Stutters DEF Admit, TypeOK, DisclosureTypeOK
<1>3. ASSUME NEW r \in Request, Handler(r) \/ Drop(r)
      PROVE  Ledger!LedgerNext \/ UNCHANGED <<vaultVars, EnteredRows, DeliveredRows>>
  BY <1>3, HandlerImplements
<1>4. CASE Crash \/ UNCHANGED vars
  BY <1>4, Stutters DEF Crash, vars, requestVars
<1> QED
  BY <1>1, <1>2, <1>3, <1>4 DEF Next

\* The pipeline's many critical sections amount to one atomic disclosure.
THEOREM PipelineImplementsLedger == Spec => ImplementsLedger
<1>1. Init => Ledger!LedgerInit
  BY InitImplements
<1>2. TypeOK /\ PipelineInv /\ [Next]_vars => [Ledger!LedgerNext]_(Ledger!ledgerVars)
  BY NextImplements
     DEF Ledger!ledgerVars, Ledger!vaultVars, vaultVars, EnteredRows, DeliveredRows
<1> QED
  BY <1>1, <1>2, TypeInvariant, PipelineInvariant, PTL
     DEF Spec, ImplementsLedger, Ledger!LedgerSpec

==============================================================================
