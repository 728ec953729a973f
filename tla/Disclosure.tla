------------------------------ MODULE Disclosure ------------------------------
(***************************************************************************)
(* How memories leave the vault: the gateway pipeline upstream() of        *)
(* crates/omni-core/src/http.rs, reached from chat() and proxy(), and the  *)
(* memory_search tool of mcp().                                            *)
(*                                                                         *)
(* The pipeline takes and releases the vault lock several times for one    *)
(* request.  Every critical section is one action; between two of them any *)
(* other request and any owner operation of module Vault may run.  The     *)
(* network send is the only await, so a disconnected caller can only drop  *)
(* the handler there; the process may die anywhere.                        *)
(***************************************************************************)
EXTENDS Vault

CONSTANT Request    \* requests that may arrive

VARIABLES
    stage,      \* how far each request's handler has come
    call,       \* what each request asks for, and its memory snapshot
    decision,   \* policy_decisions: the verdict on each request's body
    receipt,    \* receipts table, by the request that wrote the row
    wire        \* what was handed to the HTTP client or the MCP caller

requestVars == <<stage, call, decision, receipt, wire>>
vars == <<vaultVars, requestVars>>

------------------------------------------------------------------------------
Stage == {"idle",
          "admitted",    \* auth() accepted the bearer token
          "selected",    \* context snapshot taken
          "inspected",   \* policy allowed the complete body
          "cleared",     \* authorize_principal repeated
          "receipted",   \* context revalidated, receipt written if any
          "journaled",   \* source baseline read, exchange and attribution rows
          "sending",     \* bytes handed over, answer awaited
          "answered", "denied", "failed", "dropped", "lost"}

Final == {"answered", "denied", "failed", "dropped", "lost"}

\* A snapshot or body: memory identifiers with the rows as they were read.
Rows == SUBSET (Memory \X MemoryRow)

Ids(rows) == {x[1] : x \in rows}
Texts(rows) == {x[2].content : x \in rows}

CallRow ==
    [principal : Principal,
     destination : AnyDestination,
     grant : Grant \cup {NoGrant},
     prompt : Content,
     selected : Rows]

DecisionRow ==
    [verdict : {"none", "allowed", "managed", "local"},
     revision : 0..MaxRevision]

ReceiptRow ==
    [status : {"none", "authorized", "sent", "send_failed_or_partial"},
     destination : AnyDestination,
     grant : Grant \cup {NoGrant},
     memories : SUBSET Memory]

WireRow ==
    [handed : BOOLEAN,
     destination : AnyDestination,
     prompt : Content,
     body : Rows]

DisclosureTypeOK ==
    /\ stage \in [Request -> Stage]
    /\ call \in [Request -> CallRow]
    /\ decision \in [Request -> DecisionRow]
    /\ receipt \in [Request -> ReceiptRow]
    /\ wire \in [Request -> WireRow]

\* Every variable holds a value of its type.
TypeOK == VaultTypeOK /\ DisclosureTypeOK

Init ==
    /\ VaultInit
    /\ stage = [r \in Request |-> "idle"]
    /\ call = [r \in Request |->
                  [principal |-> Owner, destination |-> McpDestination,
                   grant |-> NoGrant, prompt |-> NoText,
                   selected |-> {}]]
    /\ decision = [r \in Request |-> [verdict |-> "none", revision |-> 0]]
    /\ receipt = [r \in Request |->
                  [status |-> "none", destination |-> McpDestination,
                   grant |-> NoGrant, memories |-> {}]]
    /\ wire = [r \in Request |->
                  [handed |-> FALSE, destination |-> McpDestination,
                   prompt |-> NoText, body |-> {}]]

------------------------------------------------------------------------------
Goto(r, from, to) ==
    /\ stage[r] = from
    /\ stage' = [stage EXCEPT ![r] = to]

\* Mutant of Body: the inspection runs before the context is injected.
PromptOnly(r) == {call[r].prompt}

\* The texts a policy inspects: the caller's prompt and the injected memories.
Body(r) == {call[r].prompt} \cup Texts(call[r].selected)

\* A grant, when one is presented, still authorizes the destination.
GrantStands(r) ==
    call[r].grant # NoGrant =>
        GrantPermits(call[r].grant, call[r].destination)

Snapshot(r) == IF call[r].grant = NoGrant THEN {} ELSE Context(call[r].grant)

RecordVerdict(r, texts) ==
    decision' = [decision EXCEPT ![r] = [verdict |-> Verdict(texts),
                                         revision |-> revision]]

WriteReceipt(r, rows) ==
    receipt' = [receipt EXCEPT ![r] = [status |-> "authorized",
                                       destination |-> call[r].destination,
                                       grant |-> call[r].grant,
                                       memories |-> Ids(rows)]]

HandOver(r, rows) ==
    wire' = [wire EXCEPT ![r] = [handed |-> TRUE,
                                 destination |-> call[r].destination,
                                 prompt |-> call[r].prompt,
                                 body |-> rows]]

------------------------------------------------------------------------------
\* auth(), then selected_provider: the provider's base URL is fixed from here.
Admit(r, p, d, g, prompt) ==
    /\ Authenticated(p)
    /\ d = McpDestination => p \notin Client
    /\ Goto(r, "idle", "admitted")
    /\ call' = [call EXCEPT ![r] = [principal |-> p, destination |-> d,
                                    grant |-> g, prompt |-> prompt,
                                    selected |-> {}]]
    /\ UNCHANGED <<vaultVars, decision, receipt, wire>>

\* The first critical section authorizes the principal and snapshots context.
SelectContext(r) ==
    /\ call[r].destination # McpDestination
    /\ AuthorizePrincipal(call[r].principal, call[r].destination, call[r].grant)
    /\ GrantStands(r)
    /\ Goto(r, "admitted", "selected")
    /\ call' = [call EXCEPT ![r].selected = Snapshot(r)]
    /\ UNCHANGED <<vaultVars, decision, receipt, wire>>

SelectDenied(r) ==
    /\ call[r].destination # McpDestination
    /\ \/ ~AuthorizePrincipal(call[r].principal, call[r].destination,
                              call[r].grant)
       \/ ~GrantStands(r)
    /\ Goto(r, "admitted", "denied")
    /\ UNCHANGED <<vaultVars, call, decision, receipt, wire>>

\* enforce_policy on the complete outbound body; the verdict is recorded
\* whichever way it goes, and only "allowed" goes on.
Inspect(r) ==
    /\ Goto(r, "selected",
            IF Verdict(Body(r)) = "allowed" THEN "inspected" ELSE "denied")
    /\ RecordVerdict(r, Body(r))
    /\ UNCHANGED <<vaultVars, call, receipt, wire>>

\* prepare_files, inject_context or Inspection::new refuses the body.
Malformed(r) ==
    /\ Goto(r, "selected", "failed")
    /\ UNCHANGED <<vaultVars, call, decision, receipt, wire>>

Clear(r) ==
    /\ AuthorizePrincipal(call[r].principal, call[r].destination, call[r].grant)
    /\ Goto(r, "inspected", "cleared")
    /\ UNCHANGED <<vaultVars, call, decision, receipt, wire>>

\* Mutant of ClearDenied: the handler tries again instead of failing.
ClearDeniedRetries(r) ==
    /\ ~AuthorizePrincipal(call[r].principal, call[r].destination,
                           call[r].grant)
    /\ Goto(r, "inspected", "inspected")
    /\ UNCHANGED <<vaultVars, call, decision, receipt, wire>>

ClearDenied(r) ==
    /\ ~AuthorizePrincipal(call[r].principal, call[r].destination,
                           call[r].grant)
    /\ Goto(r, "inspected", "denied")
    /\ UNCHANGED <<vaultVars, call, decision, receipt, wire>>

\* Mutants of Revalidate: the grant alone is checked again; ...
RevalidateGrant(r) ==
    /\ GrantStands(r)
    /\ Goto(r, "cleared", "receipted")
    /\ IF call[r].selected = {}
       THEN receipt' = receipt
       ELSE WriteReceipt(r, call[r].selected)
    /\ UNCHANGED <<vaultVars, call, decision, wire>>

\* ... identifiers are compared, not rows; ...
RevalidateIds(r) ==
    /\ GrantStands(r)
    /\ Ids(Snapshot(r)) = Ids(call[r].selected)
    /\ Goto(r, "cleared", "receipted")
    /\ IF call[r].selected = {}
       THEN receipt' = receipt
       ELSE WriteReceipt(r, call[r].selected)
    /\ UNCHANGED <<vaultVars, call, decision, wire>>

\* ... the context is compared, but no receipt is written.
RevalidateUnreceipted(r) ==
    /\ GrantStands(r)
    /\ Snapshot(r) = call[r].selected
    /\ Goto(r, "cleared", "receipted")
    /\ UNCHANGED <<vaultVars, call, decision, receipt, wire>>

\* current_context_receipt: select again and compare whole rows.  An empty
\* selection is allowed without a receipt.
Revalidate(r) ==
    /\ GrantStands(r)
    /\ Snapshot(r) = call[r].selected
    /\ Goto(r, "cleared", "receipted")
    /\ IF call[r].selected = {}
       THEN receipt' = receipt
       ELSE WriteReceipt(r, call[r].selected)
    /\ UNCHANGED <<vaultVars, call, decision, wire>>

RevalidateDenied(r) ==
    /\ ~GrantStands(r) \/ Snapshot(r) # call[r].selected
    /\ Goto(r, "cleared", "denied")
    /\ UNCHANGED <<vaultVars, call, decision, receipt, wire>>

\* The sources of the selected memories are still there to be measured.
SourcesLive(r) == \A m \in Ids(call[r].selected) : source[SourceOf[m]] = "live"

\* journal_source_bytes, ExchangeTrace::new, record_work_request.
Journal(r) ==
    /\ SourcesLive(r)
    /\ Goto(r, "receipted", "journaled")
    /\ UNCHANGED <<vaultVars, call, decision, receipt, wire>>

\* A source deleted after the receipt fails the request; so does a database
\* error in any of the three writes.  The receipt stays "authorized".
JournalFails(r) ==
    /\ Goto(r, "receipted", "failed")
    /\ UNCHANGED <<vaultVars, call, decision, receipt, wire>>

\* request.send(): the body serialized before the final checks goes out.
Send(r) ==
    /\ Goto(r, "journaled", "sending")
    /\ HandOver(r, call[r].selected)
    /\ UNCHANGED <<vaultVars, call, decision, receipt>>

\* Mutants of Settle: every outcome is recorded as sent; ...
SettleSent(r, status) ==
    /\ Goto(r, "sending", IF status = "sent" THEN "answered" ELSE "failed")
    /\ receipt' = IF receipt[r].status = "none" THEN receipt
                  ELSE [receipt EXCEPT ![r].status = "sent"]
    /\ UNCHANGED <<vaultVars, call, decision, wire>>

\* ... the receipt is forgotten; ...
SettleForgotten(r, status) ==
    /\ Goto(r, "sending", IF status = "sent" THEN "answered" ELSE "failed")
    /\ UNCHANGED <<vaultVars, call, decision, receipt, wire>>

\* ... the exchange's vocabulary is written instead of the receipt's.
SettleOutcome(r, status) ==
    /\ Goto(r, "sending", IF status = "sent" THEN "answered" ELSE "failed")
    /\ receipt' = IF receipt[r].status = "none" THEN receipt
                  ELSE [receipt EXCEPT ![r].status = "succeeded"]
    /\ UNCHANGED <<vaultVars, call, decision, wire>>

\* One critical section after the await: the receipt gets its outcome.
Settle(r, status) ==
    /\ Goto(r, "sending", IF status = "sent" THEN "answered" ELSE "failed")
    /\ receipt' = IF receipt[r].status = "none" THEN receipt
                  ELSE [receipt EXCEPT ![r].status = status]
    /\ UNCHANGED <<vaultVars, call, decision, wire>>

SendOk(r) == Settle(r, "sent")
SendError(r) == Settle(r, "send_failed_or_partial")

\* The caller went away, or the settling write failed: the future is dropped
\* and the receipt keeps the status it had.
Drop(r) ==
    /\ Goto(r, "sending", "dropped")
    /\ UNCHANGED <<vaultVars, call, decision, receipt, wire>>

------------------------------------------------------------------------------
(* memory_search: context, policy, receipt and answer in one section *)

\* Without a grant, or with one that does not permit the capability, nothing
\* is recorded.
SearchDenied(r) ==
    /\ call[r].destination = McpDestination
    /\ call[r].grant = NoGrant \/ ~GrantStands(r)
    /\ Goto(r, "admitted", "denied")
    /\ UNCHANGED <<vaultVars, call, decision, receipt, wire>>

\* Selection, verdict, receipt and answer share one critical section.
MemorySearch(r, matching) ==
    LET found == Matches(call[r].grant, matching)
        texts == {call[r].prompt} \cup Texts(found)
    IN  /\ call[r].destination = McpDestination
        /\ call[r].grant # NoGrant
        /\ GrantStands(r)
        /\ call' = [call EXCEPT ![r].selected = found]
        /\ RecordVerdict(r, texts)
        /\ IF Verdict(texts) = "allowed"
           THEN /\ Goto(r, "admitted", "answered")
                /\ WriteReceipt(r, found)
                /\ HandOver(r, found)
           ELSE /\ Goto(r, "admitted", "denied")
                /\ UNCHANGED <<receipt, wire>>
        /\ UNCHANGED vaultVars

------------------------------------------------------------------------------
\* The process dies: no handler survives, every table does.
Crash ==
    /\ stage' = [r \in Request |->
                    IF stage[r] \in Final \cup {"idle"} THEN stage[r]
                                                        ELSE "lost"]
    /\ UNCHANGED <<vaultVars, call, decision, receipt, wire>>

\* The steps a handler takes by itself once it was admitted.
Handler(r) ==
    \/ SelectContext(r) \/ SelectDenied(r)
    \/ Inspect(r) \/ Malformed(r)
    \/ Clear(r) \/ ClearDenied(r)
    \/ Revalidate(r) \/ RevalidateDenied(r)
    \/ Journal(r) \/ JournalFails(r)
    \/ Send(r)
    \/ SendOk(r) \/ SendError(r)
    \/ SearchDenied(r)
    \/ \E ts \in SUBSET Content : MemorySearch(r, ts)

VaultStep == VaultNext /\ UNCHANGED requestVars

Next ==
    \/ VaultStep
    \/ \E r \in Request :
          \/ \E p \in Principal, d \in AnyDestination,
                g \in Grant \cup {NoGrant}, c \in Content : Admit(r, p, d, g, c)
          \/ Handler(r)
          \/ Drop(r)
    \/ Crash

Spec == Init /\ [][Next]_vars

\* A handler runs synchronously to its await, and every HTTP client it uses
\* has a timeout, so an admitted handler keeps taking steps.
HandlerRuns(r) == WF_vars(Handler(r))

FairSpec == Spec /\ \A r \in Request : HandlerRuns(r)

------------------------------------------------------------------------------
(* Safety *)

\* No memory outlives the source it was derived from: edits, captures and both
\* kinds of deletion keep the two tables in step.
NoOrphan ==
    \A m \in Memory : Present(m) => source[SourceOf[m]] = "live"

\* Context never travels without its receipt: whatever rows were handed over,
\* a receipt for the same destination names exactly their identifiers, under a
\* grant for that destination whose scope holds them all.
WireWitnessed ==
    \A r \in Request : wire[r].handed /\ wire[r].body # {} =>
        /\ receipt[r].status # "none"
        /\ receipt[r].destination = wire[r].destination
        /\ receipt[r].memories = Ids(wire[r].body)
        /\ receipt[r].grant \in Grant
        /\ grant[receipt[r].grant].destination = wire[r].destination
        /\ receipt[r].memories \subseteq grant[receipt[r].grant].scope

\* The bytes handed over were inspected as a whole, prompt and injected
\* memories: neither the managed baseline nor the policy revision the recorded
\* decision names denies any of them.
PolicyCovers ==
    \A r \in Request : wire[r].handed =>
        LET sent == {wire[r].prompt} \cup Texts(wire[r].body)
        IN  /\ decision[r].verdict = "allowed"
            /\ sent \cap ManagedBlocked = {}
            /\ sent \cap blocked[decision[r].revision] = {}

\* A receipt never claims more than happened: "sent" and "failed" are only
\* written for bytes that were handed over, and for the outcome they met.
ReceiptTruth ==
    \A r \in Request :
        /\ receipt[r].status = "sent" => wire[r].handed /\ stage[r] = "answered"
        /\ receipt[r].status = "send_failed_or_partial" =>
               wire[r].handed /\ stage[r] = "failed"

\* Revoking a client leaves it no usable grant, whenever the grant was bound.
RevokedClientHoldsNothing ==
    \A g \in Grant : grant[g].state = "active" /\ grant[g].holder # NoClient =>
        client[grant[g].holder].state = "active"

ReceiptsUnder(g) ==
    {r \in Request : receipt[r].status # "none" /\ receipt[r].grant = g}

ReceiptsOf(c) ==
    {r \in Request : receipt[r].status # "none" /\ call[r].principal = c}

ReceiptsNaming(m) ==
    {r \in Request : receipt[r].status # "none" /\ m \in receipt[r].memories}

\* Once a grant is revoked, no request, not even one that had read its context
\* before, obtains another receipt under it.
GrantRevocationCloses ==
    [][\A g \in Grant : grant[g].state = "revoked" =>
           ReceiptsUnder(g)' = ReceiptsUnder(g)]_vars

\* The same for a client: revoked between the last principal check and the
\* context check, its request is still stopped.
ClientRevocationCloses ==
    [][\A c \in Client : client[c].state = "revoked" =>
           ReceiptsOf(c)' = ReceiptsOf(c)]_vars

\* Revocation, of a grant or of a client, stops whatever is under way.
RevocationCloses == GrantRevocationCloses /\ ClientRevocationCloses

\* A memory that is not confirmed now (disputed, superseded, deleted) gains no
\* new receipt, whatever a snapshot taken earlier says.
WithdrawalCloses ==
    [][\A m \in Memory : memory[m].status # "confirmed" =>
           ReceiptsNaming(m)' = ReceiptsNaming(m)]_vars

------------------------------------------------------------------------------
(* The inductive invariant: what a handler has established so far *)

\* The receipt row of r is the true account of its snapshot and its grant.
Receipted(r) ==
    LET g == call[r].grant
    IN  /\ receipt[r].destination = call[r].destination
        /\ receipt[r].grant = g
        /\ receipt[r].memories = Ids(call[r].selected)
        /\ g \in Grant
        /\ grant[g].state # "unused"
        /\ grant[g].destination = call[r].destination
        /\ Ids(call[r].selected) \subseteq grant[g].scope

\* The body was inspected and no rule then in force denies it.
Inspected(r) ==
    /\ decision[r].verdict = "allowed"
    /\ Body(r) \cap ManagedBlocked = {}
    /\ Body(r) \cap blocked[decision[r].revision] = {}

\* A client's request uses a grant bound to that client.
OwnGrant(r) ==
    call[r].principal \in Client /\ call[r].grant # NoGrant =>
        /\ grant[call[r].grant].state # "unused"
        /\ grant[call[r].grant].holder = call[r].principal

RequestInv(r) ==
    /\ stage[r] \in {"idle", "admitted", "selected", "inspected", "cleared"} =>
           receipt[r].status = "none" /\ ~wire[r].handed
    /\ stage[r] \in {"receipted", "journaled"} =>
           /\ ~wire[r].handed
           /\ receipt[r].status \in {"none", "authorized"}
           /\ call[r].selected # {} => receipt[r].status # "none"
    /\ stage[r] = "sending" =>
           wire[r].handed /\ receipt[r].status \in {"none", "authorized"}
    /\ stage[r] \in {"inspected", "cleared", "receipted", "journaled"} => Inspected(r)
    /\ stage[r] \in {"selected", "inspected", "cleared"} => OwnGrant(r)
    /\ stage[r] \in {"selected", "inspected", "cleared", "receipted", "journaled",
                     "sending"} => call[r].destination # McpDestination
    /\ stage[r] = "admitted" /\ call[r].destination = McpDestination =>
           call[r].principal \notin Client
    /\ receipt[r].status # "none" => Receipted(r)
    /\ receipt[r].status = "sent" => wire[r].handed /\ stage[r] = "answered"
    /\ receipt[r].status = "send_failed_or_partial" =>
           wire[r].handed /\ stage[r] = "failed"
    /\ wire[r].handed =>
           /\ Inspected(r)
           /\ wire[r].body = call[r].selected
           /\ wire[r].destination = call[r].destination
           /\ wire[r].prompt = call[r].prompt
           /\ call[r].selected # {} => receipt[r].status # "none"
    /\ decision[r].revision <= revision

\* What every handler knows about its request, at every stage.
PipelineInv == \A r \in Request : RequestInv(r)

\* The state of the vault and of every handler fits together: no memory
\* outlives its source whatever deletions were done, a revoked client has no
\* usable grant, and what each handler believes of its request is true.
DisclosureInv ==
    /\ TypeOK
    /\ NoOrphan
    /\ RevokedClientHoldsNothing
    /\ PipelineInv

------------------------------------------------------------------------------
(* Refinement *)

\* The rows a receipt stands for, and what each request really sent.
Ledger == INSTANCE DisclosureLedger WITH
    ledger <- {[request |-> r, grant |-> receipt[r].grant,
                destination |-> receipt[r].destination,
                rows |-> call[r].selected] :
                  r \in {x \in Request : receipt[x].status # "none"}},
    delivered <- {[request |-> r, destination |-> wire[r].destination,
                   rows |-> wire[r].body] :
                     r \in {x \in Request : wire[x].handed}}

\* The many critical sections of a request amount to one atomic disclosure of
\* current, confirmed, in-scope rows under a standing grant, and exactly those
\* rows are what leaves.
ImplementsLedger == Ledger!LedgerSpec

------------------------------------------------------------------------------
(* Liveness *)

\* No handler is ever stuck: from its admission to its end one of its own
\* steps is possible, whatever the owner did to the rows it depends on.
HandlersCanRun ==
    \A r \in Request :
        stage[r] \notin Final \cup {"idle"} => ENABLED <<Handler(r)>>_vars

\* A receipt of an admitted gateway request does not stay "authorized" unless
\* its handler failed before sending, was dropped, or died with the process.
ReceiptSettles ==
    \A r \in Request :
        (receipt[r].status = "authorized" /\ stage[r] = "journaled") ~>
            \/ receipt[r].status \in {"sent", "send_failed_or_partial"}
            \/ stage[r] \in {"dropped", "lost"}

\* Every admitted request comes to an end.
Terminates ==
    \A r \in Request : (stage[r] = "admitted") ~> (stage[r] \in Final)

\* Every request ends, and its receipt with it.
Concludes == ReceiptSettles /\ Terminates

==============================================================================
