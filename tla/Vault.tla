-------------------------------- MODULE Vault --------------------------------
(***************************************************************************)
(* The encrypted vault of omni-core (crates/omni-core/src/vault.rs), with  *)
(* the work installation's clients (work.rs) and the local request policy  *)
(* (policy.rs).  Every operation runs under the one Mutex<Vault>, in one   *)
(* SQLite transaction, so it is one atomic step here.                      *)
(*                                                                         *)
(* Tables are functions over the finite set of identifiers the program may *)
(* ever generate.  Identifiers are fresh UUIDs, so a row that was deleted  *)
(* never comes back.  A memory row carries its content and the number of   *)
(* times it was written, which stands for updated_at: every write changes  *)
(* it, whatever the content.                                               *)
(***************************************************************************)
EXTENDS Naturals, FiniteSets

CONSTANTS
    Memory,         \* memory identifiers
    Source,         \* source identifiers
    SourceOf,       \* the source each memory is derived from
    Content,        \* the texts a memory or a prompt may hold
    Destination,    \* canonical base URLs of configured providers
    McpDestination, \* "https://omni.local/mcp", the memory_search capability
    Grant,          \* permission identifiers
    Client,         \* named client identifiers
    NoClient,       \* a grant bound to no client
    NoGrant,        \* a request that presents no grant
    Owner,          \* Principal::Owner
    Legacy,         \* Principal::Legacy, the shared integration token
    ManagedBlocked, \* the texts the operator's managed baseline denies
    Rank,           \* created_at order of the memories, newest first
    Room,           \* rows one context may hold (24 rows, 12 000 bytes)
    MaxClients,     \* unrevoked clients an installation may hold (32)
    MaxEdits,       \* bound: writes to one memory
    MaxRevision,    \* bound: local policy revisions
    MaxClock        \* bound: instants of the clock

ASSUME VaultAssumption ==
    /\ SourceOf \in [Memory -> Source]
    /\ Content # {}
    /\ Destination # {}
    /\ McpDestination \notin Destination
    /\ NoClient \notin Client
    /\ NoGrant \notin Grant
    /\ Owner \notin Client
    /\ Legacy \notin Client
    /\ Owner # Legacy
    /\ Owner # NoClient
    /\ Legacy # NoClient
    /\ ManagedBlocked \subseteq Content
    /\ Rank \in [Memory -> Nat]
    /\ Room \in Nat
    /\ MaxClients \in Nat
    /\ MaxEdits \in Nat
    /\ MaxRevision \in Nat
    /\ MaxClock \in Nat

VARIABLES
    source,         \* sources table
    memory,         \* memories table
    grant,          \* grants joined with work_grants
    client,         \* work_clients
    workEnabled,    \* work_instance.enabled
    blocked,        \* texts denied by each local policy revision; the vault
                    \* stores the newest, older entries are history
    revision,       \* revision of the policy in force
    clock           \* wall clock read by Utc::now()

vaultVars ==
    <<source, memory, grant, client, workEnabled, blocked, revision, clock>>

------------------------------------------------------------------------------
(* Rows *)

MemoryStatus == {"proposed", "confirmed", "disputed", "superseded"}

MemoryRow ==
    [status : MemoryStatus \cup {"unused", "deleted"},
     content : Content,
     edits : 0..MaxEdits]

AnyDestination == Destination \cup {McpDestination}

GrantRow ==
    [state : {"unused", "active", "revoked"},
     destination : AnyDestination,
     scope : SUBSET Memory,
     expires : 0..MaxClock + 1,
     holder : Client \cup {NoClient}]

ClientRow ==
    [state : {"unused", "active", "revoked"},
     destinations : SUBSET Destination,
     expires : 0..MaxClock + 1]

Principal == Client \cup {Owner, Legacy}

------------------------------------------------------------------------------
(* Reads *)

Present(m) == memory[m].status \in MemoryStatus

DerivedFrom(s) == {m \in Memory : SourceOf[m] = s}

\* Mutant of GrantPermits: the revoked_at check is gone.
GrantUnrevoked(g, d) ==
    /\ grant[g].state # "unused"
    /\ clock < grant[g].expires
    /\ grant[g].destination = d

\* Vault::context looks the grant up and refuses unknown, revoked, expired
\* and other destinations' grants, in that order.
GrantPermits(g, d) ==
    /\ grant[g].state = "active"
    /\ clock < grant[g].expires
    /\ grant[g].destination = d

\* The confirmed rows in scope.  A wildcard scope is the whole of Memory.
Eligible(g) ==
    {<<m, memory[m]>> : m \in {x \in grant[g].scope :
                                 memory[x].status = "confirmed"}}

\* The newest rows that fit the budget.  All texts count as equally long here,
\* so the byte budget, which skips a row that is too long, is the row budget.
Fitting(rows) ==
    {x \in rows :
        Cardinality({y \in rows : Rank[y[1]] < Rank[x[1]]}) < Room}

\* What Vault::context selects under a grant, without a query ...
Context(g) == Fitting(Eligible(g))

\* ... and with one, which filters before the budget is spent: any choice of
\* texts is some query's.
Matches(g, matching) == Fitting({x \in Eligible(g) : x[2].content \in matching})

ClientActive(c) ==
    /\ workEnabled
    /\ client[c].state = "active"
    /\ clock < client[c].expires

\* auth(): the principal a bearer token stands for, if any.
Authenticated(p) ==
    \/ p = Owner
    \/ p = Legacy /\ ~workEnabled
    \/ p \in Client /\ ClientActive(p)

\* Mutant of AuthorizePrincipal: a grant need not be the client's own.
AuthorizeUnbound(p, d, g) ==
    \/ p = Owner
    \/ p = Legacy /\ ~workEnabled
    \/ /\ p \in Client
       /\ ClientActive(p)
       /\ d \in client[p].destinations

\* A client is confined to its destinations and to grants bound to it.
AuthorizePrincipal(p, d, g) ==
    \/ p = Owner
    \/ p = Legacy /\ ~workEnabled
    \/ /\ p \in Client
       /\ ClientActive(p)
       /\ d \in client[p].destinations
       /\ g # NoGrant => grant[g].holder = p

\* policy_evaluate: the managed layer first, then the local revision.
Verdict(texts) ==
    IF texts \cap ManagedBlocked # {} THEN "managed"
    ELSE IF texts \cap blocked[revision] # {} THEN "local"
    ELSE "allowed"

------------------------------------------------------------------------------
VaultTypeOK ==
    /\ source \in [Source -> {"unused", "live", "deleted"}]
    /\ memory \in [Memory -> MemoryRow]
    /\ grant \in [Grant -> GrantRow]
    /\ client \in [Client -> ClientRow]
    /\ workEnabled \in BOOLEAN
    /\ blocked \in [0..MaxRevision -> SUBSET Content]
    /\ revision \in 0..MaxRevision
    /\ clock \in 0..MaxClock

\* The content of a row nobody has written yet.
NoText == CHOOSE c \in Content : TRUE

VaultInit ==
    /\ source = [s \in Source |-> "unused"]
    /\ memory = [m \in Memory |->
                    [status |-> "unused",
                     content |-> NoText,
                     edits |-> 0]]
    /\ grant = [g \in Grant |->
                    [state |-> "unused",
                     destination |-> McpDestination,
                     scope |-> {},
                     expires |-> 0,
                     holder |-> NoClient]]
    /\ client = [c \in Client |->
                    [state |-> "unused", destinations |-> {}, expires |-> 0]]
    /\ workEnabled = FALSE
    /\ blocked = [n \in 0..MaxRevision |-> {}]
    /\ revision = 0
    /\ clock = 0

------------------------------------------------------------------------------
(* Memory administration *)

NewRow(status, content) ==
    [status |-> status, content |-> content, edits |-> 0]

\* One memory with a source of its own, typed by the owner or proposed by an
\* integration through memory_propose.
AddMemory(m, content, status) ==
    /\ source[SourceOf[m]] = "unused"
    /\ source' = [source EXCEPT ![SourceOf[m]] = "live"]
    /\ memory' = [memory EXCEPT ![m] = NewRow(status, content)]
    /\ UNCHANGED <<grant, client, workEnabled, blocked, revision, clock>>

\* At most five proposals derived from one captured source.
AddCapture(s, proposals, content) ==
    /\ source[s] = "unused"
    /\ proposals \subseteq DerivedFrom(s)
    /\ Cardinality(proposals) <= 5
    /\ source' = [source EXCEPT ![s] = "live"]
    /\ memory' = [m \in Memory |->
                     IF m \in proposals THEN NewRow("proposed", content)
                                        ELSE memory[m]]
    /\ UNCHANGED <<grant, client, workEnabled, blocked, revision, clock>>

UpdateMemory(m, content, status) ==
    /\ Present(m)
    /\ memory[m].edits < MaxEdits
    /\ memory' = [memory EXCEPT ![m] = [status |-> status,
                                        content |-> content,
                                        edits |-> @.edits + 1]]
    /\ UNCHANGED <<source, grant, client, workEnabled, blocked, revision, clock>>

\* The last memory derived from a source takes the source with it.
DeleteMemory(m) ==
    /\ Present(m)
    /\ memory' = [memory EXCEPT ![m].status = "deleted"]
    /\ source' = IF \E n \in DerivedFrom(SourceOf[m]) \ {m} : Present(n)
                 THEN source
                 ELSE [source EXCEPT ![SourceOf[m]] = "deleted"]
    /\ UNCHANGED <<grant, client, workEnabled, blocked, revision, clock>>

\* Mutant of DeleteSource: the foreign key does not cascade.
DeleteSourceOnly(s) ==
    /\ source[s] = "live"
    /\ source' = [source EXCEPT ![s] = "deleted"]
    /\ UNCHANGED <<memory, grant, client, workEnabled, blocked, revision, clock>>

DeleteSource(s) ==
    /\ source[s] = "live"
    /\ source' = [source EXCEPT ![s] = "deleted"]
    /\ memory' = [m \in Memory |->
                     IF m \in DerivedFrom(s) /\ Present(m)
                     THEN [memory[m] EXCEPT !.status = "deleted"]
                     ELSE memory[m]]
    /\ UNCHANGED <<grant, client, workEnabled, blocked, revision, clock>>

------------------------------------------------------------------------------
(* Permissions *)

\* Mutant of CreateGrant: the client is not authorized before the binding.
CreateGrantUnchecked(g, d, scope, expires, holder) ==
    /\ grant[g].state = "unused"
    /\ scope # {}
    /\ scope = Memory \/ \A m \in scope : Present(m)
    /\ expires > clock
    /\ grant' = [grant EXCEPT ![g] = [state |-> "active",
                                      destination |-> d,
                                      scope |-> scope,
                                      expires |-> expires,
                                      holder |-> holder]]
    /\ UNCHANGED <<source, memory, client, workEnabled, blocked, revision, clock>>

\* The handler authorizes the client, creates the grant and binds it inside
\* one critical section.  An explicit scope names existing memories.
CreateGrant(g, d, scope, expires, holder) ==
    /\ grant[g].state = "unused"
    /\ holder # NoClient => AuthorizePrincipal(holder, d, NoGrant)
    /\ scope # {}
    /\ scope = Memory \/ \A m \in scope : Present(m)
    /\ expires > clock
    /\ grant' = [grant EXCEPT ![g] = [state |-> "active",
                                      destination |-> d,
                                      scope |-> scope,
                                      expires |-> expires,
                                      holder |-> holder]]
    /\ UNCHANGED <<source, memory, client, workEnabled, blocked, revision, clock>>

RevokeGrant(g) ==
    /\ grant[g].state # "unused"
    /\ grant' = [grant EXCEPT ![g].state = "revoked"]
    /\ UNCHANGED <<source, memory, client, workEnabled, blocked, revision, clock>>

EnableWork ==
    /\ workEnabled' = TRUE
    /\ UNCHANGED <<source, memory, grant, client, blocked, revision, clock>>

CreateClient(c, destinations, expires) ==
    /\ workEnabled
    /\ client[c].state = "unused"
    /\ destinations # {}
    /\ expires > clock
    /\ Cardinality({x \in Client : client[x].state = "active"}) < MaxClients
    /\ client' = [client EXCEPT ![c] = [state |-> "active",
                                        destinations |-> destinations,
                                        expires |-> expires]]
    /\ UNCHANGED <<source, memory, grant, workEnabled, blocked, revision, clock>>

\* Mutant of RevokeClient: the bound grants stay as they are.
RevokeClientOnly(c) ==
    /\ client[c].state # "unused"
    /\ client' = [client EXCEPT ![c].state = "revoked"]
    /\ UNCHANGED <<source, memory, grant, workEnabled, blocked, revision, clock>>

\* One transaction revokes the client and every grant bound to it.
RevokeClient(c) ==
    /\ client[c].state # "unused"
    /\ client' = [client EXCEPT ![c].state = "revoked"]
    /\ grant' = [g \in Grant |->
                    IF grant[g].holder = c /\ grant[g].state # "unused"
                    THEN [grant[g] EXCEPT !.state = "revoked"]
                    ELSE grant[g]]
    /\ UNCHANGED <<source, memory, workEnabled, blocked, revision, clock>>

------------------------------------------------------------------------------
(* Policy and time *)

\* policy_save compares the caller's revision with the stored one; a stale
\* editor is refused and changes nothing.
SavePolicy(expected, texts) ==
    /\ expected = revision
    /\ revision < MaxRevision
    /\ revision' = revision + 1
    /\ blocked' = [blocked EXCEPT ![revision + 1] = texts]
    /\ UNCHANGED <<source, memory, grant, client, workEnabled, clock>>

Tick ==
    /\ clock < MaxClock
    /\ clock' = clock + 1
    /\ UNCHANGED <<source, memory, grant, client, workEnabled, blocked, revision>>

VaultNext ==
    \/ \E m \in Memory, c \in Content, st \in MemoryStatus :
          AddMemory(m, c, st) \/ UpdateMemory(m, c, st)
    \/ \E s \in Source, ps \in SUBSET Memory, c \in Content : AddCapture(s, ps, c)
    \/ \E m \in Memory : DeleteMemory(m)
    \/ \E s \in Source : DeleteSource(s)
    \/ \E g \in Grant, d \in AnyDestination, sc \in SUBSET Memory,
          e \in 1..MaxClock + 1, h \in Client \cup {NoClient} :
          CreateGrant(g, d, sc, e, h)
    \/ \E g \in Grant : RevokeGrant(g)
    \/ EnableWork
    \/ \E c \in Client, ds \in SUBSET Destination, e \in 1..MaxClock + 1 :
          CreateClient(c, ds, e)
    \/ \E c \in Client : RevokeClient(c)
    \/ \E n \in 0..MaxRevision, ts \in SUBSET Content : SavePolicy(n, ts)
    \/ Tick

==============================================================================
