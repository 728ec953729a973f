# A TLA+ model of OMNI-OS

OMNI-OS keeps a person's memories in an encrypted local vault and lets AI
providers see chosen parts of them; a private VPN hub can carry the traffic.
This directory holds a formal model of the parts that decide what leaves, what
is recorded about it and who is let in: TLA+ modules, TLC configurations, and
TLAPS proofs. Source paths are relative to `src/`; bare Rust file names are in
`crates/omni-core/src/`.

## 1. Inventory

| Part | State it keeps | Operations | What is hard about it | What makes it correct |
| --- | --- | --- | --- | --- |
| Vault (`vault.rs`) | `sources`, `memories`, `grants`, `receipts` | add, edit, delete memories; captures; grants; receipts | deletions cascade both ways; a grant may end between two reads | no memory without its source; receipts only under a standing grant |
| Work (`work.rs`) | installation flag, clients, grant bindings, attribution | enrol, create and revoke clients, bind grants, authorize | a client revoked while its request runs | a revoked client has no usable grant and obtains no receipt |
| Gateway (`http.rs`) | one handler per request | `chat`, `proxy`, `upstream`, `mcp` | eight critical sections and one await per request | what leaves is receipted, inspected, current |
| Policy (`policy.rs`) | local revision, managed baseline, decisions | save, evaluate, prune | revision compare-and-set against another editor | every byte that leaves was judged, both layers, as a whole |
| Journal (`journal.rs`, `ExchangeTrace` in `http.rs`) | exchange records, audit trail | start, finish, stream, recover, prune, clear | late cleanup of a dropped stream; restart in the middle | a terminal record never changes and a cleared one never comes back |
| Continuity (`continuity.rs`) | saved conversations, turns, one pending request | create, prepare, finish, clear, expire | a late answer after a clear, retry or expiry | turns are append-only, one request in flight, replay is exact |
| Recovery (`recovery.rs`, `http/professional.rs`) | archive, all tables, one slot per process | export, restore | admitted under one lock, done by a worker under another; callers that go away | a restore is one step or none, brings content and no access, and lands on an unused installation only |
| Analytics (`analytics.rs`, `sender.rs`) and collector (`services/collector`) | consent, weekly reports; digests, aggregate | prepare, send; receive, publish | consent withdrawn between preparation and sending, resend after a lost answer | one randomized output per week, at most four ever, each counted once |
| Provider administration (`administration.rs`) | provider profiles, primary, discovery results | create, edit, delete, select, discover | a profile edited while a discovery or a request holds a copy of it | a key goes only where it was entered for; a result is about the profile as it is |
| Runtime (`runtime.rs`, `main.rs`) | vault lease, server task, gateway task, exported routers | start, request, stop, drop | whatever refers to the vault outlives the core; requests that never end | one owner of the vault; a shutdown that returns, and reports success only when no request of its listener or of the shell is left |
| Pairing gate (`config.rs`) | one code with a deadline | claim | several browsers at once | good for one of them, in time |
| Native shell (`apps/desktop/src-tauri`) | the embedded core, sixteen permits, startup flags | unlock, request, gateway switch, exit | shutdown against requests that borrow the core | as the runtime |
| VPN (`crates/omni-vpn`, `infra/vpn`) | nonces, identities and peers of the hub; the client's file | knock, open, prepare, commit, clean up | repeated and late datagrams, a lost acknowledgement, crashes between three copies of one state | a knock is acted on once; hub and client never lose each other's identity |
| Interface, extension, device plugin, scripts | presentation only | | | not modelled |

The core is one process. Every HTTP handler shares one `Mutex<Vault>`
(`http.rs:30-45`): a critical section is atomic, and *between* two critical
sections of one handler anything else may run. The network send is an await.
Native IPC dispatches to the same routes, so interfaces add no further
behaviour to the vault. The VPN is a separate program and shares nothing with
the core but the network below it.

How the parts interact: a chat is admitted by the gateway, takes its history
from continuity, its memories from the vault, its verdict from the policy, is
entered in the journal, sent, and read through the trace; its answer goes back
to continuity and its counters to analytics. The owner's edits, the retention
sweeps and a crash may fall between any two of these. Each module is one of
these pipelines, seen with the tables it can race against. Recovery reads and
writes all tables at once and has its own, coarser view of them. Administration
supplies the copy of a profile that the pipeline sends with; the runtime decides
which process has the vault at all.

## 2. Plan

Order: what leaves first, then what is recorded about it, then who is let in,
then the housekeeping.

| Step | Modules | Composes | Abstract specification | State |
| --- | --- | --- | --- | --- |
| 1 | `Vault`, `Disclosure` | pipeline over tables | `DisclosureLedger` | checked and proved |
| 2 | `Journal` | records and traces | `ExchangeHistory` | checked and proved |
| 3 | `Continuity` | chats over conversations | `ConversationLog` | checked and proved |
| 4 | `KnockServer`, `Rotation` | hub, client, channel | `Handover` | checked and proved |
| 5 | `Recovery` | archive over all tables, with the owner at work | `Relocation` | checked and proved |
| 6 | `Analytics`, `Histogram` | installations, a lossy upload, the collector | `Survey` | checked and proved |
| 7 | `Runtime` | cores, servers, gateways, requests over one lease | one owner of the vault, as an invariant | checked and proved |
| 8 | `Administration` | profiles, and calls that hold copies of them | | checked and proved |
| 9 | `Pairing` | browsers over one code | | checked and proved |
| 10 | chat as `Continuity` over `Journal` | | both of their specifications | open |
| 11 | usage and cost, policy inspection | pure operators | reference definitions over bounded inputs | open |
| 12 | native startup watch | | | open |

Steps 10 to 12 are the next ones; section 8 says what each would add.

## 3. Modules

### Disclosure: what leaves

* `Vault` - the tables and the owner's operations, one action for each vault
  method, each one SQLite transaction. Tables are functions over the finite set
  of identifiers ever generated; identifiers are fresh UUIDs, so a deleted row
  stays `"deleted"`. `edits` stands for `updated_at`, `Rank` for the order of
  `created_at`, `Room` for the 24 rows and 12 000 bytes a context may hold,
  with texts of equal length.
* `Disclosure` - the request pipeline over `Vault`. `stage[r]` is the place of
  the handler, `call[r]` its local variables (principal, destination, grant,
  prompt, snapshot), `decision[r]` and `receipt[r]` the rows it wrote and
  `wire[r]` what it handed over.
* `DisclosureLedger` - the abstract specification: a disclosure is entered in
  one step, with current rows under a standing grant; what is delivered is the
  entry or no memory at all.
* `MCDisclosure` - instances for TLC.
* `DisclosureProofs`, `DisclosureRefinement` - theorems and their proofs.

| Action | Code |
| --- | --- |
| `Admit` | bearer authentication, `http.rs:477-514`, provider fixed `1411`, `1542` |
| `SelectContext`, `SelectDenied` | first critical section `http.rs:1710-1722` |
| `Inspect`, `Malformed` | injection and `enforce_policy`, `1723-1742` |
| `Clear`, `ClearDenied` | repeated `authorize_principal`, `1769-1774` |
| `Revalidate`, `RevalidateDenied` | `current_context_receipt`, `vault.rs:460-475` |
| `Journal`, `JournalFails` | `1784-1822`, three fallible writes |
| `Send`, `SendOk`, `SendError`, `Drop` | `1824-1856` and the dropped future |
| `MemorySearch`, `SearchDenied` | `mcp_call`, `2144-2169` |
| `Crash` | the process dies, the tables stay |

### Journal: what is recorded

* `Journal` - `row` is `journal_interactions`, `attributed` is `work_requests`,
  `trace` the `ExchangeTrace` each handler carries, `phase` the start of a
  process. A row belongs to the database, a trace to the process. The four
  modes are the four ways an answer is read: `chat`, `proxy` with and without
  streaming, and the capture extractor. A streamed answer is read outside its
  handler (`Streamed`): the body it returned is polled as the caller takes data.
  `unsaved` is a history variable: a final write that failed, which the code
  ignores.
* `ExchangeHistory` - the abstract specification: an exchange is recorded when
  it begins or never, its record is closed by its own end and once, called
  interrupted only when it is dead, and removed for good. `Told` maps a row to
  what a reader of the history learns from it. A store that is not leased sets
  `Shared`, and only then may a running exchange be called interrupted.
* `MCJournal`, `JournalProofs`.

| Action | Code |
| --- | --- |
| `Start`, `Attribute` | `journal.rs:539-622`, `work.rs:288-309` |
| `Headers`, `SendFails` | `http.rs:196-206`, `1857-1876` |
| `Chunk`, `Announced`, `Breaks` | `read_limited` and the streamed body, `297-349`, `393-475` |
| `ResponseComplete`, `ProxyEnds`, `AnswerEnds` | `367-385`, `1573-1591`, `1448-1505` |
| `Drop` | `impl Drop for ExchangeTrace`, `386-392` |
| `PatchSettings`, `Read`, `ClearHistory`, `Tick` | settings, retention and clearing, `journal.rs:703-900` |
| `Boot`, `Recover`, `Ready`, `Crash`, `SecondCore` | `main.rs:20-46`, `runtime.rs:262-285`, `journal.rs:903-926` |

### Continuity: what is remembered

* `Continuity` - saved conversations as `chat()` uses them: `thread` is
  `continuity_threads` with its turns, `call` each chat's
  `PreparedConversation`, `stage` how far it came. A reply is known by the chat
  that fetched it, a text by its hash. The grant of a conversation is reduced
  to whether it still permits its destination.
* `ConversationLog` - the abstract specification of one conversation: one slot
  that is taken, filled or given back, and a log that only grows.
* `ContinuityRefinement` - the mapping of one thread to that log, for the
  thread `Observed`. `MCContinuity`, `ContinuityProofs`.

| Action | Code |
| --- | --- |
| `Create`, `List`, `Delete`, `ClearAttempt` | `continuity.rs:91-140`, `63-90`, `149-172` |
| `Replay`, `Ask`, `Refuse` | `prepare_conversation`, `174-257` |
| `Finish`, `Discard` | `finish_conversation`, `258-308` |
| `Fail` | the error paths of `chat`, `http.rs:1448-1498` |
| `Revoke` | `vault.rs:355-371` |
| `Crash`, `Tick` | the process dies, the tables stay; a day passes |

### VPN: who is let in

* `KnockServer` - the loop of `crates/omni-vpn/src/server.rs` with the replay
  table of `knock.rs`. `mem` is the `State` of the process, `disk` is
  `state.json`, `kernel` the peers of the WireGuard interface, `table` the
  verifier's nonces, `stamp` the timestamp the loop took before it waited.
  `pc` names the place between two effects, so a crash may fall between any
  two. The channel is UDP: `sent` keeps every request, and whatever was sent may
  arrive at any time and any number of times. `acted` is a history variable.
* `Rotation` - the supervisor `infra/vpn/client.py` against that hub.
  `config` is the client's file, `at` its place in `control`, `rotate` and
  `main`.
* `Handover` - the abstract specification: two durable epochs, the hub's never
  behind the client's and never more than one ahead.
* `MCRotation`, `RotationProofs`.

| Action | Code |
| --- | --- |
| `Load`, `SaveLoaded` | start, `server.rs:190-278`, `knock.rs:179-194` |
| `Sweep`, `SaveSwept`, `Idle` | top of the loop, `279-299`, `cleanup`, `157-176` |
| `Authenticate`, `RefuseKnock` | `knock.rs:195-228` |
| `SaveNonces` | `server.rs:300-301`, before the request is looked at |
| `Open`, `Prepare`, `PrepareAgain`, `Commit`, `CommitAgain`, `RefuseRequest` | the closure `accepted`, `303-373` |
| `SaveAccepted`, `Acknowledge` | `377-380` |
| `Crash`, `Teardown` | the process ends; `server-up.sh` deletes the namespace and its peers |
| `StartOpen`, `StartRotation`, `Opened`, `TunnelUp`, `Renew`, `Renewed` | `client.py:204-226` |
| `BeginRotation`, `SendPrepare`, `Recover`, `Prepared`, `NewTunnelUp`, `SendCommit`, `RotationAcknowledged` | `rotate`, `141-164` |
| `Exit` | every failure but the handled timeout, `165-169`, `238-246` |

### Recovery: what moves to another installation

* `Recovery` - `db` is the committed database of every installation, by the
  facts that decide about it: the settings' last author, the rows that count as
  use, what gives access, the released reports, the day of the newest audit row.
  `job` is the handler of every call with its worker: `content` is the snapshot
  or the opened archive, `tx` what the open transaction would commit, `caller`
  whether the handler is still there. An archive may be damaged in each of the
  places the code looks at (`Fault`). The owner goes on working at both
  installations, and days pass.
* `Relocation` - the abstract specification: installations hold content and
  permit access; a copy is content only and is put into an empty installation in
  one step, after which nothing has access.
* `MCRecovery`, `RecoveryProofs`.

| Action | Code |
| --- | --- |
| `Export`, `Seal`, `SealFails`, `Deliver` | `http/professional.rs:137-181`, `recovery.rs:61-105`, `150-207` |
| `Restore` | admission, `http/professional.rs:183-205` |
| `Lock`, `Refuse` | the worker under its own lock, `http/professional.rs:206-216`, `recovery.rs:106-148`, `208-233` |
| `Clear`, `Fill`, `Scrub`, `Rollback`, `Commit`, `Finish` | the transaction and what follows it, `recovery.rs:234-318` |
| `Disconnect` | the handler is dropped, the worker keeps permit and lock |
| `Crash` | the process dies, the transaction is lost |
| `AddMemory` .. `Configure` | what the owner does, by its effect on `recovery_empty` and on access |
| `Retain`, `Tick` | `journal_prune` and `prune_conversations`; a day passes |

### Administration: where keys go

* `Administration` - `profiles` is the stored list, numbered in the order of
  creation as UUIDs are never used again, `task` the handlers in flight with
  the copy of a profile each of them took under the lock, `allowed` the bases
  the process is confined to. `entered` and `sent` are history: keys with the
  base the owner entered them for, and what requests carried where.
* `AdministrationProofs`.

| Action | Code |
| --- | --- |
| `AdminInit` | `initialize_admin`, `administration.rs:172-241` |
| `CreateProvider`, `UpdateProvider` | `save_provider`, `287-365` |
| `DeleteProvider`, `SetPrimary` | `366-375`, `256-286` |
| `ProbeProvider`, `SaveDiscovery` | `http.rs:905-1041`, `administration.rs:376-392` |
| `Select`, `Send` | `selected_provider`, `393-426`; `upstream`, `http.rs:1746-1768` |
| `Abandon`, `AdminRestart` | the caller goes away; a new process with its own allowlist |

### Analytics and Histogram: what is published

* `Analytics` - installations with consent and the kept report of every week
  (`ledger`), `send_report` handlers (`sending`), a network that loses, delays
  and repeats (`posted`), and the collector (`digests`, `aggregate`). The
  randomized histograms are one value here: `draw` tells one output from
  another. `released` and `late` are history.
* `Survey` - the abstract specification: reports are drawn under permission,
  one a week and `Budget` ever, are cleared under permission before they go
  out, and are counted once, in their week or the next.
* `Histogram` - buckets and lattice of `prepare_report`. The week's rows are
  counted by bin; `Quantized` is the code's rounding, `LatticeExact` the
  reference it is checked against. The eight bins are summed one by one, as
  there is no ninth: a fold over them would be out of the provers' reach.

| Action | Code |
| --- | --- |
| `SetConsent` | `http.rs:1242-1254`, `vault.rs:499-512` |
| `PrepareReport` | `prepare_report`, `analytics.rs:77-207`, `http.rs:1260-1275` |
| `SendReport`, `Recheck`, `Post`, `EndSending` | `send_report`, `http.rs:1276-1310`, `sender.rs` |
| `Arrive` | `server.mjs:165-194` and `add`, `store.mjs:31-61` |
| `Interaction`, `SetTokens` | rows that `complete_interaction` and `update_interaction_tokens` change later |

### Runtime and Pairing: who has the vault

* `Runtime` - `core` are starts of a core over one directory, `lease` the holder
  of `runtime.lock`, `handler` the requests through four doors: listener, native
  requests, an exported router, the client gateway. The lease is a field of the
  vault, which every router shares, so `Settle` returns it when the last
  reference is gone and not when the core is. An accepted connection is a task
  of its own and survives its server's task. The blocking worker of a restore
  has a reference of its own and survives its handler: a request refers to its
  core by its door or, after `Detach`, by that worker (`Via`).
* `Pairing` - browsers, the code and its deadline.
* `MCServices`, `ServicesProofs`.

| Action | Code |
| --- | --- |
| `Start` | `runtime.rs:192-321`, the lease first |
| `BeginShutdown`, `Shutdown`, `ServerDrains`, `EndsWaiting` (`ShutdownReturns`, `TimesOut`) | shutdown with `SHUTDOWN_TIMEOUT`, `runtime.rs:300-310`, `448-466` |
| `DropCore`, `Reap` | `impl Drop for EmbeddedCore`, `468-485` |
| `ExportRouter`, `DropRouter` | routers handed to an adapter, `388-392` |
| `StartGateway`, `StopGateway`, `GatewayDrains` | `client_gateway`, `324-374` |
| `Admit`, `Finish` | each door with its gate; the sixteen permits of `native.rs` |
| `Detach` | a restore whose caller went away, `http/professional.rs:206-213` |
| `ProcessEnds` | exit, kill, crash |
| `Ask`, `Claim`, `Passes` | `claim_session`, `http.rs:653-690`; `PairingGate::claim`, `config.rs:49-74` |

The lines of every definition are in `PROJECT.json`.

## 4. Runs

| Run | Question | Bounds |
| --- | --- | --- |
| `disclosure_content` | can old or withdrawn content leave, is every disclosure accounted for, is it atomic, can every handler go on, does every request end and every receipt settle | two memories of one source, room for one, one grant, two instants |
| `disclosure_authority` | can a revoked grant or client obtain a receipt, is everything that leaves judged, does the vault fit what handlers believe of it | owner, legacy token, two clients, one grant, three texts, one managed rule, two local revisions |
| `journal_modes` | is a recorded success true, is an interruption real, does every exchange settle or wait for the caller of a stream, in every way an answer is read | one exchange, two chunks, two retentions, four days |
| `journal_pair` | are open rows live, attributions backed by a record; is every record written, closed and removed as the abstract history allows | a plain answer and an extraction in any pairing, with a second core |
| `journal_second_core` | expected violation, see Findings | one exchange, no lease |
| `continuity_pair` | is every answer stored once, in the history it was asked in, under its own request; is expiry final; is a conversation the one-slot log | two conversations, three chats, two request identifiers, two texts, three revisions, a window of one |
| `rotation_protocol` | can client and hub lose each other's identity, or come to a state from which no restart completes the rotation; does the interface keep a key it should not | two rotations, five requests, crashes anywhere, two instants |
| `rotation_replay` | is a repeated datagram acted on twice | two requests, dates as early and late as is accepted, a table of one nonce |
| `recovery_pair` | is a restore one step into an unused installation, without access or identity | two installations, one archive, every damage, one memory, grant and conversation, one call |
| `recovery_two` | is there one recovery at a time, does each give the slot back, do released reports stay | one installation, two calls, two days, retention of one |
| `recovery_settings` | expected violation, see Findings | two installations, two days, retention of one |
| `services` | do keys stay where they belong, is what a profile shows true; are reports a survey, counted once, none cleared after withdrawal; exact histograms; one owner of the vault, a shutdown that returns; one pairing | see below |

`services` checks five parts that share no state in one state space. Its
variable `turn`, chosen in the initial state, says which of them moves while the
others rest. As no action of one part reads or writes a variable of another, an
interleaving of two parts shows each of them nothing but its own behaviours, so
every property, each about one part, holds of all interleavings when it holds
of these (`ServicesCompose` proves that a step of the whole is a step or a
stutter of each part). Administration: two configurations (a desktop with a local model, a
phone without a model), two allowlists, three bases, two keys, one model, two
edits, one call in flight. Analytics: two installations, one of which opts in
by default, one sender, a budget of two in three weeks, three changes of
consent, two reports to publish. Histogram: five rows with latencies and tokens
on both sides of a limit. Runtime: two starts, two requests, one permit.
Pairing: three browsers, a deadline in mid-clock.

Why the bounds are enough. Each disclosure run has one request: requests share
only the vault, which their handlers read and never write except for their own
receipt and decision rows, so a second request adds no behaviour to the first;
the proofs cover any number. One edit, one new revision and one tick suffice to
make a snapshot, a verdict or a grant stale; `Room = 1` puts the budget at its
limit. Exchanges share nothing but the sweeps and attribution
rows, and the pair run has two of them, one with an attribution row and one
without; the other ways of reading an answer are in the run of one. A conversation has one slot, so the race is between two chats; a third
meets what they left, and one window of a single exchange already truncates.
Three revisions are an answer, a clear and a late answer. Two rotations bring
the addresses round to the first one again while the first key may still
overlap; five requests are a rotation whose prepare is lost, recovered and
committed, and the start of the next. One tick there makes a prepared key, an
overlap and a handshake old, in whatever state it falls, so either may end while
the other lasts; that their lengths differ in the code is left to the theorems,
which hold for all of them. A restore races with its owner's use of one installation;
the second one is needed for the archive to be foreign. Two edits are one that
makes a held copy old and one that makes it look current again; three weeks
against a budget of two meet the limit, and a report one week late and one two
weeks late. Every counter bound is a named constant; every theorem holds for
all of its values.

Fairness. `Disclosure!FairSpec` and `Journal!FairSpec` give weak fairness to the
steps a handler takes by itself. It runs synchronously up to its
await, and both HTTP clients have timeouts for connecting and in total
(`http.rs:52-53`), so the await ends. A streamed body is not the handler's any
more (`http.rs:1587-1590`): it is polled, with its idle timeout (`445`) and the
total one, only as the caller takes data. `Journal!FairSpec` therefore says
nothing of it (`HandlerRuns`), and `ExchangeSettles` promises the end of a
stream only under `CallerReads`, which is a hypothesis on the caller and part of
the property.
`Recovery!FairSpec` gives it to the steps of a handler and its worker
(`WorkerRuns`): a spawned blocking task is run, and a mutex nobody keeps is
acquired. `ServicesSpec` gives it to the end of a waiting shutdown only
(`ShutdownRuns`): its return, or its timer; a request may hang for ever.

Fairness is worth what can be taken: a handler that is stuck satisfies it.
`HandlersCanRun` is an invariant that says, in terms of `ENABLED`, that a
request under way always has a next step. A stuck worker or a stuck shutdown
needs no invariant of its own: it would stay where it is for ever and violate
`RecoveryEnds` or `ShutdownEnds`. Admission, the owner's operations, drops and
crashes are never fair. `Continuity` and
`Rotation` state no liveness: a pending request stays until the owner clears it,
and a rotation completes only if requests get through, each retry with a fresh
nonce, which no finite instance can offer without end.

Symmetry is used where only safety is checked: clients, exchanges, chats with
requests and texts are told apart by nothing but their rows.

`services` alone has `CHECK_DEADLOCK FALSE`: a week without another row, and a
browser after its claim, really may have nothing left to do.

## 5. Proofs

Each theorem below holds for all constants that satisfy the named `ASSUME`s of
its module: constants are distinct, memories have sources, bounds are natural
numbers. TLC evaluates these assumptions in every run.

`DisclosureProofs`: `DisclosureInv`, which joins type correctness, `NoOrphan`,
`RevokedClientHoldsNothing` and the inductive invariant `PipelineInv`; its
consequences `WireWitnessed`, `PolicyCovers`, `ReceiptTruth`; and the action
properties `RevocationCloses` and `WithdrawalCloses`. `PipelineInv` is needed
because none of its consequences is inductive: that a body was inspected is
established three critical sections before it leaves, and that a client's
request uses a grant bound to it (`OwnGrant`) is established before the
receipt, where the client itself is not asked again. `DisclosureRefinement`
proves that the pipeline implements `DisclosureLedger`.

`JournalProofs`: `JournalSafety`, that is types and `JournalInv`, and from it
`SuccessIsTrue`, `OpenIsLive`, `AttributionIsRecorded`, `CompletionIsFinal`, and
`InterruptedIsDead` for `Leased = TRUE`; and that the journal implements
`ExchangeHistory`, with a second core or without. `JournalInv` relates each row to its
trace: while the handler lives its row has no outcome of its own and has lost
no write, and a row that is still open after the handler is done lost its last
one. The refinement needs just that: `Finished` writes wherever its `WHERE`
clause finds an open row, and it is the invariant that makes this the row of
the exchange that ends and never one that was closed or removed meanwhile.

`ContinuityProofs`: `ContinuitySafety`, that is types, `ContinuityInv` and
`UniqueTurns`, and from it `AnsweredInContext`, `OneSendPerRevision`,
`ReplayIsOwn`, `ExpiryIsFinal`, and that each thread implements
`ConversationLog`. `ContinuityInv` says that a chat whose conversation is still
at its revision holds the pending request and the present history, that a
pending request was asked by some chat and is not stored yet, and that a stored
turn is the call of the chat that fetched it, in the history before it.
Comparing the request alone would not be inductive: the interface may use a
UUID again.

`RotationProofs`: `ReplaySafety`, which joins types, the capacity of the replay
table and `NoReplay`, from `ReplayInv`; `EpochAgreement`, `PeersAreState`,
`ClientServed` and `NeverLockedOut` from `RotationInv`; and that the two files
implement `Handover`.
`ReplayInv` says that a nonce acted on is in every place the hub may look next,
or past its date there - on disk, in memory, in the table, and at the older
timestamp of the loop. `RotationInv` orders the epochs of file, disk and
process, ties each key to its epoch, and says that one other identity at most
stands beside the active one, which is why two addresses are enough.

`NeverLockedOut` is what can be said of a rotation's progress as an invariant:
in every state the hub would answer the request that the client's file asks
for next - with a preparation, with the same one again, or with a commit - or
refuses it for a reason that passes by itself, a pending offer or an overlap
with a date. Its proof adds `DatesNear` to `RotationInv`: no date the hub waits
for lies further ahead than it sets them, so waiting ends. That the request
gets through is up to the network, and is not claimed.

`RecoveryProofs`: types, `OneRecovery`, `OverwritesNothing`, `NoRevival`,
`ReportsStay`, and that the system implements `Relocation`. The inductive
invariant adds to types and exclusion what every worker knows at its stage: the
content it holds is that of an archive, its transaction is the empty database,
the archive, or the scrubbed archive, and as long as it holds the lock the
installation is as unused as when it looked. The refinement needs the second:
that `Commit` is a step from an empty installation was decided four steps
earlier.

`AdministrationProofs`: types, `KeysGoHome`, `ProfileIsTrue`, `PrimaryServes`.
`AdminInv` adds that the copies in flight are homed as well - the key of a copy
was entered for the copy's base, whatever became of the profile - and that a
copy chosen for sending has a base the process may use.

`ServicesProofs`: `PairedOnce`; `LeaseIsSound`, that is `SingleOwner` and
`ShutdownFrees`; `ReportsAreHonest`, that is `OneRelease`, `WithdrawalStops` and
`CountedOnce`, and that installations and collector implement `Survey`; `LatticeExact` and the sensitivity of the histograms. `RuntimeInv` says
that the lease belongs to a core exactly as long as something refers to its
vault, and that native requests borrow a living core. `AnalyticsInv` says that
what was released is what the ledgers hold, one report a week and within the
budget, that what travels was released, and that counts and sums of the
collector are of its known reports. The refinement to `Survey` needs it where a
report is drawn - the code looks at the ledger, the survey at all that was ever
released - and where it is counted: the code asks for the digest, the survey
for the sum.

The code scales its noise for histograms that differ by two at most
(`analytics.rs:158`). `HistogramsAreExact` proves, from facts on the division of
naturals, that every quantized histogram is one whole without a negative part,
whatever is counted; `SensitivityIsTwo` concludes that any two of them, of
whatever weeks and rows, are at most two wholes apart. That all eight values are
exact in binary floating point is seen from `Whole = 65536`, not proved.

`ServicesCompose` proves that the specification which the run checks implies
that of each part (`AdminSpec`, `AnalyticsSpec`, `HistogramSpec`, `RuntimeSpec`,
`PairingSpec`), and `ServicesAreSafe` joins what is proved of the parts, with
those of `AdministrationProofs`, to one statement about all of them.

Liveness. Three of the four liveness properties are theorems as well, under
the fairness above:

| Theorem | Under | Argument |
| --- | --- | --- |
| `RequestsConclude`: `Concludes` | `FairSpec`, `[]HandlersCanRun` | the stages of a request are numbered; a step of its handler lowers the number, no other step raises it; a receipt goes from journaled to sending to settled |
| `RecoveriesEnd`: `RecoveryEnds` | `FairSpec`, `[]WorkersCanRun` | a worker has six steps at most; the lock it may wait for is free, as no other call is past admission (`OneRecovery`, `LockIsFree`) |
| `ShutdownsEnd`: `ShutdownEnds` | `ServicesSpec`, `[]ShutdownCanEnd` | what ends the wait is either the return or the timer |

The hypothesis `[]...CanRun` is there because the provers treat `ENABLED` as
opaque. TLC vouches for it on the instances of the runs: `HandlersCanRun` is an
invariant of both disclosure runs, and a reachable state that violates
`WorkersCanRun` or `ShutdownCanEnd` (defined next to their theorems) could be
left by no fair step and would be a counterexample to the leads-to property
that `recovery_two` or `services` checks. What the theorems add is that nothing
else can keep a request, a recovery or a shutdown from its end, for any number
of them and any value of the constants.

The fourth, `ExchangeSettles`, is only model-checked: an answer has up to
`Limit` chunks, and an induction over `Limit` of a temporal formula is out of
the provers' reach. `ExchangesAdvance` proves the part of it that is not
temporal: an exchange has `Limit + 3` steps of its own at most, each brings it
nearer to its end, and no step of the owner, of recovery or of another exchange
takes it further away.

Only model-checked, then: `HandlersCanRun`, which speaks of `ENABLED`, as do the
hypotheses `WorkersCanRun` and `ShutdownCanEnd`, and `ExchangeSettles`.

## 6. Findings

`journal_second_core`. `docs/ADMINISTRATION.md:93` describes `aborted` as "The
exchange was interrupted, including a dropped client response or process
restart." The standalone core recovers the journal before it binds its port
and takes no lease (`main.rs:28-30`), unlike the embedded runtime
(`runtime.rs:263-271`): starting it a second time marks the running exchanges
of the first core as interrupted although nothing interrupted them, and their
real outcome is then refused (`journal.rs:666-670`). With `Leased = TRUE` the
same property is proved.

`recovery_settings`. `docs/RECOVERY.md:21` says that changing settings makes an
installation a used one, and line 23 that existing work is never overwritten.
`recovery_empty` (`recovery.rs:226`) knows of changed settings only by their
audit rows, which `journal_prune` deletes after the retention period. An
installation whose owner changed nothing but settings, longer ago than that,
counts as unused, and a restore replaces its settings.

Worth knowing, and true of the model too: after the timeout of a shutdown the
accepted connections go on, with the vault, until they end by themselves
(`TimesOut`). The error reports them as closed (`runtime.rs:460`).

A shutdown may even succeed while the vault is still open: the worker of a
restore outlives its handler (`Detach`), and neither the listener nor the
native requests wait for it. Until it is done, the lease keeps the next start
out. `ShutdownFrees` names this exception beside the adapters and the gateway.

A caller that keeps the connection of a streamed answer but does not read it
keeps the exchange open, as long as it likes: the timeouts of the stream are
polled with its body. `ExchangeSettles` has this exception as `Streamed`.

## 7. Abstractions

* SQLite and SQLCipher are trusted to be transactional, cryptography to be
  unforgeable: an identifier, key, nonce or token is a number or a model value.
* A policy rule denies a set of texts. How a body is split into inspected
  strings, and files, are not modelled.
* A context holds `Room` rows and a prompt `Window` exchanges; the byte limits
  are these numbers, with texts of equal length.
* The audit trail appears in `Recovery` as the day of its newest row; cost
  arithmetic and counters of the journal are left out.
* VPN: one enrolled client. Others share the loop, the file and the table of
  nonces, and can only delay it or fill the table. Admission to the firewall
  succeeds or fails and nothing else. The client keeps the acknowledgement of
  its last request only: it uses one socket for each. The clocks are apart by
  `Drift` at most and never go back (`docs/VPN.md` asks for synchronized ones).
  Kernel peers do not outlive the namespace of the process. The client's
  routes and old tunnels are not modelled: they decide no access.
* Recovery: receipts, interactions and journal rows also make an installation a
  used one; leaving them out makes installations look unused for longer, which
  gives restores more chances. Retention sweeps run whenever something reads or
  writes the tables, here at any time.
* Administration: labels, prices, catalogs and failures of a discovery are left
  out. Rates are known by the model they were entered for, a discovery by what
  it asked.
* Analytics: one calendar for installations and collector. Two different
  reports with one random identifier, which the collector refuses, do not come
  from honest clients and are left out.
* Runtime: a request ends in whatever way or never. What it does meanwhile is
  the other modules' matter.

## 8. Not modelled

* Chat as a composition of `Continuity` and `Journal` (step 10). The record of an
  exchange is finished before its conversation is, and the second may fail
  (`http.rs:1498`); no line promises that the two agree, and each is modelled
  with the failure (`Fail`, `AnswerEnds`). What a composition would add is their
  joint order.
* Usage, cost and policy inspection (step 11): pure functions over decimal
  strings and JSON trees. Unit tests reach them; what would be worth checking
  is their recursion, which only TLC could do.
* The startup watch of the native shell (step 12): two flags and a timer, on one
  platform.
* Completion of a rotation (`client.py:153`). The channel may lose every datagram
  for ever, so nothing completes under the fairness the code justifies; that it
  always can, from wherever it was interrupted, is `NeverLockedOut`.
* Noise distributions and the privacy they give: real analysis. The lattice the
  noise is added to is modelled.
* The userspace VPN simulation, validation of configuration, the collector's
  event stream and rate limits, and presentation, platform bindings and
  packaging: `PROJECT.json` lists each with the reason.
