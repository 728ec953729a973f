------------------------------ MODULE Recovery ------------------------------
(***************************************************************************)
(* Export of an installation into an archive and restore of an archive     *)
(* into an unused one (recovery.rs and its handlers in                     *)
(* http/professional.rs).                                                  *)
(*                                                                         *)
(* An export reads its snapshot under the vault lock, is sealed by a       *)
(* worker without the lock and reaches its caller after an audit row.  A   *)
(* restore is admitted under one lock and done by a worker under another:  *)
(* between the two the owner may use the installation.  The work itself is *)
(* one transaction of several steps, each of which may fail or be cut off  *)
(* by a crash.  The owner goes on working at every installation.           *)
(***************************************************************************)
EXTENDS Naturals, FiniteSets

CONSTANTS
    Node,           \* installations, each with its own key and identifier
    Memory, Grant, Client, Thread,   \* random identifiers
    Request,        \* calls of the two endpoints
    Factory,        \* the settings of an installation nobody has changed
    Retention,      \* history_retention_days
    ThreadDays,     \* days a conversation is kept
    ReportLimit,    \* lifetime budget of analytics reports
    Collector,      \* an analytics collector is configured
    MaxArchives,    \* bound: exports that begin while so many archives exist
    MaxDay          \* bound: days of the clock

ASSUME RecoveryAssumption ==
    /\ Node # {}
    /\ Factory \notin Node
    /\ Retention \in Nat \ {0}
    /\ ThreadDays \in Nat \ {0}
    /\ ReportLimit \in Nat
    /\ Collector \in BOOLEAN
    /\ MaxArchives \in Nat
    /\ MaxDay \in Nat \ {0}

VARIABLES
    db,         \* the committed database of every installation
    archives,   \* contents of the archives owners hold
    job,        \* the handler and worker of every call
    spent,      \* history: identifiers that were generated
    day         \* the clock; an analytics week is a day here

vars == <<db, archives, job, spent, day>>

------------------------------------------------------------------------------
\* The tables, by what decides about them: receipts, interactions and
\* journal rows only make an installation used for longer than shown here.
Database ==
    [instance : Node,                  \* work_instance.instance_id
     enrolled : BOOLEAN,               \* work_instance.enabled
     rules : Node \cup {Factory},      \* providers, settings, request_policy:
                                       \* whose owner changed them last
     memories : SUBSET Memory,         \* with sources and memory_history
     grants : SUBSET Grant,
     live : SUBSET Grant,              \* of these, revoked_at is NULL
     clients : SUBSET Client,          \* work_clients, with their tokens
     threads : [Thread -> 0..MaxDay + ThreadDays], \* expiry day, 0: no row
     pending : SUBSET Thread,          \* pending_request is not NULL
     reports : SUBSET (1..MaxDay),     \* analytics_reports, by week
     consent : BOOLEAN,                \* analytics_consent
     changed : 0..MaxDay]              \* day of the newest journal_audit row
                                       \* other than core_started, 0: none

NewDatabase(n) ==
    [instance |-> n, enrolled |-> FALSE, rules |-> Factory, memories |-> {},
     grants |-> {}, live |-> {}, clients |-> {},
     threads |-> [t \in Thread |-> 0], pending |-> {}, reports |-> {},
     consent |-> FALSE, changed |-> 0]

Sealing == {"sealing", "sealed"}
Transacting == {"cleared", "filled", "scrubbed"}
Locking == {"deriving", "committed"} \cup Transacting
Slotted == {"sealing", "queued"} \cup Locking

\* What is wrong with an archive: its envelope or passphrase, a row, or what
\* is checked when all rows are in place: its policy and its references.
Fault == {"none", "envelope", "row", "check"}

Job ==
    [stage : {"idle", "sealed"} \cup Slotted,
     node : Node,
     content : Database,        \* the snapshot or the opened archive
     fault : Fault,
     tx : Database,             \* what the open transaction would commit
     caller : BOOLEAN]          \* somebody still waits for the answer

SomeNode == CHOOSE n \in Node : TRUE

IdleJob ==
    [stage |-> "idle", node |-> SomeNode, content |-> NewDatabase(SomeNode),
     fault |-> "none", tx |-> NewDatabase(SomeNode), caller |-> FALSE]

\* Every variable holds a value of its type.
TypeOK ==
    /\ db \in [Node -> Database]
    /\ archives \subseteq Database
    /\ job \in [Request -> Job]
    /\ spent \subseteq Memory \cup Grant \cup Client \cup Thread
    /\ day \in 1..MaxDay

Init ==
    /\ db = [n \in Node |-> NewDatabase(n)]
    /\ archives = {}
    /\ job = [r \in Request |-> IdleJob]
    /\ spent = {}
    /\ day = 1

------------------------------------------------------------------------------
Threads(d) == {t \in Thread : d.threads[t] # 0}

\* prune_conversations.
Pruned(d) ==
    LET kept == {t \in Thread : d.threads[t] > day}
    IN [d EXCEPT !.threads = [t \in Thread |-> IF t \in kept THEN @[t] ELSE 0],
                 !.pending = @ \cap kept]

\* Mutant: released reports are not looked at.
UnusedButReports(d) ==
    /\ d.memories = {} /\ d.grants = {} /\ d.clients = {}
    /\ Threads(d) = {} /\ d.changed = 0

\* recovery_empty.
Unused(d) ==
    /\ d.memories = {}
    /\ d.grants = {}
    /\ d.reports = {}
    /\ d.clients = {}
    /\ Threads(d) = {}
    /\ d.changed = 0

\* Nobody has the vault mutex of n.
Free(n) == \A r \in Request : job[r].node = n => job[r].stage \notin Locking

\* Mutant: the permit is dropped with the handler.
SlotFreeOnDrop(n) ==
    \A r \in Request :
        job[r].node = n /\ job[r].caller => job[r].stage \notin Slotted

\* The recovery semaphore of the process of n.
SlotFree(n) == \A r \in Request : job[r].node = n => job[r].stage \notin Slotted

\* One operation of the owner at n: a transaction with its audit row.
Owner(n, d) ==
    /\ Free(n)
    /\ db' = [db EXCEPT ![n] = [d EXCEPT !.changed = day]]
    /\ UNCHANGED <<archives, job, day>>

------------------------------------------------------------------------------
(* The owner at work *)

AddMemory(n, m) ==
    /\ m \notin spent
    /\ spent' = spent \cup {m}
    /\ Owner(n, [db[n] EXCEPT !.memories = @ \cup {m}])

DeleteMemory(n, m) ==
    /\ m \in db[n].memories
    /\ Owner(n, [db[n] EXCEPT !.memories = @ \ {m}])
    /\ UNCHANGED spent

CreateGrant(n, g) ==
    /\ db[n].memories # {}
    /\ g \notin spent
    /\ spent' = spent \cup {g}
    /\ Owner(n, [db[n] EXCEPT !.grants = @ \cup {g}, !.live = @ \cup {g}])

RevokeGrant(n, g) ==
    /\ g \in db[n].live
    /\ Owner(n, [db[n] EXCEPT !.live = @ \ {g}])
    /\ UNCHANGED spent

EnableWork(n) ==
    /\ Owner(n, [db[n] EXCEPT !.enrolled = TRUE])
    /\ UNCHANGED spent

CreateClient(n, c) ==
    /\ db[n].enrolled
    /\ c \notin spent
    /\ spent' = spent \cup {c}
    /\ Owner(n, [db[n] EXCEPT !.clients = @ \cup {c}])

\* Mutant: one day too many.
CreateConversationLong(n, t) ==
    /\ t \notin spent
    /\ spent' = spent \cup {t}
    /\ Owner(n, [Pruned(db[n]) EXCEPT !.threads[t] = day + ThreadDays + 1])

CreateConversation(n, t) ==
    /\ t \notin spent
    /\ spent' = spent \cup {t}
    /\ Owner(n, [Pruned(db[n]) EXCEPT !.threads[t] = day + ThreadDays])

\* prepare_conversation, and the end of the request it prepared; neither
\* writes an audit row.
PrepareTurn(n, t) ==
    /\ Free(n)
    /\ t \in Threads(Pruned(db[n])) \ db[n].pending
    /\ db' = [db EXCEPT ![n] = [Pruned(db[n]) EXCEPT !.pending = @ \cup {t}]]
    /\ UNCHANGED <<archives, job, spent, day>>

EndTurn(n, t) ==
    /\ Free(n)
    /\ t \in db[n].pending
    /\ db' = [db EXCEPT ![n].pending = @ \ {t}]
    /\ UNCHANGED <<archives, job, spent, day>>

DeleteConversation(n, t) ==
    /\ t \in Threads(db[n])
    /\ Owner(n, [db[n] EXCEPT !.threads[t] = 0, !.pending = @ \ {t}])
    /\ UNCHANGED spent

SetConsent(n, enabled) ==
    /\ enabled => Collector
    /\ Owner(n, [db[n] EXCEPT !.consent = enabled])
    /\ UNCHANGED spent

PrepareReport(n) ==
    /\ Collector
    /\ db[n].consent
    /\ day \notin db[n].reports
    /\ Cardinality(db[n].reports) < ReportLimit
    /\ Owner(n, [db[n] EXCEPT !.reports = @ \cup {day}])
    /\ UNCHANGED spent

\* A provider profile, a setting or the local policy is saved.
Configure(n) ==
    /\ Owner(n, [db[n] EXCEPT !.rules = n])
    /\ UNCHANGED spent

\* journal_prune, run by whatever reads or writes the journal, and
\* prune_conversations, run by whatever reads conversations.
Retain(n) ==
    /\ Free(n)
    /\ db' = [db EXCEPT ![n] = IF @.changed + Retention <= day
                               THEN [Pruned(@) EXCEPT !.changed = 0]
                               ELSE Pruned(@)]
    /\ UNCHANGED <<archives, job, spent, day>>

Tick ==
    /\ day < MaxDay
    /\ day' = day + 1
    /\ UNCHANGED <<db, archives, job, spent>>

OwnerStep(n) ==
    \/ \E m \in Memory : AddMemory(n, m) \/ DeleteMemory(n, m)
    \/ \E g \in Grant : CreateGrant(n, g) \/ RevokeGrant(n, g)
    \/ EnableWork(n)
    \/ \E c \in Client : CreateClient(n, c)
    \/ \E t \in Thread :
          \/ CreateConversation(n, t) \/ DeleteConversation(n, t)
          \/ PrepareTurn(n, t) \/ EndTurn(n, t)
    \/ \E enabled \in BOOLEAN : SetConsent(n, enabled)
    \/ PrepareReport(n)
    \/ Configure(n)
    \/ Retain(n)

------------------------------------------------------------------------------
(* Export *)

\* What an archive holds of a database: every table but work_clients.
Captured(d) == [d EXCEPT !.clients = {}]

Start(r, n, stage, content, fault) ==
    job' = [job EXCEPT ![r] = [IdleJob EXCEPT !.stage = stage, !.node = n,
                !.content = content, !.fault = fault, !.caller = TRUE]]

Stop(r) == job' = [job EXCEPT ![r] = IdleJob]

Export(r, n) ==
    /\ Cardinality(archives) < MaxArchives
    /\ job[r].stage = "idle"
    /\ SlotFree(n)
    /\ Free(n)
    /\ db' = [db EXCEPT ![n] = Pruned(@)]
    /\ Start(r, n, "sealing", Captured(db'[n]), "none")
    /\ UNCHANGED <<archives, spent, day>>

\* The worker ends and returns the slot; nobody may be left to hear of it.
Seal(r) ==
    /\ job[r].stage = "sealing"
    /\ IF job[r].caller THEN job' = [job EXCEPT ![r].stage = "sealed"]
                        ELSE Stop(r)
    /\ UNCHANGED <<db, archives, spent, day>>

\* The passphrase is too short: the worker fails.
SealFails(r) ==
    /\ job[r].stage = "sealing"
    /\ Stop(r)
    /\ UNCHANGED <<db, archives, spent, day>>

Deliver(r) ==
    /\ job[r].stage = "sealed"
    /\ Free(job[r].node)
    /\ db' = [db EXCEPT ![job[r].node].changed = day]
    /\ archives' = archives \cup {job[r].content}
    /\ Stop(r)
    /\ UNCHANGED <<spent, day>>

------------------------------------------------------------------------------
(* Restore *)

Restore(r, n, content, fault) ==
    /\ job[r].stage = "idle"
    /\ SlotFree(n)
    /\ Free(n)
    /\ Unused(db[n])
    /\ Start(r, n, "queued", content, fault)
    /\ UNCHANGED <<db, archives, spent, day>>

Lock(r) ==
    /\ job[r].stage = "queued"
    /\ Free(job[r].node)
    /\ job' = [job EXCEPT ![r].stage = "deriving"]
    /\ UNCHANGED <<db, archives, spent, day>>

\* Mutant: the second look at the installation has no way out.
RefuseEnvelope(r) ==
    /\ job[r].stage = "deriving"
    /\ job[r].fault = "envelope"
    /\ Stop(r)
    /\ UNCHANGED <<db, archives, spent, day>>

\* The archive does not open, or the installation was used meanwhile.
Refuse(r) ==
    /\ job[r].stage = "deriving"
    /\ job[r].fault = "envelope" \/ ~Unused(db[job[r].node])
    /\ Stop(r)
    /\ UNCHANGED <<db, archives, spent, day>>

\* Mutant: what the admission saw is trusted.
ClearAdmitted(r) ==
    /\ job[r].stage = "deriving"
    /\ job[r].fault # "envelope"
    /\ job' = [job EXCEPT
          ![r].stage = "cleared",
          ![r].tx = [NewDatabase(job[r].node) EXCEPT
                        !.clients = db[job[r].node].clients]]
    /\ UNCHANGED <<db, archives, spent, day>>

\* The transaction begins: every archived table is emptied.
Clear(r) ==
    /\ job[r].stage = "deriving"
    /\ job[r].fault # "envelope"
    /\ Unused(db[job[r].node])
    /\ job' = [job EXCEPT
          ![r].stage = "cleared",
          ![r].tx = [NewDatabase(job[r].node) EXCEPT
                        !.clients = db[job[r].node].clients]]
    /\ UNCHANGED <<db, archives, spent, day>>

Fill(r) ==
    /\ job[r].stage = "cleared"
    /\ job[r].fault # "row"
    /\ job' = [job EXCEPT
          ![r].stage = "filled",
          ![r].tx = [job[r].content EXCEPT !.clients = job[r].tx.clients]]
    /\ UNCHANGED <<db, archives, spent, day>>

\* Mutants: grants stay alive; open requests stay open; the archive's
\* identity is taken over.
ScrubKeepsGrants(r) ==
    /\ job[r].stage = "filled"
    /\ job' = [job EXCEPT
          ![r].stage = "scrubbed",
          ![r].tx = [@ EXCEPT !.instance = db[job[r].node].instance,
                        !.pending = {}, !.consent = FALSE]]
    /\ UNCHANGED <<db, archives, spent, day>>

ScrubKeepsPending(r) ==
    /\ job[r].stage = "filled"
    /\ job' = [job EXCEPT
          ![r].stage = "scrubbed",
          ![r].tx = [@ EXCEPT !.instance = db[job[r].node].instance,
                        !.live = {}, !.consent = FALSE]]
    /\ UNCHANGED <<db, archives, spent, day>>

ScrubKeepsIdentity(r) ==
    /\ job[r].stage = "filled"
    /\ job' = [job EXCEPT
          ![r].stage = "scrubbed",
          ![r].tx = [@ EXCEPT !.live = {}, !.pending = {}, !.consent = FALSE]]
    /\ UNCHANGED <<db, archives, spent, day>>

\* Neither identity nor access comes back.
Scrubbed(d, n) ==
    [d EXCEPT !.instance = db[n].instance,
              !.live = {}, !.pending = {}, !.consent = FALSE]

Scrub(r) ==
    /\ job[r].stage = "filled"
    /\ job' = [job EXCEPT
          ![r].stage = "scrubbed",
          ![r].tx = Scrubbed(@, job[r].node)]
    /\ UNCHANGED <<db, archives, spent, day>>

\* A row is refused, or the policy or the references: all is rolled back.
Rollback(r) ==
    /\ \/ job[r].stage = "cleared" /\ job[r].fault = "row"
       \/ job[r].stage = "scrubbed" /\ job[r].fault = "check"
    /\ Stop(r)
    /\ UNCHANGED <<db, archives, spent, day>>

\* The audit row recovery_restored is part of what is committed.
Commit(r) ==
    /\ job[r].stage = "scrubbed"
    /\ job[r].fault # "check"
    /\ db' = [db EXCEPT ![job[r].node] = [job[r].tx EXCEPT !.changed = day]]
    /\ job' = [job EXCEPT ![r].stage = "committed"]
    /\ UNCHANGED <<archives, spent, day>>

Finish(r) ==
    /\ job[r].stage = "committed"
    /\ db' = [db EXCEPT ![job[r].node] = Pruned(@)]
    /\ Stop(r)
    /\ UNCHANGED <<archives, spent, day>>

------------------------------------------------------------------------------
\* The caller goes away while the handler waits for its worker or a lock:
\* the handler is dropped, a worker runs on.
Disconnect(r) ==
    /\ job[r].caller
    /\ IF job[r].stage = "sealed"
       THEN Stop(r)
       ELSE job' = [job EXCEPT ![r].caller = FALSE]
    /\ UNCHANGED <<db, archives, spent, day>>

\* The process of n dies; its open transaction is lost.
Crash(n) ==
    /\ \E r \in Request : job[r].node = n /\ job[r].stage # "idle"
    /\ job' = [r \in Request |-> IF job[r].node = n THEN IdleJob ELSE job[r]]
    /\ UNCHANGED <<db, archives, spent, day>>

Work(r) ==
    \/ Seal(r) \/ SealFails(r) \/ Deliver(r)
    \/ Lock(r) \/ Refuse(r) \/ Clear(r) \/ Fill(r) \/ Scrub(r)
    \/ Rollback(r) \/ Commit(r) \/ Finish(r)

Next ==
    \/ \E n \in Node : OwnerStep(n) \/ Crash(n)
    \/ \E r \in Request :
          \/ Work(r)
          \/ Disconnect(r)
          \/ \E n \in Node :
                \/ Export(r, n)
                \/ \E content \in archives, fault \in Fault :
                      Restore(r, n, content, fault)
    \/ Tick

Spec == Init /\ [][Next]_vars

\* A spawned worker is run, and a mutex nobody holds is acquired.
WorkerRuns(r) == WF_vars(Work(r))

FairSpec == Spec /\ \A r \in Request : WorkerRuns(r)

------------------------------------------------------------------------------
(* Properties *)

\* One recovery at a time per process, also after callers went away
\* (RECOVERY_SLOT, whose permit moves into the worker).
OneRecovery ==
    \A r, s \in Request :
        /\ job[r].stage \in Slotted
        /\ job[s].stage \in Slotted
        /\ job[r].node = job[s].node
        => r = s

\* While a restore works in its transaction the installation it will
\* overwrite is still unused, although it was admitted under another lock.
OverwritesNothing ==
    \A r \in Request :
        job[r].stage \in Transacting =>
            /\ Unused(db[job[r].node])
            /\ job[r].fault # "envelope"
            /\ job[r].stage # "cleared" => job[r].fault # "row"

\* The access an installation gives: unrevoked grants and client tokens.
Credentials(d) == d.live \cup d.clients

\* No grant and no client token comes to life but by being created: not by
\* an export, a restore, a rollback or a crash.
NoRevival ==
    [][\A n \in Node :
          (Credentials(db'[n]) \ Credentials(db[n])) \cap spent = {}]_vars

\* What an installation released stays on its account: no step takes a
\* report out of its ledger.
ReportsStay == [][\A n \in Node : db[n].reports \subseteq db'[n].reports]_vars

\* RECOVERY.md: changing settings before restoring makes an installation a
\* used one, and existing work is never overwritten.
SettingsSurvive ==
    [][\A n \in Node : db[n].rules = n => db'[n].rules = n]_vars

\* A worker that took the slot gives it back.
RecoveryEnds ==
    \A r \in Request :
        job[r].stage \in Slotted ~> job[r].stage \notin Slotted

------------------------------------------------------------------------------
(* The abstract specification *)

Reported(week) == <<"report", week>>
Consent == <<"consent", 0>>

Content(d) ==
    d.memories \cup d.grants \cup Threads(d) \cup {Reported(w) : w \in d.reports}

Access(d) ==
    Credentials(d) \cup d.pending \cup {c \in {Consent} : d.consent}

Thing ==
    Memory \cup Grant \cup Client \cup Thread \cup {Consent}
        \cup {Reported(w) : w \in 1..MaxDay}

InExport == {r \in Request : job[r].stage \in Sealing}

Contents == [n \in Node |-> Content(db[n])]
Accesses == [n \in Node |-> Access(db[n])]
Identities == [n \in Node |-> db[n].instance]
Copies == {Content(d) : d \in archives}
            \cup {Content(job[r].content) : r \in InExport}

Relocated == INSTANCE Relocation WITH
    content <- Contents, access <- Accesses, identity <- Identities,
    copies <- Copies

\* Seen from outside a restore is one step into an empty installation that
\* brings content and neither access nor identity.
ImplementsRelocation == Relocated!Spec

==============================================================================
