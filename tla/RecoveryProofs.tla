--------------------------- MODULE RecoveryProofs ---------------------------
(***************************************************************************)
(* What TLAPS proves about module Recovery, for any installations, any     *)
(* identifiers, any number of overlapping calls and any bounds.            *)
(***************************************************************************)
EXTENDS Recovery, TLAPS

------------------------------------------------------------------------------
(* Types *)

LEMMA NewDatabaseType == ASSUME NEW n \in Node PROVE NewDatabase(n) \in Database
BY RecoveryAssumption DEF NewDatabase, Database

LEMMA IdleJobType ==
    /\ SomeNode \in Node
    /\ IdleJob \in Job
    /\ IdleJob.stage = "idle"
<1>1. SomeNode \in Node
  BY RecoveryAssumption DEF SomeNode
<1>2. NewDatabase(SomeNode) \in Database
  BY <1>1, NewDatabaseType
<1>3. IdleJob \in Job
  BY <1>1, <1>2 DEF IdleJob, Job, Fault
<1>4. IdleJob.stage = "idle"
  BY DEF IdleJob
<1> QED BY <1>1, <1>3, <1>4

\* Pruning conversations keeps types and everything but conversations.
LEMMA PrunedType ==
    ASSUME NEW d \in Database, day \in 1..MaxDay
    PROVE  /\ Pruned(d) \in Database
           /\ Pruned(d).instance = d.instance
           /\ Pruned(d).memories = d.memories
           /\ Pruned(d).grants = d.grants
           /\ Pruned(d).live = d.live
           /\ Pruned(d).clients = d.clients
           /\ Pruned(d).reports = d.reports
           /\ Pruned(d).consent = d.consent
           /\ Pruned(d).pending \subseteq d.pending
           /\ Threads(Pruned(d)) \subseteq Threads(d)
<1> DEFINE kept == {t \in Thread : d.threads[t] > day}
           th == [t \in Thread |-> IF t \in kept THEN d.threads[t] ELSE 0]
           pe == d.pending \cap kept
<1>1. th \in [Thread -> 0..MaxDay + ThreadDays]
  BY RecoveryAssumption DEF Database
<1>2. pe \in SUBSET Thread /\ pe \subseteq d.pending
  BY DEF Database
<1>3. \A t \in Thread : th[t] # 0 => d.threads[t] # 0
  BY DEF Database
<1>4. Pruned(d) = [d EXCEPT !.threads = th, !.pending = pe]
  BY DEF Pruned
<1> HIDE DEF th, pe
<1>5. Pruned(d) \in Database
  BY <1>1, <1>2, <1>4 DEF Database
<1>6. Pruned(d).threads = th /\ Pruned(d).pending = pe
  BY <1>4 DEF Database
<1>7. Threads(Pruned(d)) \subseteq Threads(d)
  BY <1>3, <1>6 DEF Threads
<1>8. /\ Pruned(d).instance = d.instance
      /\ Pruned(d).memories = d.memories
      /\ Pruned(d).grants = d.grants
      /\ Pruned(d).live = d.live
      /\ Pruned(d).clients = d.clients
      /\ Pruned(d).reports = d.reports
      /\ Pruned(d).consent = d.consent
  BY <1>4 DEF Database
<1> QED BY <1>2, <1>5, <1>6, <1>7, <1>8

\* What an operation of the owner stores is a database.
LEMMA ChangedType ==
    ASSUME NEW d \in Database, day \in 1..MaxDay
    PROVE  [d EXCEPT !.changed = day] \in Database
BY RecoveryAssumption DEF Database

LEMMA OwnerType ==
    ASSUME TypeOK, NEW n \in Node, NEW d \in Database, Owner(n, d),
           spent' \subseteq Memory \cup Grant \cup Client \cup Thread
    PROVE  TypeOK'
BY ChangedType DEF Owner, TypeOK

LEMMA OwnerStepType ==
    ASSUME TypeOK, NEW n \in Node, OwnerStep(n)
    PROVE  TypeOK'
<1> DEFINE D == db[n]
<1>d. D \in Database /\ Pruned(D) \in Database /\ day \in 1..MaxDay
  BY PrunedType DEF TypeOK
<1>1. ASSUME NEW m \in Memory, AddMemory(n, m) PROVE TypeOK'
  <2>1. [D EXCEPT !.memories = @ \cup {m}] \in Database
    BY <1>d DEF Database
  <2> QED BY <1>1, <2>1, OwnerType DEF AddMemory, TypeOK
<1>2. ASSUME NEW m \in Memory, DeleteMemory(n, m) PROVE TypeOK'
  <2>1. [D EXCEPT !.memories = @ \ {m}] \in Database
    BY <1>d DEF Database
  <2> QED BY <1>2, <2>1, OwnerType DEF DeleteMemory, TypeOK
<1>3. ASSUME NEW g \in Grant, CreateGrant(n, g) PROVE TypeOK'
  <2>1. [D EXCEPT !.grants = @ \cup {g}, !.live = @ \cup {g}] \in Database
    BY <1>d DEF Database
  <2> QED BY <1>3, <2>1, OwnerType DEF CreateGrant, TypeOK
<1>4. ASSUME NEW g \in Grant, RevokeGrant(n, g) PROVE TypeOK'
  <2>1. [D EXCEPT !.live = @ \ {g}] \in Database
    BY <1>d DEF Database
  <2> QED BY <1>4, <2>1, OwnerType DEF RevokeGrant, TypeOK
<1>5. ASSUME EnableWork(n) PROVE TypeOK'
  <2>1. [D EXCEPT !.enrolled = TRUE] \in Database
    BY <1>d DEF Database
  <2> QED BY <1>5, <2>1, OwnerType DEF EnableWork, TypeOK
<1>6. ASSUME NEW c \in Client, CreateClient(n, c) PROVE TypeOK'
  <2>1. [D EXCEPT !.clients = @ \cup {c}] \in Database
    BY <1>d DEF Database
  <2> QED BY <1>6, <2>1, OwnerType DEF CreateClient, TypeOK
<1>7. ASSUME NEW t \in Thread, CreateConversation(n, t) PROVE TypeOK'
  <2>1. [Pruned(D) EXCEPT !.threads[t] = day + ThreadDays] \in Database
    BY <1>d, RecoveryAssumption DEF Database
  <2> QED BY <1>7, <2>1, OwnerType DEF CreateConversation, TypeOK
<1>8. ASSUME NEW t \in Thread, DeleteConversation(n, t) PROVE TypeOK'
  <2>a. [D.threads EXCEPT ![t] = 0] \in [Thread -> 0..MaxDay + ThreadDays]
    BY <1>d, RecoveryAssumption DEF Database
  <2>1. [D EXCEPT !.threads[t] = 0, !.pending = @ \ {t}] \in Database
    BY <1>d, <2>a DEF Database
  <2> QED BY <1>8, <2>1, OwnerType DEF DeleteConversation, TypeOK
<1>9. ASSUME NEW t \in Thread, PrepareTurn(n, t) PROVE TypeOK'
  <2>1. [Pruned(D) EXCEPT !.pending = @ \cup {t}] \in Database
    BY <1>d DEF Database
  <2> QED BY <1>9, <2>1 DEF PrepareTurn, TypeOK
<1>10. ASSUME NEW t \in Thread, EndTurn(n, t) PROVE TypeOK'
  <2>1. [D EXCEPT !.pending = @ \ {t}] \in Database
    BY <1>d DEF Database
  <2>2. db' = [db EXCEPT ![n] = [D EXCEPT !.pending = @ \ {t}]]
    BY <1>10 DEF EndTurn, TypeOK
  <2> QED BY <1>10, <2>1, <2>2 DEF EndTurn, TypeOK
<1>11. ASSUME NEW enabled \in BOOLEAN, SetConsent(n, enabled) PROVE TypeOK'
  <2>1. [D EXCEPT !.consent = enabled] \in Database
    BY <1>d DEF Database
  <2> QED BY <1>11, <2>1, OwnerType DEF SetConsent, TypeOK
<1>12. ASSUME PrepareReport(n) PROVE TypeOK'
  <2>1. [D EXCEPT !.reports = @ \cup {day}] \in Database
    BY <1>d DEF Database
  <2> QED BY <1>12, <2>1, OwnerType DEF PrepareReport, TypeOK
<1>13. ASSUME Configure(n) PROVE TypeOK'
  <2>1. [D EXCEPT !.rules = n] \in Database
    BY <1>d DEF Database
  <2> QED BY <1>13, <2>1, OwnerType DEF Configure, TypeOK
<1>14. ASSUME Retain(n) PROVE TypeOK'
  <2>1. [Pruned(D) EXCEPT !.changed = 0] \in Database
    BY <1>d, RecoveryAssumption DEF Database
  <2> QED BY <1>14, <1>d, <2>1 DEF Retain, TypeOK
<1> QED BY <1>1, <1>2, <1>3, <1>4, <1>5, <1>6, <1>7, <1>8, <1>9, <1>10,
           <1>11, <1>12, <1>13, <1>14 DEF OwnerStep

\* Replacing one job by a job keeps the table of jobs.
LEMMA StartType ==
    ASSUME TypeOK, NEW r \in Request, NEW n \in Node,
           NEW stage \in {"sealing", "queued"},
           NEW content \in Database, NEW fault \in Fault,
           Start(r, n, stage, content, fault)
    PROVE  /\ job' \in [Request -> Job]
           /\ \A s \in Request : s # r => job'[s] = job[s]
           /\ job'[r].stage = stage
           /\ job'[r].node = n
           /\ job'[r].content = content
<1> DEFINE j == [IdleJob EXCEPT !.stage = stage, !.node = n,
                     !.content = content, !.fault = fault, !.caller = TRUE]
<1>1. /\ j \in Job
      /\ j.stage = stage /\ j.node = n /\ j.content = content
  BY IdleJobType DEF Job, Slotted
<1> HIDE DEF j
<1>2. job' = [job EXCEPT ![r] = j]
  BY DEF Start, j
<1> QED BY <1>1, <1>2 DEF TypeOK

LEMMA StopType ==
    ASSUME TypeOK, NEW r \in Request, Stop(r)
    PROVE  /\ job' \in [Request -> Job]
           /\ \A s \in Request : s # r => job'[s] = job[s]
           /\ job'[r].stage = "idle"
BY IdleJobType DEF Stop, TypeOK

LEMMA CapturedType ==
    ASSUME NEW d \in Database
    PROVE  /\ Captured(d) \in Database
           /\ Content(Captured(d)) = Content(d)
BY DEF Captured, Database, Content, Threads

\* A step of a worker that changes its stage, its transaction or its caller.
LEMMA AdvanceType ==
    ASSUME TypeOK, NEW r \in Request, NEW j \in Job,
           job' = [job EXCEPT ![r] = j]
    PROVE  /\ job' \in [Request -> Job]
           /\ \A s \in Request : s # r => job'[s] = job[s]
           /\ job'[r] = j
BY DEF TypeOK

\* The transaction as it is emptied, filled and scrubbed.
LEMMA ClearedType ==
    ASSUME TypeOK, NEW r \in Request, job[r].stage = "deriving"
    PROVE  [job[r] EXCEPT !.stage = "cleared",
                !.tx = [NewDatabase(job[r].node) EXCEPT
                            !.clients = db[job[r].node].clients]] \in Job
<1>1. job[r] \in Job /\ job[r].node \in Node
  BY DEF TypeOK, Job
<1>2. db[job[r].node] \in Database /\ NewDatabase(job[r].node) \in Database
  BY <1>1, NewDatabaseType DEF TypeOK
<1>3. [NewDatabase(job[r].node) EXCEPT !.clients = db[job[r].node].clients]
        \in Database
  BY <1>2 DEF Database
<1> QED BY <1>1, <1>3 DEF Job, Slotted, Locking, Transacting

LEMMA FilledType ==
    ASSUME TypeOK, NEW r \in Request
    PROVE  /\ [job[r].content EXCEPT !.clients = job[r].tx.clients] \in Database
           /\ [job[r] EXCEPT !.stage = "filled",
                  !.tx = [job[r].content EXCEPT !.clients = job[r].tx.clients]]
                \in Job
           /\ Content([job[r].content EXCEPT !.clients = job[r].tx.clients])
                = Content(job[r].content)
<1>1. job[r] \in Job /\ job[r].content \in Database /\ job[r].tx \in Database
  BY DEF TypeOK, Job
<1>2. [job[r].content EXCEPT !.clients = job[r].tx.clients] \in Database
  BY <1>1 DEF Database
<1>3. Content([job[r].content EXCEPT !.clients = job[r].tx.clients])
        = Content(job[r].content)
  BY <1>1 DEF Content, Threads, Database
<1> QED BY <1>1, <1>2, <1>3 DEF Job, Slotted, Locking, Transacting

LEMMA ScrubbedType ==
    ASSUME TypeOK, NEW r \in Request
    PROVE  /\ Scrubbed(job[r].tx, job[r].node) \in Database
           /\ [job[r] EXCEPT !.stage = "scrubbed",
                  !.tx = Scrubbed(job[r].tx, job[r].node)] \in Job
           /\ Content(Scrubbed(job[r].tx, job[r].node)) = Content(job[r].tx)
           /\ Scrubbed(job[r].tx, job[r].node).clients = job[r].tx.clients
           /\ Scrubbed(job[r].tx, job[r].node).live = {}
           /\ Scrubbed(job[r].tx, job[r].node).pending = {}
           /\ Scrubbed(job[r].tx, job[r].node).consent = FALSE
           /\ Scrubbed(job[r].tx, job[r].node).instance
                = db[job[r].node].instance
<1>1. /\ job[r] \in Job /\ job[r].node \in Node /\ job[r].tx \in Database
      /\ db[job[r].node] \in Database
  BY DEF TypeOK, Job
<1>2. db[job[r].node].instance \in Node
  BY <1>1 DEF Database
<1>3. Scrubbed(job[r].tx, job[r].node) \in Database
  BY <1>1, <1>2 DEF Scrubbed, Database
<1>4. Content(Scrubbed(job[r].tx, job[r].node)) = Content(job[r].tx)
  BY <1>1 DEF Scrubbed, Content, Threads, Database
<1>5. /\ Scrubbed(job[r].tx, job[r].node).clients = job[r].tx.clients
      /\ Scrubbed(job[r].tx, job[r].node).live = {}
      /\ Scrubbed(job[r].tx, job[r].node).pending = {}
      /\ Scrubbed(job[r].tx, job[r].node).consent = FALSE
      /\ Scrubbed(job[r].tx, job[r].node).instance
                = db[job[r].node].instance
  BY <1>1, <1>2 DEF Scrubbed, Database
<1> QED BY <1>1, <1>3, <1>4, <1>5 DEF Job, Slotted, Locking, Transacting

LEMMA Stages ==
    /\ "queued" \in Slotted /\ "sealing" \in Slotted /\ "deriving" \in Slotted
    /\ "cleared" \in Slotted /\ "filled" \in Slotted /\ "scrubbed" \in Slotted
    /\ "committed" \in Slotted
    /\ "idle" \notin Slotted /\ "sealed" \notin Slotted
    /\ "deriving" \in Locking /\ "cleared" \in Locking /\ "filled" \in Locking
    /\ "scrubbed" \in Locking /\ "committed" \in Locking
    /\ "queued" \notin Locking /\ "sealing" \notin Locking
    /\ Transacting \subseteq Locking /\ Locking \subseteq Slotted
    /\ "committed" \notin Transacting /\ "deriving" \notin Transacting
BY DEF Slotted, Locking, Transacting

\* Every step keeps the types.
LEMMA StepType == TypeOK /\ [Next]_vars => TypeOK'
<1> SUFFICES ASSUME TypeOK, [Next]_vars PROVE TypeOK'
  OBVIOUS
<1>1. ASSUME NEW n \in Node, OwnerStep(n) PROVE TypeOK'
  BY <1>1, OwnerStepType
<1>2. ASSUME NEW n \in Node, Crash(n) PROVE TypeOK'
  BY <1>2, IdleJobType DEF Crash, TypeOK
<1>3. ASSUME Tick PROVE TypeOK'
  BY <1>3, RecoveryAssumption DEF Tick, TypeOK
<1>4. ASSUME NEW r \in Request, NEW n \in Node, Export(r, n) PROVE TypeOK'
  <2>1. Pruned(db[n]) \in Database
    BY PrunedType DEF TypeOK
  <2>2. db' = [db EXCEPT ![n] = Pruned(db[n])] /\ db'[n] = Pruned(db[n])
    BY <1>4 DEF Export, TypeOK
  <2>3. Captured(db'[n]) \in Database
    BY <2>1, <2>2, CapturedType
  <2>4. job' \in [Request -> Job]
    BY <1>4, <2>3, StartType DEF Export, Fault
  <2> QED BY <1>4, <2>1, <2>2, <2>4 DEF Export, TypeOK
<1>5. ASSUME NEW r \in Request, NEW n \in Node, NEW content \in archives,
             NEW fault \in Fault, Restore(r, n, content, fault)
      PROVE  TypeOK'
  <2>1. content \in Database
    BY DEF TypeOK
  <2>2. job' \in [Request -> Job]
    BY <1>5, <2>1, StartType DEF Restore
  <2> QED BY <1>5, <2>2 DEF Restore, TypeOK
<1>6. ASSUME NEW r \in Request, Disconnect(r) PROVE TypeOK'
  <2>1. [job[r] EXCEPT !.caller = FALSE] \in Job
    BY DEF TypeOK, Job
  <2>2. job' \in [Request -> Job]
    BY <1>6, <2>1, AdvanceType, StopType DEF Disconnect, TypeOK
  <2> QED BY <1>6, <2>2 DEF Disconnect, TypeOK
<1>7. ASSUME NEW r \in Request, Work(r) PROVE TypeOK'
  <2> job[r] \in Job /\ job[r].node \in Node
    BY DEF TypeOK, Job
  <2>1. CASE Seal(r)
    <3>1. [job[r] EXCEPT !.stage = "sealed"] \in Job
      BY DEF Job
    <3>2. job' \in [Request -> Job]
      BY <2>1, <3>1, AdvanceType, StopType DEF Seal, TypeOK
    <3> QED BY <2>1, <3>2 DEF Seal, TypeOK
  <2>2. CASE SealFails(r)
    BY <2>2, StopType DEF SealFails, TypeOK
  <2>3. CASE Deliver(r)
    <3>1. [db[job[r].node] EXCEPT !.changed = day] \in Database
      BY ChangedType DEF TypeOK
    <3>2. db' = [db EXCEPT ![job[r].node] =
                    [db[job[r].node] EXCEPT !.changed = day]]
      BY <2>3 DEF Deliver, TypeOK
    <3>3. job[r].content \in Database
      BY DEF Job
    <3> QED BY <2>3, <3>1, <3>2, <3>3, StopType DEF Deliver, TypeOK
  <2>4. CASE Lock(r)
    <3>1. [job[r] EXCEPT !.stage = "deriving"] \in Job
      BY Stages DEF Job
    <3>2. job' \in [Request -> Job]
      BY <2>4, <3>1, AdvanceType DEF Lock
    <3> QED BY <2>4, <3>2 DEF Lock, TypeOK
  <2>5. CASE Refuse(r)
    BY <2>5, StopType DEF Refuse, TypeOK
  <2>6. CASE Clear(r)
    <3>1. job' \in [Request -> Job]
      BY <2>6, ClearedType DEF Clear, TypeOK
    <3> QED BY <2>6, <3>1 DEF Clear, TypeOK
  <2>7. CASE Fill(r)
    <3>1. job' \in [Request -> Job]
      BY <2>7, FilledType DEF Fill, TypeOK
    <3> QED BY <2>7, <3>1 DEF Fill, TypeOK
  <2>8. CASE Scrub(r)
    <3>1. job' \in [Request -> Job]
      BY <2>8, ScrubbedType DEF Scrub, TypeOK
    <3> QED BY <2>8, <3>1 DEF Scrub, TypeOK
  <2>9. CASE Rollback(r)
    BY <2>9, StopType DEF Rollback, TypeOK
  <2>10. CASE Commit(r)
    <3>1. [job[r].tx EXCEPT !.changed = day] \in Database
      BY ChangedType DEF TypeOK, Job
    <3>2. [job[r] EXCEPT !.stage = "committed"] \in Job
      BY Stages DEF Job
    <3>3. job' \in [Request -> Job]
      BY <2>10, <3>2, AdvanceType DEF Commit
    <3> QED BY <2>10, <3>1, <3>3 DEF Commit, TypeOK
  <2>11. CASE Finish(r)
    <3>1. Pruned(db[job[r].node]) \in Database
      BY PrunedType DEF TypeOK
    <3>2. job' \in [Request -> Job]
      BY <2>11, StopType DEF Finish
    <3> QED BY <2>11, <3>1, <3>2 DEF Finish, TypeOK
  <2> QED BY <1>7, <2>1, <2>2, <2>3, <2>4, <2>5, <2>6, <2>7, <2>8, <2>9,
             <2>10, <2>11 DEF Work
<1>8. CASE UNCHANGED vars
  BY <1>8 DEF vars, TypeOK
<1> QED BY <1>1, <1>2, <1>3, <1>4, <1>5, <1>6, <1>7, <1>8 DEF Next

LEMMA InitType == Init => TypeOK
BY NewDatabaseType, IdleJobType, RecoveryAssumption DEF Init, TypeOK

\* Every variable always holds a value of its type.
THEOREM TypeInvariant == Spec => []TypeOK
BY InitType, StepType, PTL DEF Spec

------------------------------------------------------------------------------
(* The inductive invariant *)

\* What a worker j knows of its installation's database d: it restores an
\* archive somebody holds; while its transaction is open the installation is
\* unused; what it will commit has the archive's content, and once scrubbed
\* neither access nor a foreign identity.
WorkerOK(j, d) ==
    /\ j.stage \in Slotted \ {"sealing"} => j.content \in archives
    /\ j.stage \in Transacting =>
          /\ Unused(d)
          /\ j.fault # "envelope"
          /\ j.stage # "cleared" => j.fault # "row"
          /\ j.tx.clients = d.clients
    /\ j.stage \in {"filled", "scrubbed"} => Content(j.tx) = Content(j.content)
    /\ j.stage = "scrubbed" =>
          /\ j.tx.live = {} /\ j.tx.pending = {} /\ ~j.tx.consent
          /\ j.tx.instance = d.instance

WorkersOK == \A r \in Request : WorkerOK(job[r], db[job[r].node])

IInv == TypeOK /\ OneRecovery /\ WorkersOK

\* A worker that holds no lock depends on the archives alone.
LEMMA Lockless ==
    ASSUME NEW j, NEW d, j.stage \notin Locking,
           j.stage \in Slotted \ {"sealing"} => j.content \in archives
    PROVE  WorkerOK(j, d)
BY DEF WorkerOK, Locking, Transacting

\* Whoever changes one installation under its lock disturbs no other call.
LEMMA Undisturbed ==
    ASSUME IInv, NEW n \in Node, NEW r \in Request,
           \A m \in Node \ {n} : db'[m] = db[m],
           job'[r] = job[r],
           archives \subseteq archives',
           job[r].node = n => db'[n] = db[n] \/ job[r].stage \notin Locking
    PROVE  WorkerOK(job[r], db[job[r].node])'
<1> job[r] \in Job /\ job[r].node \in Node
  BY DEF IInv, TypeOK, Job
<1>1. WorkerOK(job[r], db[job[r].node])
  BY DEF IInv, WorkersOK
<1>2. CASE db'[job[r].node] = db[job[r].node]
  BY <1>1, <1>2 DEF WorkerOK
<1>3. CASE job[r].stage \notin Locking
  BY <1>1, <1>3 DEF WorkerOK, Locking, Transacting
<1> QED BY <1>2, <1>3

\* A step of the owner changes one installation whose lock is free.
LEMMA OwnerChanges ==
    ASSUME TypeOK, NEW n \in Node, OwnerStep(n)
    PROVE  /\ Free(n)
           /\ \A m \in Node \ {n} : db'[m] = db[m]
           /\ UNCHANGED <<archives, job, day>>
BY DEF OwnerStep, AddMemory, DeleteMemory, CreateGrant, RevokeGrant,
       EnableWork, CreateClient, CreateConversation, DeleteConversation,
       PrepareTurn, EndTurn, SetConsent, PrepareReport, Configure, Retain,
       Owner, TypeOK

\* A call that took the slot is the only one of its installation.
LEMMA SlotTaken ==
    ASSUME IInv, NEW r \in Request, NEW s \in Request, s # r,
           job[r].stage \in Slotted, job[s].node = job[r].node
    PROVE  job[s].stage \notin Slotted /\ job[s].stage \notin Locking
BY Stages DEF IInv, OneRecovery

LEMMA InitInvariant == Init => IInv
<1> SUFFICES ASSUME Init PROVE IInv
  OBVIOUS
<1>1. \A r \in Request : job[r] = IdleJob
  BY DEF Init
<1>2. OneRecovery
  BY <1>1, IdleJobType, Stages DEF OneRecovery
<1>3. WorkersOK
  BY <1>1, IdleJobType, Stages, Lockless DEF WorkersOK
<1> QED BY <1>2, <1>3, InitType DEF IInv

\* Steps in which call r alone changes its job, and the database of at most
\* its own installation, keep what the others know.
LEMMA OthersKeep ==
    ASSUME IInv, NEW r \in Request, TypeOK',
           \A s \in Request \ {r} : job'[s] = job[s],
           archives \subseteq archives',
           \/ db' = db
           \/ /\ \A m \in Node \ {job[r].node} : db'[m] = db[m]
              /\ Free(job[r].node) \/ job[r].stage \in Slotted
    PROVE  \A s \in Request \ {r} : WorkerOK(job[s], db[job[s].node])'
<1> SUFFICES ASSUME NEW s \in Request, s # r
             PROVE  WorkerOK(job[s], db[job[s].node])'
  OBVIOUS
<1> job[r] \in Job /\ job[r].node \in Node /\ job[s] \in Job /\ job[s].node \in Node
  BY DEF IInv, TypeOK, Job
<1>1. CASE db' = db
  BY <1>1, Undisturbed
<1>2. CASE /\ \A m \in Node \ {job[r].node} : db'[m] = db[m]
           /\ Free(job[r].node) \/ job[r].stage \in Slotted
  <2>1. job[s].node = job[r].node => job[s].stage \notin Locking
    BY <1>2, SlotTaken DEF Free
  <2> QED BY <1>2, <2>1, Undisturbed
<1> QED BY <1>1, <1>2

\* What remains to be shown of such a step.
LEMMA OneChanges ==
    ASSUME IInv, NEW r \in Request, TypeOK',
           \A s \in Request \ {r} : job'[s] = job[s],
           archives \subseteq archives',
           \/ db' = db
           \/ /\ \A m \in Node \ {job[r].node} : db'[m] = db[m]
              /\ Free(job[r].node) \/ job[r].stage \in Slotted,
           \/ job'[r].stage \notin Slotted
           \/ job[r].stage \in Slotted /\ job'[r].node = job[r].node
           \/ SlotFree(job'[r].node),
           WorkerOK(job[r], db[job[r].node])'
    PROVE  IInv'
<1>1. OneRecovery'
  <2> SUFFICES ASSUME NEW p \in Request, NEW q \in Request,
                      job'[p].stage \in Slotted, job'[q].stage \in Slotted,
                      job'[p].node = job'[q].node
               PROVE  p = q
    BY DEF OneRecovery
  <2>1. CASE p # r /\ q # r
    BY <2>1 DEF IInv, OneRecovery
  <2>2. ASSUME NEW s \in Request, s # r, job'[r].stage \in Slotted,
               job'[s].stage \in Slotted, job'[s].node = job'[r].node
        PROVE  FALSE
    <3>1. job[s].stage \in Slotted /\ job[s].node = job'[r].node
      BY <2>2
    <3>2. CASE job[r].stage \in Slotted /\ job'[r].node = job[r].node
      BY <2>2, <3>1, <3>2 DEF IInv, OneRecovery
    <3>3. CASE SlotFree(job'[r].node)
      BY <3>1, <3>3 DEF SlotFree
    <3> QED BY <2>2, <3>2, <3>3
  <2> QED BY <2>1, <2>2
<1>2. WorkersOK'
  BY OthersKeep DEF WorkersOK
<1> QED BY <1>1, <1>2 DEF IInv

LEMMA WorkInvariant == ASSUME IInv, NEW r \in Request, Work(r), TypeOK' PROVE IInv'
<1> job[r] \in Job /\ job[r].node \in Node
  BY DEF IInv, TypeOK, Job
<1>k. WorkerOK(job[r], db[job[r].node]) /\ TypeOK
  BY DEF IInv, WorkersOK
<1>1. CASE Seal(r) \/ SealFails(r)
  <2>1. /\ db' = db /\ archives' = archives
        /\ job'[r].stage \in {"idle", "sealed"}
        /\ \A s \in Request \ {r} : job'[s] = job[s]
    <3>1. CASE job' = [job EXCEPT ![r].stage = "sealed"]
      BY <1>1, <1>k, <3>1 DEF Seal, SealFails, TypeOK, Job
    <3>2. CASE Stop(r)
      BY <1>1, <1>k, <3>2, StopType DEF Seal, SealFails
    <3> QED BY <1>1, <3>1, <3>2 DEF Seal, SealFails
  <2>2. WorkerOK(job[r], db[job[r].node])'
    BY <2>1, Stages DEF WorkerOK, Transacting
  <2> QED BY <2>1, <2>2, Stages, OneChanges
<1>2. CASE Deliver(r)
  <2>1. job'[r].stage = "idle" /\ \A s \in Request \ {r} : job'[s] = job[s]
    BY <1>2, <1>k, StopType DEF Deliver
  <2>2. \A m \in Node \ {job[r].node} : db'[m] = db[m]
    BY <1>2, <1>k DEF Deliver, TypeOK
  <2>3. archives \subseteq archives' /\ Free(job[r].node)
    BY <1>2 DEF Deliver
  <2>4. WorkerOK(job[r], db[job[r].node])'
    BY <2>1, Stages DEF WorkerOK, Transacting, Locking
  <2> QED BY <2>1, <2>2, <2>3, <2>4, Stages, OneChanges
<1>3. CASE Lock(r)
  <2>1. /\ job' = [job EXCEPT ![r].stage = "deriving"]
        /\ db' = db /\ archives' = archives /\ job[r].stage = "queued"
    BY <1>3 DEF Lock
  <2>2. /\ job'[r].stage = "deriving" /\ job'[r].node = job[r].node
        /\ job'[r].content = job[r].content
        /\ \A s \in Request \ {r} : job'[s] = job[s]
    BY <2>1, <1>k DEF TypeOK, Job
  <2>3. WorkerOK(job[r], db[job[r].node])'
    BY <1>k, <2>1, <2>2, Stages DEF WorkerOK
  <2> QED BY <2>1, <2>2, <2>3, Stages, OneChanges
<1>4. CASE Refuse(r) \/ Rollback(r)
  <2>1. Stop(r) /\ db' = db /\ archives' = archives
    BY <1>4 DEF Refuse, Rollback
  <2>2. job'[r].stage = "idle" /\ \A s \in Request \ {r} : job'[s] = job[s]
    BY <2>1, <1>k, StopType
  <2>3. WorkerOK(job[r], db[job[r].node])'
    BY <2>2, Stages DEF WorkerOK, Transacting
  <2> QED BY <2>1, <2>2, <2>3, Stages, OneChanges
<1>5. CASE Clear(r)
  <2> DEFINE j == [job[r] EXCEPT !.stage = "cleared",
                !.tx = [NewDatabase(job[r].node) EXCEPT
                            !.clients = db[job[r].node].clients]]
  <2>1. j \in Job /\ job' = [job EXCEPT ![r] = j]
    BY <1>5, <1>k, ClearedType DEF Clear, TypeOK
  <2>2. /\ j.stage = "cleared" /\ j.node = job[r].node
        /\ j.content = job[r].content /\ j.fault = job[r].fault
    BY DEF Job
  <2>3. j.tx.clients = db[job[r].node].clients
    BY <1>k, NewDatabaseType DEF Job, Database, TypeOK
  <2> HIDE DEF j
  <2>4. job'[r] = j /\ \A s \in Request \ {r} : job'[s] = job[s]
    BY <2>1, <1>k DEF TypeOK
  <2>5. /\ db' = db /\ archives' = archives /\ job[r].stage = "deriving"
        /\ Unused(db[job[r].node]) /\ job[r].fault # "envelope"
    BY <1>5 DEF Clear
  <2>6. WorkerOK(job[r], db[job[r].node])'
    BY <1>k, <2>2, <2>3, <2>4, <2>5, Stages DEF WorkerOK
  <2> QED BY <2>2, <2>4, <2>5, <2>6, Stages, OneChanges
<1>6. CASE Fill(r)
  <2> DEFINE t == [job[r].content EXCEPT !.clients = job[r].tx.clients]
             j == [job[r] EXCEPT !.stage = "filled", !.tx = t]
  <2>1. /\ j \in Job /\ job' = [job EXCEPT ![r] = j] /\ t \in Database
        /\ Content(t) = Content(job[r].content)
    BY <1>6, <1>k, FilledType DEF Fill, TypeOK
  <2>2. t.clients = job[r].tx.clients
    BY <1>k DEF Job, Database
  <2> HIDE DEF t
  <2>3. /\ j.stage = "filled" /\ j.node = job[r].node
        /\ j.content = job[r].content /\ j.fault = job[r].fault /\ j.tx = t
    BY DEF Job
  <2> HIDE DEF j
  <2>4. job'[r] = j /\ \A s \in Request \ {r} : job'[s] = job[s]
    BY <2>1, <1>k DEF TypeOK
  <2>5. /\ db' = db /\ archives' = archives /\ job[r].stage = "cleared"
        /\ job[r].fault # "row"
    BY <1>6 DEF Fill
  <2>6. job[r].stage \in Transacting
    BY <2>5 DEF Transacting
  <2>7. WorkerOK(job[r], db[job[r].node])'
    BY <1>k, <2>1, <2>2, <2>3, <2>4, <2>5, <2>6, Stages DEF WorkerOK
  <2> QED BY <2>3, <2>4, <2>5, <2>7, Stages, OneChanges
<1>7. CASE Scrub(r)
  <2> DEFINE t == Scrubbed(job[r].tx, job[r].node)
             j == [job[r] EXCEPT !.stage = "scrubbed", !.tx = t]
  <2>1. /\ j \in Job /\ job' = [job EXCEPT ![r] = j]
    BY <1>7, <1>k, ScrubbedType DEF Scrub, TypeOK
  <2>2. /\ Content(t) = Content(job[r].tx) /\ t.clients = job[r].tx.clients
        /\ t.live = {} /\ t.pending = {} /\ t.consent = FALSE
        /\ t.instance = db[job[r].node].instance
    BY <1>k, ScrubbedType
  <2> HIDE DEF t
  <2>3. /\ j.stage = "scrubbed" /\ j.node = job[r].node
        /\ j.content = job[r].content /\ j.fault = job[r].fault /\ j.tx = t
    BY DEF Job
  <2> HIDE DEF j
  <2>4. job'[r] = j /\ \A s \in Request \ {r} : job'[s] = job[s]
    BY <2>1, <1>k DEF TypeOK
  <2>5. /\ db' = db /\ archives' = archives /\ job[r].stage = "filled"
        /\ job[r].stage \in Transacting
    BY <1>7 DEF Scrub, Transacting
  <2>6. WorkerOK(job[r], db[job[r].node])'
    BY <1>k, <2>2, <2>3, <2>4, <2>5, Stages DEF WorkerOK
  <2> QED BY <2>3, <2>4, <2>5, <2>6, Stages, OneChanges
<1>8. CASE Commit(r)
  <2>1. /\ job' = [job EXCEPT ![r].stage = "committed"]
        /\ archives' = archives /\ job[r].stage = "scrubbed"
    BY <1>8 DEF Commit
  <2>2. /\ job'[r].stage = "committed" /\ job'[r].node = job[r].node
        /\ job'[r].content = job[r].content
        /\ \A s \in Request \ {r} : job'[s] = job[s]
    BY <2>1, <1>k DEF TypeOK, Job
  <2>3. \A m \in Node \ {job[r].node} : db'[m] = db[m]
    BY <1>8, <1>k DEF Commit, TypeOK
  <2>4. WorkerOK(job[r], db[job[r].node])'
    BY <1>k, <2>1, <2>2, Stages DEF WorkerOK
  <2>5. job[r].stage \in Slotted
    BY <2>1, Stages
  <2> QED BY <2>1, <2>2, <2>3, <2>4, <2>5, OneChanges
<1>9. CASE Finish(r)
  <2>1. job'[r].stage = "idle" /\ \A s \in Request \ {r} : job'[s] = job[s]
    BY <1>9, <1>k, StopType DEF Finish
  <2>2. \A m \in Node \ {job[r].node} : db'[m] = db[m]
    BY <1>9, <1>k DEF Finish, TypeOK
  <2>3. archives \subseteq archives' /\ job[r].stage \in Slotted
    BY <1>9, Stages DEF Finish
  <2>4. WorkerOK(job[r], db[job[r].node])'
    BY <2>1, Stages DEF WorkerOK, Transacting, Locking
  <2> QED BY <2>1, <2>2, <2>3, <2>4, Stages, OneChanges
<1> QED BY <1>1, <1>2, <1>3, <1>4, <1>5, <1>6, <1>7, <1>8, <1>9 DEF Work

LEMMA NextInvariant == IInv /\ [Next]_vars => IInv'
<1> SUFFICES ASSUME IInv, [Next]_vars PROVE IInv'
  OBVIOUS
<1>t. TypeOK /\ TypeOK'
  BY StepType DEF IInv
<1>1. ASSUME NEW n \in Node, OwnerStep(n) PROVE IInv'
  <2>1. /\ Free(n) /\ \A m \in Node \ {n} : db'[m] = db[m]
        /\ UNCHANGED <<archives, job>>
    BY <1>1, <1>t, OwnerChanges
  <2>2. WorkersOK'
    BY <2>1, Undisturbed DEF WorkersOK, Free
  <2>3. OneRecovery'
    BY <2>1 DEF IInv, OneRecovery
  <2> QED BY <1>t, <2>2, <2>3 DEF IInv
<1>2. ASSUME NEW n \in Node, Crash(n) PROVE IInv'
  <2>1. /\ db' = db /\ archives' = archives
        /\ job' = [r \in Request |-> IF job[r].node = n THEN IdleJob ELSE job[r]]
    BY <1>2 DEF Crash
  <2>2. \A r \in Request : job'[r] = IdleJob \/ job'[r] = job[r]
    BY <2>1
  <2>3. OneRecovery'
    BY <2>2, IdleJobType, Stages DEF IInv, OneRecovery
  <2>4. ASSUME NEW r \in Request PROVE WorkerOK(job[r], db[job[r].node])'
    <3>1. CASE job'[r] = IdleJob
      BY <3>1, IdleJobType, Stages DEF WorkerOK, Transacting
    <3>2. CASE job'[r] = job[r]
      BY <2>1, <3>2, Undisturbed DEF IInv, TypeOK, Job
    <3> QED BY <2>2, <3>1, <3>2
  <2> QED BY <1>t, <2>3, <2>4 DEF IInv, WorkersOK
<1>3. ASSUME Tick PROVE IInv'
  <2>1. UNCHANGED <<db, archives, job>>
    BY <1>3 DEF Tick
  <2> QED BY <1>t, <2>1 DEF IInv, OneRecovery, WorkersOK, WorkerOK, Unused
<1>4. ASSUME NEW r \in Request, NEW n \in Node, Export(r, n) PROVE IInv'
  <2>1. db' = [db EXCEPT ![n] = Pruned(db[n])] /\ archives' = archives
    BY <1>4 DEF Export
  <2>2. db'[n] \in Database /\ \A m \in Node \ {n} : db'[m] = db[m]
    BY <1>t, <2>1 DEF TypeOK
  <2>3. Captured(db'[n]) \in Database
    BY <2>2, CapturedType
  <2>4. /\ job'[r].stage = "sealing" /\ job'[r].node = n
        /\ \A s \in Request \ {r} : job'[s] = job[s]
    BY <1>4, <1>t, <2>3, StartType DEF Export, Fault
  <2>5. ASSUME NEW s \in Request PROVE WorkerOK(job[s], db[job[s].node])'
    <3>1. CASE s = r
      BY <2>4, <3>1, Stages DEF WorkerOK, Transacting
    <3>2. CASE s # r
      <4>1. job'[s] = job[s]
        BY <2>4, <3>2
      <4>2. job[s].node = n => job[s].stage \notin Locking
        BY <1>4 DEF Export, Free
      <4> QED BY <2>1, <2>2, <4>1, <4>2, Undisturbed
    <3> QED BY <3>1, <3>2
  <2>6. SlotFree(n)
    BY <1>4 DEF Export
  <2>7. OneRecovery'
    BY <2>4, <2>6 DEF IInv, OneRecovery, SlotFree
  <2> QED BY <1>t, <2>5, <2>7 DEF IInv, WorkersOK
<1>5. ASSUME NEW r \in Request, NEW n \in Node, NEW content \in archives,
             NEW fault \in Fault, Restore(r, n, content, fault)
      PROVE  IInv'
  <2>1. content \in Database
    BY <1>t DEF TypeOK
  <2>2. /\ job'[r].stage = "queued" /\ job'[r].node = n
        /\ job'[r].content = content
        /\ \A s \in Request \ {r} : job'[s] = job[s]
    BY <1>5, <1>t, <2>1, StartType DEF Restore
  <2>3. db' = db /\ archives' = archives /\ SlotFree(n)
    BY <1>5 DEF Restore
  <2>4. WorkerOK(job[r], db[job[r].node])'
    BY <2>2, <2>3, Stages DEF WorkerOK, Transacting
  <2> QED BY <1>t, <2>2, <2>3, <2>4, OneChanges
<1>6. ASSUME NEW r \in Request, Disconnect(r) PROVE IInv'
  <2>1. db' = db /\ archives' = archives
    BY <1>6 DEF Disconnect
  <2>2. CASE Stop(r)
    <3>1. job'[r].stage = "idle" /\ \A s \in Request \ {r} : job'[s] = job[s]
      BY <2>2, <1>t, StopType
    <3>2. WorkerOK(job[r], db[job[r].node])'
      BY <3>1, Stages DEF WorkerOK, Transacting
    <3> QED BY <1>t, <2>1, <3>1, <3>2, Stages, OneChanges
  <2>3. CASE job' = [job EXCEPT ![r].caller = FALSE]
    <3>1. /\ job'[r] = [job[r] EXCEPT !.caller = FALSE]
          /\ \A s \in Request \ {r} : job'[s] = job[s]
      BY <2>3, <1>t DEF TypeOK
    <3>2. /\ job'[r].stage = job[r].stage /\ job'[r].node = job[r].node
          /\ job'[r].content = job[r].content /\ job'[r].tx = job[r].tx
          /\ job'[r].fault = job[r].fault
      BY <3>1, <1>t DEF TypeOK, Job
    <3>3. WorkerOK(job[r], db[job[r].node])'
      BY <2>1, <3>2 DEF IInv, WorkersOK, WorkerOK
    <3> QED BY <1>t, <2>1, <3>1, <3>2, <3>3, OneChanges
  <2> QED BY <1>6, <2>2, <2>3 DEF Disconnect
<1>7. ASSUME NEW r \in Request, Work(r) PROVE IInv'
  BY <1>7, <1>t, WorkInvariant
<1>8. CASE UNCHANGED vars
  BY <1>8, <1>t DEF vars, IInv, OneRecovery, WorkersOK, WorkerOK
<1> QED BY <1>1, <1>2, <1>3, <1>4, <1>5, <1>6, <1>7, <1>8 DEF Next

LEMMA Invariant == Spec => []IInv
BY InitInvariant, NextInvariant, PTL DEF Spec

\* No two recoveries of one installation overlap.
THEOREM RecoveriesExclude == Spec => []OneRecovery
BY Invariant, PTL DEF IInv

\* What a restore overwrites is unused until the moment it commits.
THEOREM NothingIsOverwritten == Spec => []OverwritesNothing
<1>1. IInv => OverwritesNothing
  BY DEF IInv, WorkersOK, WorkerOK, OverwritesNothing
<1> QED BY <1>1, Invariant, PTL

------------------------------------------------------------------------------
(* What the owner's operations can change *)

\* Database d differs from database e as one operation of the owner may make
\* it differ: it gains at most the one thing x, and a credential only if x
\* was never used before.
Gains(d, e, x) ==
    /\ d.instance = e.instance
    /\ Content(d) \subseteq Content(e) \cup {x}
    /\ Access(d) \subseteq Access(e) \cup {x}
    /\ e.reports \subseteq d.reports
    /\ (Credentials(d) \ Credentials(e)) \cap spent = {}

LEMMA PrunedGains ==
    ASSUME TypeOK, NEW e \in Database, NEW x
    PROVE  Gains(Pruned(e), e, x)
<1>1. day \in 1..MaxDay
  BY DEF TypeOK
<1> QED BY <1>1, PrunedType DEF Gains, Content, Access, Credentials

\* The audit row is nobody's content and nobody's access.
LEMMA ChangedGains ==
    ASSUME NEW d \in Database, NEW e \in Database, NEW x, Gains(d, e, x)
    PROVE  Gains([d EXCEPT !.changed = day], e, x)
<1>1. /\ [d EXCEPT !.changed = day].instance = d.instance
      /\ [d EXCEPT !.changed = day].memories = d.memories
      /\ [d EXCEPT !.changed = day].grants = d.grants
      /\ [d EXCEPT !.changed = day].live = d.live
      /\ [d EXCEPT !.changed = day].clients = d.clients
      /\ [d EXCEPT !.changed = day].threads = d.threads
      /\ [d EXCEPT !.changed = day].pending = d.pending
      /\ [d EXCEPT !.changed = day].reports = d.reports
      /\ [d EXCEPT !.changed = day].consent = d.consent
  BY DEF Database
<1> HIDE DEF Database
<1> QED BY <1>1 DEF Gains, Content, Access, Credentials, Threads

\* One operation of the owner, as the abstract specification sees it.
LEMMA OwnerGains ==
    ASSUME TypeOK, NEW n \in Node, NEW d \in Database, NEW x,
           Gains(d, db[n], x), Owner(n, d)
    PROVE  Gains(db'[n], db[n], x)
<1>1. db'[n] = [d EXCEPT !.changed = day] /\ db[n] \in Database
  BY DEF Owner, TypeOK
<1> QED BY <1>1, ChangedGains

LEMMA ThingParts ==
    /\ Memory \subseteq Thing /\ Grant \subseteq Thing /\ Client \subseteq Thing
    /\ Thread \subseteq Thing /\ Consent \in Thing
    /\ \A w \in 1..MaxDay : Reported(w) \in Thing
BY DEF Thing

LEMMA OwnerStepGains ==
    ASSUME TypeOK, NEW n \in Node, OwnerStep(n)
    PROVE  \E x \in Thing : Gains(db'[n], db[n], x)
<1> DEFINE e == db[n]
<1>e. e \in Database /\ Pruned(e) \in Database /\ day \in 1..MaxDay
  BY PrunedType DEF TypeOK
<1>1. ASSUME NEW m \in Memory, AddMemory(n, m) PROVE Gains(db'[n], db[n], m)
  <2> DEFINE d == [e EXCEPT !.memories = @ \cup {m}]
  <2>1. d \in Database /\ Gains(d, e, m)
    BY <1>e DEF Database, Gains, Content, Access, Credentials, Threads
  <2> QED BY <1>1, <2>1, OwnerGains DEF AddMemory
<1>2. ASSUME NEW m \in Memory, DeleteMemory(n, m) PROVE Gains(db'[n], db[n], m)
  <2> DEFINE d == [e EXCEPT !.memories = @ \ {m}]
  <2>1. d \in Database /\ Gains(d, e, m)
    BY <1>e DEF Database, Gains, Content, Access, Credentials, Threads
  <2> QED BY <1>2, <2>1, OwnerGains DEF DeleteMemory
<1>3. ASSUME NEW g \in Grant, CreateGrant(n, g) PROVE Gains(db'[n], db[n], g)
  <2> DEFINE d == [e EXCEPT !.grants = @ \cup {g}, !.live = @ \cup {g}]
  <2>1. d \in Database
    BY <1>e DEF Database
  <2>2. g \notin spent
    BY <1>3 DEF CreateGrant
  <2>3. Gains(d, e, g)
    BY <1>e, <2>2 DEF Database, Gains, Content, Access, Credentials, Threads
  <2> QED BY <1>3, <2>1, <2>3, OwnerGains DEF CreateGrant
<1>4. ASSUME NEW g \in Grant, RevokeGrant(n, g) PROVE Gains(db'[n], db[n], g)
  <2> DEFINE d == [e EXCEPT !.live = @ \ {g}]
  <2>1. d \in Database /\ Gains(d, e, g)
    BY <1>e DEF Database, Gains, Content, Access, Credentials, Threads
  <2> QED BY <1>4, <2>1, OwnerGains DEF RevokeGrant
<1>5. ASSUME EnableWork(n) PROVE Gains(db'[n], db[n], Consent)
  <2> DEFINE d == [e EXCEPT !.enrolled = TRUE]
  <2>1. d \in Database /\ Gains(d, e, Consent)
    BY <1>e DEF Database, Gains, Content, Access, Credentials, Threads
  <2> QED BY <1>5, <2>1, OwnerGains DEF EnableWork
<1>6. ASSUME NEW c \in Client, CreateClient(n, c) PROVE Gains(db'[n], db[n], c)
  <2> DEFINE d == [e EXCEPT !.clients = @ \cup {c}]
  <2>1. d \in Database
    BY <1>e DEF Database
  <2>2. c \notin spent
    BY <1>6 DEF CreateClient
  <2>3. Gains(d, e, c)
    BY <1>e, <2>2 DEF Database, Gains, Content, Access, Credentials, Threads
  <2> QED BY <1>6, <2>1, <2>3, OwnerGains DEF CreateClient
<1>7. ASSUME NEW t \in Thread, CreateConversation(n, t)
      PROVE  Gains(db'[n], db[n], t)
  <2> DEFINE q == Pruned(e)
             d == [q EXCEPT !.threads[t] = day + ThreadDays]
  <2>1. q \in Database /\ Gains(q, e, t)
    BY <1>e, PrunedGains
  <2> HIDE DEF q
  <2>2. d \in Database
    BY <1>e, <2>1, RecoveryAssumption DEF Database
  <2>3. /\ d.instance = q.instance /\ d.memories = q.memories
        /\ d.grants = q.grants /\ d.live = q.live /\ d.clients = q.clients
        /\ d.pending = q.pending /\ d.reports = q.reports
        /\ d.consent = q.consent
        /\ Threads(d) \subseteq Threads(q) \cup {t}
    BY <1>e, <2>1 DEF Database, Threads
  <2> HIDE DEF d
  <2>4. Gains(d, e, t)
    BY <2>1, <2>3 DEF Gains, Content, Access, Credentials
  <2> QED BY <1>7, <2>2, <2>4, OwnerGains DEF CreateConversation, d, q
<1>8. ASSUME NEW t \in Thread, DeleteConversation(n, t)
      PROVE  Gains(db'[n], db[n], t)
  <2> DEFINE d == [e EXCEPT !.threads[t] = 0, !.pending = @ \ {t}]
  <2>1. [e.threads EXCEPT ![t] = 0] \in [Thread -> 0..MaxDay + ThreadDays]
    BY <1>e, RecoveryAssumption DEF Database
  <2>2. d \in Database
    BY <1>e, <2>1 DEF Database
  <2>3. /\ d.instance = e.instance /\ d.memories = e.memories
        /\ d.grants = e.grants /\ d.live = e.live /\ d.clients = e.clients
        /\ d.pending = e.pending \ {t} /\ d.reports = e.reports
        /\ d.consent = e.consent
        /\ Threads(d) \subseteq Threads(e)
    BY <1>e DEF Database, Threads
  <2> HIDE DEF d, e
  <2>4. Gains(d, e, t)
    BY <2>3 DEF Gains, Content, Access, Credentials
  <2> QED BY <1>8, <1>e, <2>2, <2>4, OwnerGains DEF DeleteConversation, d, e
<1>9. ASSUME NEW t \in Thread, PrepareTurn(n, t) PROVE Gains(db'[n], db[n], t)
  <2> DEFINE q == Pruned(e)
             d == [q EXCEPT !.pending = @ \cup {t}]
  <2>1. q \in Database /\ Gains(q, e, t)
    BY <1>e, PrunedGains
  <2>2. db'[n] = d
    BY <1>9 DEF PrepareTurn, TypeOK
  <2> HIDE DEF q
  <2>3. Gains(d, e, t)
    BY <2>1 DEF Database, Gains, Content, Access, Credentials, Threads
  <2> QED BY <2>2, <2>3
<1>10. ASSUME NEW t \in Thread, EndTurn(n, t) PROVE Gains(db'[n], db[n], t)
  <2> DEFINE d == [e EXCEPT !.pending = @ \ {t}]
  <2>1. db'[n] = d
    BY <1>10 DEF EndTurn, TypeOK
  <2>2. Gains(d, e, t)
    BY <1>e DEF Database, Gains, Content, Access, Credentials, Threads
  <2> QED BY <2>1, <2>2
<1>11. ASSUME NEW enabled \in BOOLEAN, SetConsent(n, enabled)
       PROVE  Gains(db'[n], db[n], Consent)
  <2> DEFINE d == [e EXCEPT !.consent = enabled]
  <2>1. d \in Database /\ Gains(d, e, Consent)
    BY <1>e DEF Database, Gains, Content, Access, Credentials, Threads
  <2> QED BY <1>11, <2>1, OwnerGains DEF SetConsent
<1>12. ASSUME PrepareReport(n) PROVE Gains(db'[n], db[n], Reported(day))
  <2> DEFINE d == [e EXCEPT !.reports = @ \cup {day}]
  <2>1. d \in Database /\ Gains(d, e, Reported(day))
    BY <1>e DEF Database, Gains, Content, Access, Credentials, Threads
  <2> QED BY <1>12, <2>1, OwnerGains DEF PrepareReport
<1>13. ASSUME Configure(n) PROVE Gains(db'[n], db[n], Consent)
  <2> DEFINE d == [e EXCEPT !.rules = n]
  <2>1. d \in Database /\ Gains(d, e, Consent)
    BY <1>e DEF Database, Gains, Content, Access, Credentials, Threads
  <2> QED BY <1>13, <2>1, OwnerGains DEF Configure
<1>14. ASSUME Retain(n) PROVE Gains(db'[n], db[n], Consent)
  <2> DEFINE q == Pruned(e)
  <2>1. q \in Database /\ Gains(q, e, Consent)
    BY <1>e, PrunedGains
  <2>2. db'[n] = q \/ db'[n] = [q EXCEPT !.changed = 0]
    BY <1>14 DEF Retain, TypeOK
  <2> HIDE DEF q
  <2>3. Gains([q EXCEPT !.changed = 0], e, Consent)
    BY <2>1 DEF Database, Gains, Content, Access, Credentials, Threads
  <2> QED BY <2>1, <2>2, <2>3
<1> QED BY <1>1, <1>2, <1>3, <1>4, <1>5, <1>6, <1>7, <1>8, <1>9, <1>10,
           <1>11, <1>12, <1>13, <1>14, <1>e, ThingParts DEF OwnerStep

------------------------------------------------------------------------------
(* What recovery itself can change *)

\* No step of a worker, and no export, gives a database more than it had;
\* a commit replaces an empty one by an archive's content without access.
Replaced(d, e, j) ==
    /\ d.instance = e.instance
    /\ Content(e) = {} /\ e.reports = {}
    /\ Content(d) = Content(j.content)
    /\ Access(d) = {} /\ Credentials(d) = {}

LEMMA CommitReplaces ==
    ASSUME IInv, NEW r \in Request, Commit(r)
    PROVE  /\ \A m \in Node \ {job[r].node} : db'[m] = db[m]
           /\ Replaced(db'[job[r].node], db[job[r].node], job[r])
<1> DEFINE n == job[r].node
           t == job[r].tx
<1>1. /\ TypeOK /\ n \in Node /\ t \in Database /\ db[n] \in Database
      /\ WorkerOK(job[r], db[n]) /\ job[r].stage = "scrubbed"
  BY DEF IInv, TypeOK, Job, WorkersOK, Commit
<1>2. db' = [db EXCEPT ![n] = [t EXCEPT !.changed = day]]
  BY DEF Commit
<1>3. /\ \A m \in Node \ {n} : db'[m] = db[m]
      /\ db'[n] = [t EXCEPT !.changed = day]
  BY <1>1, <1>2 DEF TypeOK
<1>4. /\ Unused(db[n]) /\ t.clients = db[n].clients
      /\ Content(t) = Content(job[r].content)
      /\ t.live = {} /\ t.pending = {} /\ ~t.consent
      /\ t.instance = db[n].instance
  BY <1>1 DEF WorkerOK, Transacting
<1>5. Content(db[n]) = {} /\ db[n].reports = {} /\ t.clients = {}
  BY <1>4 DEF Unused, Content
<1>6. /\ db'[n].instance = t.instance /\ db'[n].live = t.live
      /\ db'[n].clients = t.clients /\ db'[n].pending = t.pending
      /\ db'[n].consent = t.consent /\ Content(db'[n]) = Content(t)
  BY <1>1, <1>3 DEF Database, Content, Threads
<1>7. Access(db'[n]) = {} /\ Credentials(db'[n]) = {}
  BY <1>4, <1>5, <1>6 DEF Access, Credentials
<1> QED BY <1>3, <1>4, <1>5, <1>6, <1>7 DEF Replaced

LEMMA Same == ASSUME NEW d, NEW x PROVE Gains(d, d, x)
BY DEF Gains

\* Every step but a commit changes at most one database, as the owner could.
LEMMA Gentle ==
    ASSUME IInv, [Next]_vars
    PROVE  \/ db' = db
           \/ \E n \in Node, x \in Thing :
                 /\ \A m \in Node \ {n} : db'[m] = db[m]
                 /\ Gains(db'[n], db[n], x)
           \/ \E r \in Request : Commit(r)
<1> TypeOK
  BY DEF IInv
<1>1. ASSUME NEW n \in Node, OwnerStep(n)
      PROVE  \E x \in Thing : /\ \A m \in Node \ {n} : db'[m] = db[m]
                              /\ Gains(db'[n], db[n], x)
  BY <1>1, OwnerChanges, OwnerStepGains
<1>2. ASSUME NEW r \in Request, NEW n \in Node, Export(r, n)
      PROVE  /\ \A m \in Node \ {n} : db'[m] = db[m]
             /\ Gains(db'[n], db[n], Consent)
  BY <1>2, PrunedGains DEF Export, TypeOK
<1>3. ASSUME NEW r \in Request, Deliver(r) \/ Finish(r)
      PROVE  \E n \in Node : /\ \A m \in Node \ {n} : db'[m] = db[m]
                             /\ Gains(db'[n], db[n], Consent)
  <2> DEFINE n == job[r].node
  <2>1. n \in Node /\ db[n] \in Database
    BY DEF TypeOK, Job
  <2>2. \A m \in Node \ {n} : db'[m] = db[m]
    BY <1>3, <2>1 DEF Deliver, Finish, TypeOK
  <2>3. db'[n] = Pruned(db[n]) \/ db'[n] = [db[n] EXCEPT !.changed = day]
    BY <1>3, <2>1 DEF Deliver, Finish, TypeOK
  <2>4. Gains(db'[n], db[n], Consent)
    BY <2>1, <2>3, PrunedGains, Same, ChangedGains
  <2> QED BY <2>1, <2>2, <2>4
<1>4. ASSUME NEW r \in Request, Work(r), ~Deliver(r), ~Finish(r), ~Commit(r)
      PROVE  db' = db
  BY <1>4 DEF Work, Seal, SealFails, Lock, Refuse, Clear, Fill, Scrub, Rollback
<1>5. ASSUME NEW r \in Request, Disconnect(r) PROVE db' = db
  BY <1>5 DEF Disconnect
<1>6. ASSUME NEW r \in Request, NEW n \in Node, NEW content, NEW fault,
             Restore(r, n, content, fault) PROVE db' = db
  BY <1>6 DEF Restore
<1>7. ASSUME NEW n \in Node, Crash(n) PROVE db' = db
  BY <1>7 DEF Crash
<1>8. Tick \/ UNCHANGED vars => db' = db
  BY DEF Tick, vars
<1> QED BY <1>1, <1>2, <1>3, <1>4, <1>5, <1>6, <1>7, <1>8, ThingParts DEF Next

\* No grant and no token comes to life but by being created.
THEOREM NothingIsRevived == Spec => NoRevival
<1>1. ASSUME IInv, [Next]_vars, NEW n \in Node
      PROVE  (Credentials(db'[n]) \ Credentials(db[n])) \cap spent = {}
  <2>1. CASE db' = db
    BY <2>1
  <2>2. ASSUME NEW m \in Node, NEW x \in Thing,
               \A k \in Node \ {m} : db'[k] = db[k], Gains(db'[m], db[m], x)
        PROVE  (Credentials(db'[n]) \ Credentials(db[n])) \cap spent = {}
    BY <2>2 DEF Gains
  <2>3. ASSUME NEW r \in Request, Commit(r)
        PROVE  (Credentials(db'[n]) \ Credentials(db[n])) \cap spent = {}
    BY <1>1, <2>3, CommitReplaces DEF Replaced
  <2> QED BY <1>1, <2>1, <2>2, <2>3, Gentle
<1>2. IInv /\ [Next]_vars
        => [\A n \in Node :
              (Credentials(db'[n]) \ Credentials(db[n])) \cap spent = {}]_vars
  BY <1>1
<1> QED BY <1>2, Invariant, PTL DEF Spec, NoRevival

\* A released report stays in the ledger.
THEOREM ReportsAreKept == Spec => ReportsStay
<1>1. ASSUME IInv, [Next]_vars, NEW n \in Node
      PROVE  db[n].reports \subseteq db'[n].reports
  <2>1. CASE db' = db
    BY <2>1
  <2>2. ASSUME NEW m \in Node, NEW x \in Thing,
               \A k \in Node \ {m} : db'[k] = db[k], Gains(db'[m], db[m], x)
        PROVE  db[n].reports \subseteq db'[n].reports
    BY <2>2 DEF Gains
  <2>3. ASSUME NEW r \in Request, Commit(r)
        PROVE  db[n].reports \subseteq db'[n].reports
    BY <1>1, <2>3, CommitReplaces DEF Replaced
  <2> QED BY <1>1, <2>1, <2>2, <2>3, Gentle
<1>2. IInv /\ [Next]_vars
        => [\A n \in Node : db[n].reports \subseteq db'[n].reports]_vars
  BY <1>1
<1> QED BY <1>2, Invariant, PTL DEF Spec, ReportsStay

------------------------------------------------------------------------------
(* Export and restore implement the relocation of content *)

LEMMA InitImplements == Init => Relocated!Init
<1> SUFFICES ASSUME Init PROVE Relocated!Init
  OBVIOUS
<1>1. \A n \in Node : Content(db[n]) = {} /\ Access(db[n]) = {}
                      /\ db[n].instance = n
  BY DEF Init, NewDatabase, Content, Access, Credentials, Threads
<1>2. Copies = {}
  BY DEF Init, IdleJob, Copies, InExport, Sealing
<1>3. Contents = [n \in Node |-> {}] /\ Accesses = [n \in Node |-> {}]
      /\ Identities = [n \in Node |-> n]
  BY <1>1 DEF Contents, Accesses, Identities
<1> QED BY <1>2, <1>3 DEF Relocated!Init

\* What a step sets at one installation, all other databases left alone.
LEMMA SetMaps ==
    ASSUME NEW n \in Node, NEW held, NEW allowed,
           \A m \in Node \ {n} : db'[m] = db[m],
           Content(db[n])' = held, Access(db[n])' = allowed,
           db'[n].instance = db[n].instance
    PROVE  Relocated!Set(n, held, allowed)
<1>1. \A m \in Node \ {n} : /\ Content(db[m])' = Content(db[m])
                            /\ Access(db[m])' = Access(db[m])
  BY DEF Content, Access, Credentials, Threads
<1>2. Contents' = [Contents EXCEPT ![n] = held]
  BY <1>1 DEF Contents
<1>3. Accesses' = [Accesses EXCEPT ![n] = allowed]
  BY <1>1 DEF Accesses
<1>4. Identities' = Identities
  BY DEF Identities
<1> QED BY <1>2, <1>3, <1>4 DEF Relocated!Set

\* An owner's step adds one thing at most.
LEMMA OwnerMaps ==
    ASSUME NEW n \in Node, NEW x \in Thing,
           \A m \in Node \ {n} : db'[m] = db[m],
           Gains(db'[n], db[n], x), Copies' = Copies
    PROVE  Relocated!Owner(n)
<1> DEFINE held == Content(db'[n])
           allowed == Access(db'[n])
<1>1. /\ held \subseteq Contents[n] \cup {x}
      /\ allowed \subseteq Accesses[n] \cup {x}
      /\ db'[n].instance = db[n].instance
  BY DEF Gains, Contents, Accesses
<1>2. Content(db[n])' = held /\ Access(db[n])' = allowed
  BY DEF Content, Access, Credentials, Threads
<1>3. Contents'[n] = held /\ Accesses'[n] = allowed
  BY <1>2 DEF Contents, Accesses
<1> HIDE DEF held, allowed
<1>4. Relocated!Set(n, Contents'[n], Accesses'[n])
  BY <1>1, <1>2, <1>3, SetMaps
<1> QED BY <1>1, <1>3, <1>4 DEF Relocated!Owner

\* A step that leaves the databases alone is seen only in the copies.
LEMMA QuietMaps ==
    ASSUME db' = db
    PROVE  Contents' = Contents /\ Accesses' = Accesses /\ Identities' = Identities
BY DEF Contents, Accesses, Identities, Content, Access, Credentials, Threads

\* Exports that are neither begun nor ended leave the copies alone.
LEMMA CopiesStay ==
    ASSUME archives' = archives,
           \A r \in Request :
              /\ (job'[r].stage \in Sealing) <=> (job[r].stage \in Sealing)
              /\ job[r].stage \in Sealing => job'[r].content = job[r].content
    PROVE  Copies' = Copies
<1>1. InExport' = InExport
  BY DEF InExport, Sealing
<1>2. \A r \in InExport : Content(job[r].content)' = Content(job[r].content)
  BY DEF InExport, Content, Threads
<1>3. {Content(d) : d \in archives}' = {Content(d) : d \in archives}
  BY DEF Content, Threads
<1> QED BY <1>1, <1>2, <1>3 DEF Copies

LEMMA CopiesShrink ==
    ASSUME archives' = archives,
           \A r \in Request : job'[r].stage \in Sealing =>
              /\ job[r].stage \in Sealing
              /\ job'[r].content = job[r].content
    PROVE  Copies' \subseteq Copies
<1>1. InExport' \subseteq InExport
  BY DEF InExport, Sealing
<1>2. \A r \in InExport' : Content(job[r].content)' = Content(job[r].content)
  BY DEF InExport, Content, Threads
<1>3. {Content(d) : d \in archives}' = {Content(d) : d \in archives}
  BY DEF Content, Threads
<1> QED BY <1>1, <1>2, <1>3 DEF Copies

LEMMA RestorerKeepsCopies ==
    ASSUME TypeOK, NEW r \in Request,
           \/ Lock(r) \/ Refuse(r) \/ Clear(r) \/ Fill(r) \/ Scrub(r)
           \/ Rollback(r) \/ Commit(r) \/ Finish(r)
    PROVE  Copies' = Copies
<1>1. archives' = archives /\ job[r].stage \notin Sealing
  BY DEF Lock, Refuse, Clear, Fill, Scrub, Rollback, Commit, Finish, Sealing
<1>2. /\ \A s \in Request \ {r} : job'[s] = job[s]
      /\ job'[r].stage \notin Sealing
  BY StopType DEF TypeOK, Job, Lock, Refuse, Clear, Fill, Scrub, Rollback,
     Commit, Finish, Stop, IdleJob, Sealing
<1> QED BY <1>1, <1>2, CopiesStay

LEMMA ExportMaps ==
    ASSUME TypeOK, NEW r \in Request, NEW n \in Node, Export(r, n)
    PROVE  Relocated!Copy(n)
<1> DEFINE p == Pruned(db[n])
           kept == Content(p)
           stays == Access(p)
<1>1. p \in Database /\ db[n] \in Database /\ day \in 1..MaxDay
  BY PrunedType DEF TypeOK
<1>2. /\ kept \subseteq Content(db[n]) /\ stays \subseteq Access(db[n])
      /\ p.instance = db[n].instance
  BY <1>1, PrunedType DEF Content, Access, Credentials, TypeOK
<1>3. /\ \A m \in Node \ {n} : db'[m] = db[m]
      /\ db'[n] = p
  BY DEF Export, TypeOK
<1>4. Content(db[n])' = kept /\ Access(db[n])' = stays
  BY <1>3 DEF Content, Access, Credentials, Threads
<1>5. Relocated!Set(n, kept, stays)
  <2> HIDE DEF kept, stays
  <2> QED BY <1>2, <1>3, <1>4, SetMaps
<1>6. Copies' = Copies \cup {kept}
  <2> DEFINE snapshot == Captured(p)
  <2>1. snapshot \in Database /\ Content(snapshot) = kept
    BY <1>1, CapturedType DEF Captured, Database, Content, Threads
  <2>2. /\ \A s \in Request \ {r} : job'[s] = job[s]
        /\ job'[r].stage = "sealing" /\ job'[r].content = snapshot
    BY <1>3 DEF Export, Start, IdleJob, TypeOK
  <2> HIDE DEF snapshot, kept
  <2>3. archives' = archives /\ job[r].stage \notin Sealing
    BY DEF Export, Sealing
  <2>4. InExport' = InExport \cup {r}
    BY <2>2, <2>3 DEF InExport, Sealing
  <2>5. \A s \in InExport : s # r /\ Content(job[s].content)' = Content(job[s].content)
    BY <2>2, <2>3 DEF InExport, Content, Threads
  <2>6. Content(job[r].content)' = kept
    BY <2>1, <2>2 DEF Content, Threads
  <2>7. {Content(d) : d \in archives}' = {Content(d) : d \in archives}
    BY <2>3 DEF Content, Threads
  <2> QED BY <2>4, <2>5, <2>6, <2>7 DEF Copies
<1>7. /\ kept \subseteq Contents[n] /\ stays \subseteq Accesses[n]
      /\ Contents'[n] = kept /\ Accesses'[n] = stays
  BY <1>2, <1>4 DEF Contents, Accesses
<1> QED BY <1>5, <1>6, <1>7 DEF Relocated!Copy

\* A delivered archive was a copy before.
LEMMA DeliverMaps ==
    ASSUME TypeOK, NEW r \in Request, Deliver(r)
    PROVE  UNCHANGED <<Contents, Accesses, Identities, Copies>>
<1> PICK n \in Node : n = job[r].node
  BY DEF TypeOK, Job
<1> DEFINE d == [db[n] EXCEPT !.changed = day]
<1>1. n \in Node /\ db[n] \in Database /\ job[r].stage = "sealed"
  BY DEF TypeOK, Job, Deliver
<1>2. /\ \A m \in Node \ {n} : db'[m] = db[m]
      /\ db'[n] = d
  BY <1>1 DEF Deliver, TypeOK
<1>3. Content(d) = Content(db[n]) /\ Access(d) = Access(db[n])
      /\ d.instance = db[n].instance
  BY <1>1 DEF Database, Content, Access, Credentials, Threads
<1>4. Content(db[n])' = Content(d) /\ Access(db[n])' = Access(d)
  BY <1>2 DEF Content, Access, Credentials, Threads
<1>5. \A m \in Node : /\ Content(db[m])' = Content(db[m])
                      /\ Access(db[m])' = Access(db[m])
                      /\ db'[m].instance = db[m].instance
  <2> HIDE DEF d
  <2>1. \A m \in Node \ {n} : /\ Content(db[m])' = Content(db[m])
                              /\ Access(db[m])' = Access(db[m])
    BY <1>2 DEF Content, Access, Credentials, Threads
  <2> QED BY <1>1, <1>2, <1>3, <1>4, <2>1
<1>6. Contents' = Contents /\ Accesses' = Accesses /\ Identities' = Identities
  BY <1>5 DEF Contents, Accesses, Identities
<1>7. Copies' = Copies
  <2>1. /\ \A s \in Request \ {r} : job'[s] = job[s]
        /\ job'[r].stage = "idle"
        /\ archives' = archives \cup {job[r].content}
    BY DEF Deliver, Stop, IdleJob, TypeOK
  <2>2. InExport' = InExport \ {r} /\ r \in InExport
    BY <1>1, <2>1 DEF InExport, Sealing
  <2>3. \A s \in InExport \ {r} :
           Content(job[s].content)' = Content(job[s].content)
    BY <2>1 DEF InExport, Content, Threads
  <2>4. {Content(a) : a \in archives}'
          = {Content(a) : a \in archives} \cup {Content(job[r].content)}
    BY <2>1 DEF Content, Threads
  <2> QED BY <2>2, <2>3, <2>4 DEF Copies
<1> QED BY <1>6, <1>7

LEMMA CommitMaps ==
    ASSUME IInv, NEW r \in Request, Commit(r)
    PROVE  \E n \in Node, x \in Copies : Relocated!Restore(n, x)
<1> PICK n \in Node : n = job[r].node
  BY DEF IInv, TypeOK, Job
<1> PICK x : x = Content(job[r].content)
  OBVIOUS
<1>1. /\ TypeOK /\ n \in Node /\ WorkerOK(job[r], db[n])
      /\ job[r].stage = "scrubbed"
  BY DEF IInv, TypeOK, Job, WorkersOK, Commit
<1>2. x \in Copies
  BY <1>1 DEF WorkerOK, Slotted, Locking, Transacting, Copies
<1>3. /\ \A m \in Node \ {n} : db'[m] = db[m]
      /\ db'[n].instance = db[n].instance
      /\ Content(db[n]) = {} /\ Content(db'[n]) = x /\ Access(db'[n]) = {}
  BY CommitReplaces DEF Replaced
<1>4. Content(db[n])' = x /\ Access(db[n])' = {}
  BY <1>3 DEF Content, Access, Credentials, Threads
<1>5. Copies' = Copies
  BY <1>1, RestorerKeepsCopies
<1>6. Relocated!Set(n, x, {})
  BY <1>1, <1>3, <1>4, SetMaps
<1>7. Contents[n] = {}
  BY <1>1, <1>3 DEF Contents
<1>8. \A y : y = x => (Relocated!Set(n, y, {}) /\ Copies' = Copies /\ Contents[n] = {}
               => Relocated!Restore(n, y))
  BY DEF Relocated!Restore
<1> QED BY <1>1, <1>2, <1>5, <1>6, <1>7, <1>8

\* Sealing moves a snapshot on or drops it; disconnecting and crashing drop it.
LEMMA LossMaps ==
    ASSUME TypeOK,
           \/ \E r \in Request : Seal(r) \/ SealFails(r) \/ Disconnect(r)
           \/ \E n \in Node : Crash(n)
    PROVE  Relocated!Lose
<1>1. db' = db /\ archives' = archives
  BY DEF Seal, SealFails, Disconnect, Crash
<1>2. \A r \in Request : job'[r].stage \in Sealing =>
              /\ job[r].stage \in Sealing
              /\ job'[r].content = job[r].content
  <2>1. ASSUME NEW r \in Request, Seal(r) \/ SealFails(r) \/ Disconnect(r)
        PROVE  \A s \in Request : job'[s].stage \in Sealing =>
                       /\ job[s].stage \in Sealing
                       /\ job'[s].content = job[s].content
    BY <2>1 DEF TypeOK, Job, Seal, SealFails, Disconnect, Stop, IdleJob, Sealing
  <2>2. ASSUME NEW n \in Node, Crash(n),
               NEW s \in Request, job'[s].stage \in Sealing
        PROVE  job'[s] = job[s]
    BY <2>2 DEF Crash, IdleJob, Sealing
  <2> QED BY <2>1, <2>2
<1>3. Copies' \subseteq Copies
  BY <1>1, <1>2, CopiesShrink
<1> QED BY <1>1, <1>3, QuietMaps DEF Relocated!Lose

LEMMA NextImplements ==
    IInv /\ [Next]_vars
    => [Relocated!Next]_<<Contents, Accesses, Identities, Copies>>
<1> SUFFICES ASSUME IInv, [Next]_vars
             PROVE  \/ Relocated!Next
                    \/ UNCHANGED <<Contents, Accesses, Identities, Copies>>
  OBVIOUS
<1>t. TypeOK
  BY DEF IInv
<1>1. ASSUME NEW n \in Node, OwnerStep(n) PROVE Relocated!Next
  <2>1. PICK x \in Thing : /\ \A m \in Node \ {n} : db'[m] = db[m]
                           /\ Gains(db'[n], db[n], x)
    BY <1>1, <1>t, OwnerChanges, OwnerStepGains
  <2>2. archives' = archives /\ job' = job
    BY <1>1 DEF OwnerStep, AddMemory, DeleteMemory, CreateGrant, RevokeGrant,
       EnableWork, CreateClient, CreateConversation, DeleteConversation,
       PrepareTurn, EndTurn, SetConsent, PrepareReport, Configure, Retain, Owner
  <2>3. Copies' = Copies
    BY <2>2, CopiesStay
  <2>4. Relocated!Owner(n)
    BY <2>1, <2>3, OwnerMaps
  <2> QED BY <2>4 DEF Relocated!Next
<1>2. ASSUME NEW r \in Request, NEW n \in Node, Export(r, n) PROVE Relocated!Next
  BY <1>2, <1>t, ExportMaps DEF Relocated!Next
<1>3. ASSUME \/ \E r \in Request : Seal(r) \/ SealFails(r) \/ Disconnect(r)
             \/ \E n \in Node : Crash(n)
      PROVE  Relocated!Next
  BY <1>3, <1>t, LossMaps DEF Relocated!Next
<1>4. ASSUME NEW r \in Request, Deliver(r)
      PROVE  UNCHANGED <<Contents, Accesses, Identities, Copies>>
  BY <1>4, <1>t, DeliverMaps
<1>5. ASSUME NEW r \in Request,
             Lock(r) \/ Refuse(r) \/ Clear(r) \/ Fill(r) \/ Scrub(r) \/ Rollback(r)
      PROVE  UNCHANGED <<Contents, Accesses, Identities, Copies>>
  <2>1. db' = db
    BY <1>5 DEF Lock, Refuse, Clear, Fill, Scrub, Rollback
  <2> QED BY <1>5, <1>t, <2>1, RestorerKeepsCopies, QuietMaps
<1>6. ASSUME NEW r \in Request, Commit(r) PROVE Relocated!Next
  BY <1>6, CommitMaps DEF Relocated!Next
<1>7. ASSUME NEW r \in Request, Finish(r) PROVE Relocated!Next
  <2>1. PICK n \in Node : n = job[r].node
    BY <1>t DEF TypeOK, Job
  <2>2. /\ \A m \in Node \ {n} : db'[m] = db[m]
        /\ db'[n] = Pruned(db[n])
    BY <1>7, <1>t, <2>1 DEF Finish, TypeOK
  <2>3. Gains(db'[n], db[n], Consent)
    BY <1>t, <2>1, <2>2, PrunedGains DEF TypeOK
  <2>4. Relocated!Owner(n)
    BY <1>7, <1>t, <2>2, <2>3, RestorerKeepsCopies, OwnerMaps, ThingParts
  <2> QED BY <2>4, ThingParts DEF Relocated!Next
<1>8. ASSUME NEW r \in Request, NEW n \in Node, NEW content, NEW fault,
             Restore(r, n, content, fault)
      PROVE  UNCHANGED <<Contents, Accesses, Identities, Copies>>
  <2>1. db' = db /\ archives' = archives /\ job[r].stage \notin Sealing
    BY <1>8 DEF Restore, Sealing
  <2>2. /\ \A s \in Request \ {r} : job'[s] = job[s]
        /\ job'[r].stage = "queued"
    BY <1>8, <1>t DEF Restore, Start, IdleJob, TypeOK
  <2>3. Copies' = Copies
    BY <2>1, <2>2, CopiesStay DEF Sealing
  <2> QED BY <2>1, <2>3, QuietMaps
<1>9. ASSUME Tick \/ UNCHANGED vars
      PROVE  UNCHANGED <<Contents, Accesses, Identities, Copies>>
  <2>1. db' = db /\ archives' = archives /\ job' = job
    BY <1>9 DEF Tick, vars
  <2> QED BY <2>1, CopiesStay, QuietMaps
<1> QED
  BY <1>1, <1>2, <1>3, <1>4, <1>5, <1>6, <1>7, <1>8, <1>9 DEF Next, Work

\* Seen from outside a restore is one step into an empty installation.
THEOREM RecoveryImplementsRelocation == Spec => ImplementsRelocation
<1>1. Init => Relocated!Init
  BY InitImplements
<1>2. IInv /\ [Next]_vars
        => [Relocated!Next]_<<Contents, Accesses, Identities, Copies>>
  BY NextImplements
<1> QED
  BY <1>1, <1>2, Invariant, PTL DEF Spec, ImplementsRelocation, Relocated!Spec

------------------------------------------------------------------------------
(* Liveness.  ENABLED is opaque to the provers: that a worker can take a    *)
(* step unless it waits is an invariant that TLC checks, and a hypothesis   *)
(* here.  That it never waits for ever is proved.                           *)

Ended(r) == job[r].stage \notin Slotted

\* r has the slot, and its worker at most n steps to go.
AtMost(r, n) ==
    job[r].stage \in (IF n >= 1 THEN {"committed", "sealing"} ELSE {})
        \cup (IF n >= 2 THEN {"scrubbed"} ELSE {})
        \cup (IF n >= 3 THEN {"filled"} ELSE {})
        \cup (IF n >= 4 THEN {"cleared"} ELSE {})
        \cup (IF n >= 5 THEN {"deriving"} ELSE {})
        \cup (IF n >= 6 THEN {"queued"} ELSE {})

\* A waiting worker finds the lock free: whoever else could keep it would
\* have the slot.
LEMMA LockIsFree ==
    ASSUME IInv, NEW r \in Request, job[r].stage = "queued"
    PROVE  Free(job[r].node)
BY SlotTaken, Stages DEF Free

LEMMA WorkAdvances ==
    ASSUME TypeOK, NEW r \in Request, Work(r), job[r].stage \in Slotted
    PROVE  \/ job'[r].stage \notin Slotted
           \/ job[r].stage = "queued" /\ job'[r].stage = "deriving"
           \/ job[r].stage = "deriving" /\ job'[r].stage = "cleared"
           \/ job[r].stage = "cleared" /\ job'[r].stage = "filled"
           \/ job[r].stage = "filled" /\ job'[r].stage = "scrubbed"
           \/ job[r].stage = "scrubbed" /\ job'[r].stage = "committed"
<1> job \in [Request -> Job] /\ job[r] \in Job
  BY DEF TypeOK
<1>1. Stop(r) => job'[r].stage \notin Slotted
  BY Stages, StopType DEF IdleJob, Stop
<1>2. \A t \in {"sealed", "deriving", "committed"} :
         job' = [job EXCEPT ![r].stage = t] => job'[r].stage = t
  BY DEF Job
<1>3. CASE Seal(r) \/ SealFails(r) \/ Deliver(r) \/ Refuse(r) \/ Rollback(r) \/ Finish(r)
  BY <1>1, <1>2, <1>3, Stages DEF Seal, SealFails, Deliver, Refuse, Rollback, Finish
<1>4. CASE Lock(r) \/ Commit(r)
  BY <1>2, <1>4 DEF Lock, Commit
<1>5. CASE Clear(r)
  BY <1>5 DEF Clear, Job
<1>6. CASE Fill(r)
  BY <1>6 DEF Fill, Job
<1>7. CASE Scrub(r)
  BY <1>7 DEF Scrub, Job
<1> QED BY <1>3, <1>4, <1>5, <1>6, <1>7 DEF Work

\* Every step of a worker brings it nearer to its end, and no step of anyone
\* takes it further away.
LEMMA StepsBringNearer ==
    ASSUME IInv, [Next]_vars, NEW r \in Request, NEW n \in 1..6, AtMost(r, n)
    PROVE  /\ Ended(r)' \/ AtMost(r, n)'
           /\ <<Work(r)>>_vars => Ended(r)' \/ AtMost(r, n - 1)'
<1>t. TypeOK
  BY DEF IInv
<1>1. CASE Work(r)
  BY <1>1, <1>t, WorkAdvances, Stages DEF AtMost, Ended
<1>2. CASE ~ Work(r)
  <2> SUFFICES job'[r].stage = job[r].stage \/ job'[r].stage \notin Slotted
    BY <1>2 DEF AtMost, Ended
  <2>1. CASE job'[r] = job[r]
    BY <2>1
  <2>2. CASE Disconnect(r)
    BY <1>t, <2>2, StopType, Stages DEF Disconnect, Stop, IdleJob, TypeOK, Job
  <2>3. CASE \E m \in Node : Crash(m)
    BY <1>t, <2>3, Stages DEF Crash, IdleJob
  <2>4. ASSUME NEW q \in Request, q # r, Work(q) \/ Disconnect(q)
        PROVE  job'[r] = job[r]
    BY <1>t, <2>4 DEF Work, Disconnect, Seal, SealFails, Deliver, Lock, Refuse, Clear,
       Fill, Scrub, Rollback, Commit, Finish, Stop, TypeOK
  <2>5. ASSUME NEW q \in Request, NEW m \in Node,
               \/ Export(q, m)
               \/ \E content \in archives, fault \in Fault : Restore(q, m, content, fault)
        PROVE  job'[r] = job[r]
    <3>1. q # r
      BY <2>5 DEF Export, Restore, AtMost
    <3> QED BY <1>t, <2>5, <3>1 DEF Export, Restore, Start, TypeOK
  <2>6. CASE Tick \/ UNCHANGED vars \/ \E m \in Node : OwnerStep(m)
    BY <1>t, <2>6, OwnerChanges DEF Tick, vars
  <2> QED BY <1>2, <2>1, <2>2, <2>3, <2>4, <2>5, <2>6 DEF Next
<1> QED BY <1>1, <1>2

\* What RecoveriesEnd takes from TLC, as ENABLED is beyond the prover: a worker
\* with the slot can take a step, unless it waits for the lock.  A worker that
\* cannot would keep its slot for ever, and violate RecoveryEnds in the run.
WorkersCanRun ==
    \A r \in Request :
        /\ job[r].stage \in Slotted
        /\ job[r].stage = "queued" => Free(job[r].node)
        => ENABLED <<Work(r)>>_vars

LEMMA RecoveryEndsOf ==
    ASSUME NEW r \in Request
    PROVE  Spec /\ WorkerRuns(r) /\ []WorkersCanRun
           => ((job[r].stage \in Slotted) ~> (job[r].stage \notin Slotted))
<1>0. IInv /\ WorkersCanRun /\ AtMost(r, 6) => ENABLED <<Work(r)>>_vars
  BY LockIsFree, Stages DEF WorkersCanRun, AtMost
<1>1. /\ IInv /\ [Next]_vars /\ AtMost(r, 1) => Ended(r)' \/ AtMost(r, 1)'
      /\ IInv /\ [Next]_vars /\ AtMost(r, 1) /\ <<Work(r)>>_vars
           => Ended(r)' \/ FALSE
  BY StepsBringNearer DEF AtMost
<1>2. /\ IInv /\ [Next]_vars /\ AtMost(r, 2) => Ended(r)' \/ AtMost(r, 2)'
      /\ IInv /\ [Next]_vars /\ AtMost(r, 2) /\ <<Work(r)>>_vars
           => Ended(r)' \/ AtMost(r, 1)'
  BY StepsBringNearer DEF AtMost
<1>3. /\ IInv /\ [Next]_vars /\ AtMost(r, 3) => Ended(r)' \/ AtMost(r, 3)'
      /\ IInv /\ [Next]_vars /\ AtMost(r, 3) /\ <<Work(r)>>_vars
           => Ended(r)' \/ AtMost(r, 2)'
  BY StepsBringNearer DEF AtMost
<1>4. /\ IInv /\ [Next]_vars /\ AtMost(r, 4) => Ended(r)' \/ AtMost(r, 4)'
      /\ IInv /\ [Next]_vars /\ AtMost(r, 4) /\ <<Work(r)>>_vars
           => Ended(r)' \/ AtMost(r, 3)'
  BY StepsBringNearer DEF AtMost
<1>5. /\ IInv /\ [Next]_vars /\ AtMost(r, 5) => Ended(r)' \/ AtMost(r, 5)'
      /\ IInv /\ [Next]_vars /\ AtMost(r, 5) /\ <<Work(r)>>_vars
           => Ended(r)' \/ AtMost(r, 4)'
  BY StepsBringNearer DEF AtMost
<1>6. /\ IInv /\ [Next]_vars /\ AtMost(r, 6) => Ended(r)' \/ AtMost(r, 6)'
      /\ IInv /\ [Next]_vars /\ AtMost(r, 6) /\ <<Work(r)>>_vars
           => Ended(r)' \/ AtMost(r, 5)'
  BY StepsBringNearer DEF AtMost
<1>8. /\ Ended(r) => job[r].stage \notin Slotted
      /\ job[r].stage \in Slotted => AtMost(r, 6)
      /\ AtMost(r, 1) \/ AtMost(r, 2) \/ AtMost(r, 3) \/ AtMost(r, 4) \/ AtMost(r, 5)
         => AtMost(r, 6)
  BY DEF Ended, AtMost, Slotted, Locking, Transacting
<1> QED
  BY Invariant, <1>0, <1>1, <1>2, <1>3, <1>4, <1>5, <1>6, <1>8, PTL DEF Spec, WorkerRuns

\* Whoever took the slot gives it back, with or without somebody who waits.
THEOREM RecoveriesEnd == FairSpec /\ []WorkersCanRun => RecoveryEnds
<1>1. ASSUME NEW r \in Request
      PROVE  Spec /\ WorkerRuns(r) /\ []WorkersCanRun
             => ((job[r].stage \in Slotted) ~> (job[r].stage \notin Slotted))
  BY RecoveryEndsOf
<1> QED BY <1>1 DEF FairSpec, RecoveryEnds

==============================================================================
