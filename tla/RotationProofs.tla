--------------------------- MODULE RotationProofs ---------------------------
(***************************************************************************)
(* What TLAPS proves about Rotation: for any number of rotations, requests, *)
(* nonces and crashes, any lifetimes and any clock bounds.                  *)
(***************************************************************************)
EXTENDS Rotation, FiniteSetTheorems, TLAPS

USE KnockAssumption, DriftAssumption

-----------------------------------------------------------------------------
(* Helpers.                                                                 *)

(* The two addresses of a client alternate.                                 *)
LEMMA Addresses ==
    ASSUME NEW e \in Nat
    PROVE  /\ Address(e) \in {0, 1}
           /\ Address(e + 1) # Address(e)
           /\ Address(e + 1 + 1) = Address(e)
BY DEF Address

(* Cleaning up keeps the type, and what is left was there.                  *)
LEMMA CleanedState ==
    ASSUME NEW s, Stored(s), NEW now
    PROVE  /\ Stored(Cleaned(s, now))
           /\ Cleaned(s, now).epoch = s.epoch
           /\ Cleaned(s, now).key = s.key
           /\ Cleaned(s, now).nonces = s.nonces
           /\ Cleaned(s, now).pending = {p \in s.pending : now < p.expires}
           /\ Cleaned(s, now).previous = {p \in s.previous : now < p.expires}
<1>1. /\ Cleaned(s, now) \in States
      /\ Cleaned(s, now).epoch = s.epoch
      /\ Cleaned(s, now).key = s.key
      /\ Cleaned(s, now).nonces = s.nonces
      /\ Cleaned(s, now).pending = {p \in s.pending : now < p.expires}
      /\ Cleaned(s, now).previous = {p \in s.previous : now < p.expires}
  BY DEF Cleaned, States, Stored
<1>2. \A S : AtMostOne(S) => AtMostOne({p \in S : now < p.expires})
  BY DEF AtMostOne
<1>3. AtMostOne(Cleaned(s, now).pending) /\ AtMostOne(Cleaned(s, now).previous)
  BY <1>1, <1>2 DEF Stored
<1> QED
  BY <1>1, <1>3 DEF Stored

(* The peers of a state are peers.                                          *)
LEMMA PeersAreTyped ==
    ASSUME NEW s \in States
    PROVE  PeersOf(s) \subseteq Peers
<1>1. /\ s.epoch \in Nat /\ s.key \in Keys
      /\ \A p \in s.pending : p.epoch \in Nat /\ p.key \in Keys
      /\ \A p \in s.previous : p.key \in Keys
  BY DEF States, Pending, Previous
<1>2. \A e \in Nat : Address(e) \in {0, 1}
  BY Addresses
<1>3. s.epoch + 1 \in Nat
  BY <1>1
<1> QED
  BY <1>1, <1>2, <1>3 DEF PeersOf, Peers

LEMMA WithPeerTyped ==
    ASSUME NEW peers \in SUBSET Peers, NEW key \in Keys, NEW address \in {0, 1}
    PROVE  WithPeer(peers, key, address) \subseteq Peers
BY DEF WithPeer, Peers

(* A nonce table that is below its capacity has room for one more.          *)
LEMMA TableBound ==
    ASSUME NEW T \in SUBSET Nonces, NEW U \in SUBSET T, NEW n \in Nonces
    PROVE  /\ Cardinality(U) <= Cardinality(T)
           /\ Cardinality(T) \in Nat
           /\ Cardinality(U) < Capacity => Cardinality(U \cup {n}) <= Capacity
<1>1. IsFiniteSet(Nonces)
  BY FS_Interval DEF Nonces
<1>2. IsFiniteSet(T) /\ IsFiniteSet(U)
  BY <1>1, FS_Subset
<1>3. Cardinality(U) <= Cardinality(T) /\ Cardinality(T) \in Nat /\ Cardinality(U) \in Nat
  BY <1>2, FS_Subset, FS_CardinalityType
<1>4. Cardinality(U \cup {n}) = IF n \in U THEN Cardinality(U) ELSE Cardinality(U) + 1
  BY <1>2, FS_AddElement
<1> QED
  BY <1>3, <1>4

(* A part of a bounded table is bounded.                                    *)
LEMMA SubsetBound ==
    ASSUME NEW T \in SUBSET Nonces, NEW U \in SUBSET T, Cardinality(T) <= Capacity
    PROVE  Cardinality(U) <= Capacity
<1>0. IsFiniteSet(Nonces)
  BY FS_Interval DEF Nonces
<1>1. IsFiniteSet(T)
  BY <1>0, FS_Subset
<1>2. Cardinality(U) <= Cardinality(T) /\ Cardinality(T) \in Nat /\ Cardinality(U) \in Nat
  BY <1>1, FS_Subset, FS_CardinalityType
<1> QED
  BY <1>2

LEMMA EmptyBound == Cardinality({}) <= Capacity
BY FS_EmptySet

LEMMA EnrolledState == Stored(Enrolled)
<1>1. Enrolled \in States /\ Enrolled.pending = {} /\ Enrolled.previous = {} /\ Enrolled.nonces = {}
  BY DEF Enrolled, States, Keys
<1> QED
  BY <1>1, EmptyBound DEF Stored, AtMostOne

-----------------------------------------------------------------------------
(* Types.                                                                   *)

LEMMA InitTypes == Init => TypeOK
<1> SUFFICES ASSUME Init PROVE TypeOK
  OBVIOUS
<1>1. 0 \in Clock /\ AtMostOne({})
  BY DEF Clock, AtMostOne
<1>2. config \in Configs /\ AtMostOne(config.pending) /\ made \in Nat /\ at \in Places
  BY <1>1 DEF Init, Configs, Keys, Places
<1>3. sent \in Seq(Requests) /\ Len(sent) = 0
  BY DEF Init
<1> QED
  BY <1>1, <1>2, <1>3, EnrolledState, EmptyBound DEF Init, ServerInit, TypeOK, Handling

(* A request the client sends.                                              *)
LEMMA RequestTypes ==
    ASSUME TypeOK, NEW action \in {"open", "prepare", "commit"},
           NEW epoch \in Nat, NEW key \in Keys, NEW to \in Places,
           Request(action, epoch, key, to), UNCHANGED <<config, made>>
    PROVE  TypeOK'
<1>1. PICK d \in -Drift .. Drift :
        sent' = Append(sent, [action |-> action, epoch |-> epoch, key |-> key,
                              issued |-> clock + d])
  BY DEF Request
<1>2. [action |-> action, epoch |-> epoch, key |-> key, issued |-> clock + d] \in Requests
  BY DEF Requests, TypeOK, Clock
<1>3. sent' \in Seq(Requests) /\ Len(sent') = Len(sent) + 1
  BY <1>1, <1>2 DEF TypeOK
<1> QED
  BY <1>3 DEF Request, TypeOK, Handling

(* A state is saved.                                                        *)
LEMMA SaveTypes ==
    ASSUME TypeOK, UNCHANGED <<clock, sent, clientVars>>,
           SaveLoaded \/ SaveSwept \/ SaveAccepted
    PROVE  TypeOK'
BY DEF TypeOK, SaveLoaded, SaveSwept, SaveAccepted, Save, clientVars, Handling

(* The request in hand.                                                     *)
LEMMA HandledJob ==
    ASSUME TypeOK, Handled
    PROVE  /\ job \in 1 .. Len(sent) /\ job \in Nonces /\ job # 0
           /\ sent[job] \in Requests
<1>1. job \in 1 .. Len(sent)
  BY DEF Handled, TypeOK, Handling
<1> QED
  BY <1>1 DEF TypeOK, Nonces

LEMMA HandledTypes ==
    ASSUME TypeOK, Handled, Admitted \/ NextTurn,
           Stored(mem'), kernel' \subseteq Peers,
           UNCHANGED <<clock, sent, clientVars>>
    PROVE  TypeOK'
<1>1. job \in 1 .. Len(sent) /\ job \in Nonces /\ job # 0
  BY HandledJob
<1>2. /\ pc' \in {"accepted", "loop"}
      /\ job' \in {0, job}
      /\ pc' = "accepted" => job' = job
  BY DEF Admitted, NextTurn
<1>3. job' \in 0 .. Len(sent) /\ (pc' \in Handling => job' # 0)
  BY <1>1, <1>2 DEF Handling
<1>4. acted' \subseteq Nonces
  BY <1>1 DEF Handled, TypeOK
<1> QED
  BY <1>2, <1>3, <1>4 DEF Handled, TypeOK, clientVars

LEMMA ServerTypes ==
    ASSUME TypeOK, ServerStep, UNCHANGED <<clock, sent, clientVars>>
    PROVE  TypeOK'
<1> USE DEF clientVars
<1>1. CASE Load
  <2>1. Stored(Cleaned(disk, clock))
    BY CleanedState DEF TypeOK
  <2>2. PeersOf(Cleaned(disk, clock)) \subseteq Peers
    BY <2>1, PeersAreTyped DEF Stored
  <2>3. table' \subseteq disk.nonces /\ disk.nonces \subseteq Nonces
    BY <1>1 DEF Load, Unexpired, TypeOK, Stored, States
  <2>4. Cardinality(table') <= Capacity
    BY <1>1, <2>3, SubsetBound DEF Load
  <2> QED
    BY <1>1, <2>1, <2>2, <2>3, <2>4 DEF Load, TypeOK, Handling
<1>2. CASE SaveLoaded \/ SaveSwept \/ SaveAccepted
  BY <1>2, SaveTypes
<1>3. CASE Sweep
  <2>1. Stored(Cleaned(mem, clock))
    BY CleanedState DEF TypeOK
  <2> QED
    BY <1>3, <2>1 DEF Sweep, TypeOK, WithoutKeys, Handling
<1>4. CASE Idle
  BY <1>4 DEF Idle, TypeOK, Handling
<1>5. CASE Arrive
  <2>1. PICK n \in 1 .. Len(sent) : Authenticate(n) \/ RefuseKnock(n)
    BY <1>5 DEF Arrive
  <2>2. n \in Nonces
    BY DEF Nonces, TypeOK
  <2>3. Unexpired(table, stamp) \subseteq table
    BY DEF Unexpired
  <2>4. Cardinality(Unexpired(table, stamp)) <= Capacity
    BY <2>3, SubsetBound DEF TypeOK
  <2>5. CASE Authenticate(n)
    <3>1. Cardinality(Unexpired(table, stamp) \cup {n}) <= Capacity
      BY <2>2, <2>3, <2>5, TableBound DEF TypeOK, Authenticate, Acceptable
    <3> QED
      BY <2>2, <2>3, <2>5, <3>1 DEF Authenticate, TypeOK, Nonces, Handling
  <2>6. CASE RefuseKnock(n)
    BY <2>3, <2>4, <2>6 DEF RefuseKnock, TypeOK, Handling
  <2> QED
    BY <2>1, <2>5, <2>6
<1>6. CASE SaveNonces
  <2>1. mem' = [mem EXCEPT !.nonces = table] /\ disk' = mem'
    BY <1>6 DEF SaveNonces
  <2>2. Stored(mem')
    BY <2>1 DEF TypeOK, Stored, States
  <2> QED
    BY <1>6, <2>1, <2>2 DEF SaveNonces, TypeOK, Handling
<1>7. CASE Open \/ PrepareAgain \/ CommitAgain \/ RefuseRequest
  <2>1. Handled /\ (Admitted \/ NextTurn) /\ UNCHANGED <<mem, kernel>>
    BY <1>7 DEF Open, PrepareAgain, CommitAgain, RefuseRequest
  <2>2. Stored(mem') /\ kernel' \subseteq Peers
    BY <2>1 DEF TypeOK
  <2> QED
    BY <2>1, <2>2, HandledTypes
<1>8. CASE Prepare
  <2> DEFINE r == sent[job]
             p == [epoch |-> r.epoch, key |-> r.key, expires |-> stamp + PendingTTL]
  <2>1. r \in Requests
    BY <1>8, HandledJob DEF Prepare
  <2>2. r.epoch \in Nat /\ r.key \in Keys
    BY <2>1 DEF Requests
  <2>3. p \in Pending
    BY <2>2 DEF Pending, TypeOK, Clock
  <2>4. mem' = [mem EXCEPT !.pending = {p}]
    BY <1>8 DEF Prepare
  <2> HIDE DEF p
  <2>5. Stored(mem')
    BY <2>3, <2>4 DEF TypeOK, Stored, States, AtMostOne
  <2>6. kernel' \subseteq Peers
    BY <1>8, <2>2, Addresses, WithPeerTyped DEF Prepare, TypeOK
  <2> QED
    BY <1>8, <2>5, <2>6, HandledTypes DEF Prepare
<1>9. CASE Commit
  <2> DEFINE r == sent[job]
             q == [key |-> mem.key, expires |-> stamp + Overlap]
  <2>1. r \in Requests
    BY <1>9, HandledJob DEF Commit
  <2>2. r.epoch \in Nat /\ r.key \in Keys
    BY <2>1 DEF Requests
  <2>3. q \in Previous
    BY DEF Previous, TypeOK, Stored, Clock, States
  <2>4. mem' = [mem EXCEPT !.epoch = r.epoch, !.key = r.key, !.pending = {}, !.previous = {q}]
    BY <1>9 DEF Commit, Committed
  <2> HIDE DEF q
  <2>5. Stored(mem')
    BY <2>2, <2>3, <2>4 DEF TypeOK, Stored, States, AtMostOne
  <2>6. kernel' \subseteq Peers
    BY <1>9 DEF Commit, TypeOK
  <2> QED
    BY <1>9, <2>5, <2>6, HandledTypes DEF Commit
<1>10. CASE Acknowledge
  BY <1>10 DEF Acknowledge, NextTurn, TypeOK, Handling
<1>11. CASE Crash
  <2> QED
    BY <1>11, EnrolledState, EmptyBound DEF Crash, TypeOK, Clock, Handling
<1>12. CASE Teardown
  BY <1>12 DEF Teardown, TypeOK, Handling
<1> QED
  BY <1>1, <1>2, <1>3, <1>4, <1>5, <1>6, <1>7, <1>8, <1>9, <1>10, <1>11, <1>12 DEF ServerStep

LEMMA ClientTypes ==
    ASSUME TypeOK, ClientStep
    PROVE  TypeOK'
<1>1. /\ config.epoch \in Nat /\ config.key \in Keys /\ made \in Nat
      /\ \A p \in config.pending : p.epoch \in Nat /\ p.key \in Keys
  BY DEF TypeOK, Configs
<1>2. CASE StartOpen \/ Renew
  BY <1>1, <1>2, RequestTypes DEF StartOpen, Renew, Places, Waiting
<1>3. CASE SendPrepare \/ Recover \/ SendCommit
  <2>1. PICK p \in config.pending, action \in {"prepare", "commit"},
             to \in {"preparing", "recovering", "committing"} :
             Request(action, p.epoch, p.key, to) /\ UNCHANGED <<config, made>>
    BY <1>3 DEF SendPrepare, Recover, SendCommit
  <2> QED
    BY <1>1, <2>1, RequestTypes DEF Places, Waiting
<1>4. CASE StartRotation
  BY <1>4 DEF StartRotation, Alone, serverVars, TypeOK, Places, Handling
<1>5. CASE Opened \/ Renewed \/ Prepared \/ Exit
  BY <1>5 DEF Opened, Renewed, Prepared, Exit, Acknowledged, Closed, TypeOK, Places, Waiting,
              Handling
<1>6. CASE BeginRotation
  <2> DEFINE p == [epoch |-> config.epoch + 1, key |-> made + 1]
  <2>1. p \in [epoch : Nat, key : Keys]
    BY <1>1 DEF Keys
  <2>2. config' = [config EXCEPT !.pending = {p}] /\ made' = made + 1
    BY <1>6 DEF BeginRotation
  <2> HIDE DEF p
  <2>3. config' \in Configs /\ AtMostOne(config'.pending)
    BY <2>1, <2>2 DEF TypeOK, Configs, AtMostOne
  <2> QED
    BY <1>6, <2>2, <2>3 DEF BeginRotation, Alone, serverVars, TypeOK, Places, Handling
<1>7. CASE RotationAcknowledged
  <2>1. PICK p \in config.pending :
          config' = [epoch |-> p.epoch, key |-> p.key, pending |-> {}]
    BY <1>7 DEF RotationAcknowledged
  <2>2. config' \in Configs /\ AtMostOne(config'.pending)
    BY <1>1, <2>1 DEF Configs, AtMostOne
  <2> QED
    BY <1>7, <2>2 DEF RotationAcknowledged, Acknowledged, Closed, TypeOK, Places, Handling
<1>8. CASE TunnelUp \/ NewTunnelUp
  <2>1. PICK key \in Keys, epoch \in Nat : Handshake(key, epoch)
    BY <1>1, <1>8 DEF TunnelUp, NewTunnelUp
  <2>2. shaken' \subseteq Keys \X Clock
    BY <2>1 DEF Handshake, TypeOK
  <2>3. at' \in Places
    BY <1>8 DEF TunnelUp, NewTunnelUp, Places
  <2> QED
    BY <2>1, <2>2, <2>3 DEF Handshake, TypeOK, Handling
<1> QED
  BY <1>2, <1>3, <1>4, <1>5, <1>6, <1>7, <1>8 DEF ClientStep

LEMMA NextTypes == TypeOK /\ [Next]_vars => TypeOK'
<1> SUFFICES ASSUME TypeOK, [Next]_vars PROVE TypeOK'
  OBVIOUS
<1>1. CASE ServerStep /\ UNCHANGED <<clock, sent, clientVars>>
  BY <1>1, ServerTypes
<1>2. CASE ClientStep
  BY <1>2, ClientTypes
<1>3. CASE Tick
  BY <1>3 DEF Tick, TypeOK, serverVars, clientVars, Clock, Handling
<1>4. CASE UNCHANGED vars
  BY <1>4 DEF vars, TypeOK, serverVars, clientVars, Handling
<1> QED
  BY <1>1, <1>2, <1>3, <1>4 DEF Next

(* Types: the Options hold at most one value, and neither the replay table  *)
(* nor the store read at start-up ever exceeds its limit, so the hub never  *)
(* refuses its own state (knock.rs:180, 221).                               *)
THEOREM RotationTypes == Spec => []TypeOK
<1> QED
  BY InitTypes, NextTypes, PTL DEF Spec

-----------------------------------------------------------------------------
(* What a client does to the hub: a request at most.                        *)

LEMMA ClientEffect ==
    ASSUME TypeOK, ClientStep
    PROVE  /\ UNCHANGED <<clock, pc, mem, disk, table, stamp, job, kernel, acted>>
           /\ Len(sent) <= Len(sent')
           /\ \A n \in 1 .. Len(sent) : sent'[n] = sent[n]
<1>1. CASE StartOpen \/ Renew \/ SendPrepare \/ Recover \/ SendCommit
  <2>1. PICK action, epoch, key, to : Request(action, epoch, key, to)
    BY <1>1 DEF StartOpen, Renew, SendPrepare, Recover, SendCommit
  <2>2. PICK r : sent' = Append(sent, r)
    BY <2>1 DEF Request
  <2> QED
    BY <2>1, <2>2 DEF Request, TypeOK
<1>2. CASE \/ StartRotation \/ Opened \/ Renewed \/ BeginRotation \/ Prepared
           \/ RotationAcknowledged \/ TunnelUp \/ NewTunnelUp \/ Exit
  <2>1. UNCHANGED <<clock, sent, pc, mem, disk, table, stamp, job, kernel, acted>>
    BY <1>2 DEF StartRotation, Opened, Renewed, BeginRotation, Prepared,
                RotationAcknowledged, TunnelUp, NewTunnelUp, Exit, Acknowledged, Closed,
                Alone, Handshake, serverVars
  <2> QED
    BY <2>1 DEF TypeOK
<1> QED
  BY <1>1, <1>2 DEF ClientStep

-----------------------------------------------------------------------------
(* Replay protection.                                                       *)

LEMMA InitReplay == Init => ReplayInv
BY DEF Init, ServerInit, ReplayInv, Remembered, Serving, Enrolled

(* Later is no less expired, and what was sent keeps its date.              *)
LEMMA StillExpired ==
    ASSUME TypeOK, NEW n \in 1 .. Len(sent), sent'[n] = sent[n],
           NEW now \in Int, NEW later \in Int, now <= later,
           Expiry(n) <= now
    PROVE  Expiry(n)' <= later
<1>1. sent[n] \in Requests
  BY DEF TypeOK
<1>2. sent[n].issued \in Int /\ sent'[n].issued = sent[n].issued
  BY <1>1 DEF Requests
<1> QED
  BY <1>2 DEF Expiry

(* Steps that leave the hub's knowledge of nonces alone.                    *)
LEMMA QuietReplay ==
    ASSUME TypeOK, ReplayInv,
           clock' \in Int, clock <= clock',
           Len(sent') \in Nat, Len(sent) <= Len(sent'),
           \A n \in 1 .. Len(sent) : sent'[n] = sent[n],
           UNCHANGED <<pc, mem, disk, table, stamp, job, acted>>
    PROVE  ReplayInv'
<1>1. clock \in Int /\ stamp \in Int /\ Len(sent) \in Nat
  BY DEF TypeOK, Clock
<1>2. stamp' <= clock'
  BY <1>1 DEF ReplayInv
<1>3. (acted \cup table \cup mem.nonces \cup disk.nonces \subseteq 1 .. Len(sent))'
  BY <1>1 DEF ReplayInv
<1>4. ASSUME NEW nonces, Remembered(nonces, clock)
      PROVE  \A n \in acted : n \in nonces \/ Expiry(n)' <= clock'
  <2> TAKE n \in acted
  <2>1. n \in 1 .. Len(sent) /\ (n \in nonces \/ Expiry(n) <= clock)
    BY <1>4 DEF ReplayInv, Remembered
  <2> QED
    BY <1>1, <2>1, StillExpired
<1>5. ASSUME Remembered(table, stamp)
      PROVE  \A n \in acted : n \in table \/ Expiry(n)' <= stamp
  <2> TAKE n \in acted
  <2>1. n \in 1 .. Len(sent) /\ (n \in table \/ Expiry(n) <= stamp)
    BY <1>5 DEF ReplayInv, Remembered
  <2>2. stamp <= stamp
    BY <1>1
  <2> QED
    BY <1>1, <2>1, <2>2, StillExpired
<1>6. /\ Remembered(disk.nonces, clock)'
      /\ (Serving => Remembered(mem.nonces, clock) /\ Remembered(table, clock))'
      /\ (pc \in {"swept", "receiving"} => Remembered(table, stamp))'
  <2>1. Remembered(disk.nonces, clock)'
    <3>1. Remembered(disk.nonces, clock)
      BY DEF ReplayInv
    <3> QED
      BY <3>1, <1>4 DEF Remembered
  <2>2. ASSUME Serving PROVE Remembered(mem.nonces, clock)' /\ Remembered(table, clock)'
    <3>1. Remembered(mem.nonces, clock) /\ Remembered(table, clock)
      BY <2>2 DEF ReplayInv
    <3> QED
      BY <3>1, <1>4 DEF Remembered
  <2>3. ASSUME pc \in {"swept", "receiving"} PROVE Remembered(table, stamp)'
    <3>1. Remembered(table, stamp)
      BY <2>3 DEF ReplayInv
    <3> QED
      BY <3>1, <1>5 DEF Remembered
  <2> QED
    BY <2>1, <2>2, <2>3 DEF Serving
<1>7. (pc \in {"authenticated", "durable"} => job \in table /\ job \notin acted)'
  BY DEF ReplayInv
<1>8. (pc = "durable" => mem.nonces = table /\ disk.nonces = table)'
  BY DEF ReplayInv
<1> QED
  BY <1>2, <1>3, <1>6, <1>7, <1>8 DEF ReplayInv

(* A date that has passed in the table is not accepted any more.            *)
LEMMA LateIsRefused ==
    ASSUME TypeOK, NEW n \in 1 .. Len(sent), NEW now \in Int, Expiry(n) <= now
    PROVE  ~ Timely(n, now)
<1>1. sent[n] \in Requests
  BY DEF TypeOK
<1>2. sent[n].issued \in Int
  BY <1>1 DEF Requests
<1> QED
  BY <1>2 DEF Expiry, Timely, AbsDiff

LEMMA ServerReplay ==
    ASSUME TypeOK, ReplayInv, ServerStep, UNCHANGED <<clock, sent, clientVars>>
    PROVE  ReplayInv'
<1>0. /\ clock \in Int /\ stamp \in Int /\ Len(sent) \in Nat
      /\ clock' = clock /\ sent' = sent
      /\ \A n \in acted : Expiry(n) \in Int
  <2>1. \A n \in acted : sent[n] \in Requests
    BY DEF TypeOK, ReplayInv
  <2>2. \A n \in acted : sent[n].issued \in Int
    BY <2>1 DEF Requests
  <2> QED
    BY <2>2 DEF TypeOK, Clock, Expiry
<1>a. \A n : Expiry(n)' = Expiry(n)
  BY <1>0 DEF Expiry
<1>1. CASE Load
  <2>1. Cleaned(disk, clock).nonces = disk.nonces
    BY CleanedState DEF TypeOK
  <2>2. /\ mem'.nonces = disk.nonces /\ table' = Unexpired(disk.nonces, clock)
        /\ pc' = "loaded" /\ UNCHANGED <<disk, stamp, acted>>
    BY <1>1, <2>1 DEF Load
  <2>3. \A n \in acted : n \in table' \/ Expiry(n) <= clock
    BY <1>0, <2>2 DEF ReplayInv, Remembered, Unexpired
  <2> QED
    BY <1>0, <1>a, <2>2, <2>3 DEF ReplayInv, Remembered, Unexpired, Serving
<1>2. CASE SaveLoaded \/ SaveSwept \/ SaveAccepted
  BY <1>0, <1>a, <1>2 DEF SaveLoaded, SaveSwept, SaveAccepted, Save, ReplayInv, Remembered, Serving
<1>3. CASE Sweep
  <2>1. Cleaned(mem, clock).nonces = mem.nonces
    BY CleanedState DEF TypeOK
  <2>2. /\ mem'.nonces = mem.nonces /\ stamp' = clock
        /\ pc = "loop" /\ pc' \in {"swept", "receiving"} /\ UNCHANGED <<disk, table, acted>>
    BY <1>3, <2>1 DEF Sweep
  <2> QED
    BY <1>0, <1>a, <2>2 DEF ReplayInv, Remembered, Serving
<1>4. CASE Idle
  BY <1>0, <1>a, <1>4 DEF Idle, ReplayInv, Remembered, Serving
<1>5. CASE Arrive
  <2>1. PICK n \in 1 .. Len(sent) : Authenticate(n) \/ RefuseKnock(n)
    BY <1>5 DEF Arrive
  <2>2. \A m \in acted : m \in Unexpired(table, stamp) \/ Expiry(m) <= stamp
    BY <1>0, <2>1 DEF ReplayInv, Remembered, Unexpired, Authenticate, RefuseKnock
  <2>3. \A m \in acted : m \in Unexpired(table, stamp) \/ Expiry(m) <= clock
    BY <1>0, <2>2 DEF ReplayInv
  <2>4. CASE Authenticate(n)
    <3>1. n \notin acted
      BY <1>0, <2>2, <2>4, LateIsRefused DEF Authenticate, Acceptable
    <3>2. table' = Unexpired(table, stamp) \cup {n} /\ table' \subseteq 1 .. Len(sent)
      BY <2>4 DEF Authenticate, Unexpired, ReplayInv
    <3> QED
      BY <1>0, <1>a, <2>3, <2>4, <3>1, <3>2 DEF Authenticate, ReplayInv, Remembered, Serving
  <2>5. CASE RefuseKnock(n)
    <3>1. table' = Unexpired(table, stamp) /\ table' \subseteq 1 .. Len(sent)
      BY <2>5 DEF RefuseKnock, Unexpired, ReplayInv
    <3> QED
      BY <1>0, <1>a, <2>3, <2>5, <3>1 DEF RefuseKnock, ReplayInv, Remembered, Serving
  <2> QED
    BY <2>1, <2>4, <2>5
<1>6. CASE SaveNonces
  <2>1. mem'.nonces = table /\ disk'.nonces = table
    BY <1>6 DEF SaveNonces, TypeOK, Stored, States
  <2> QED
    BY <1>0, <1>a, <1>6, <2>1 DEF SaveNonces, ReplayInv, Remembered, Serving
<1>7. CASE Open \/ Prepare \/ PrepareAgain \/ Commit \/ CommitAgain \/ RefuseRequest
  <2>1. mem'.nonces = mem.nonces
    BY <1>7 DEF Open, Prepare, PrepareAgain, Commit, CommitAgain, RefuseRequest, Committed,
                TypeOK, Stored, States
  <2>2. Handled /\ pc' \in {"accepted", "loop"}
    BY <1>7 DEF Open, Prepare, PrepareAgain, Commit, CommitAgain, RefuseRequest, Admitted, NextTurn
  <2>3. acted' = acted \cup {job} /\ job \in table /\ job \in 1 .. Len(sent)
    BY <2>2, HandledJob DEF Handled, ReplayInv
  <2> QED
    BY <1>0, <1>a, <2>1, <2>2, <2>3 DEF Handled, ReplayInv, Remembered, Serving
<1>8. CASE Acknowledge
  BY <1>0, <1>a, <1>8 DEF Acknowledge, NextTurn, ReplayInv, Remembered, Serving
<1>9. CASE Crash
  <2>1. clock >= 0
    BY DEF TypeOK, Clock
  <2> QED
    BY <1>0, <1>a, <1>9, <2>1 DEF Crash, Enrolled, ReplayInv, Remembered, Serving
<1>10. CASE Teardown
  BY <1>0, <1>a, <1>10 DEF Teardown, ReplayInv, Remembered, Serving
<1> QED
  BY <1>1, <1>2, <1>3, <1>4, <1>5, <1>6, <1>7, <1>8, <1>9, <1>10 DEF ServerStep

LEMMA NextReplay == TypeOK /\ ReplayInv /\ [Next]_vars => ReplayInv'
<1> SUFFICES ASSUME TypeOK, ReplayInv, [Next]_vars PROVE ReplayInv'
  OBVIOUS
<1>1. CASE ServerStep /\ UNCHANGED <<clock, sent, clientVars>>
  BY <1>1, ServerReplay
<1>2. CASE ClientStep
  <2>1. TypeOK'
    BY <1>2, ClientTypes
  <2>2. clock \in Int /\ Len(sent') \in Nat
    BY <2>1 DEF TypeOK, Clock
  <2> QED
    BY <1>2, <2>2, ClientEffect, QuietReplay
<1>3. CASE Tick \/ UNCHANGED vars
  <2>1. /\ clock' \in Int /\ clock <= clock' /\ sent' = sent /\ Len(sent) \in Nat
        /\ UNCHANGED <<pc, mem, disk, table, stamp, job, acted>>
    BY <1>3 DEF Tick, vars, serverVars, TypeOK, Clock
  <2> QED
    BY <2>1, QuietReplay
<1> QED
  BY <1>1, <1>2, <1>3 DEF Next

(* No datagram is acted on twice, however often it is repeated and the hub  *)
(* restarted, whatever the capacity of the table and the accepted skew.     *)
THEOREM KnocksAreUsedOnce == Spec => []NoReplay
<1>1. ReplayInv => NoReplay
  BY DEF ReplayInv, NoReplay
<1> QED
  BY <1>1, InitTypes, NextTypes, InitReplay, NextReplay, PTL DEF Spec

(* ... and the table of nonces stays within its capacity.                   *)
THEOREM ReplayIsSafe == Spec => []ReplaySafety
<1> QED
  BY RotationTypes, KnocksAreUsedOnce, PTL DEF ReplaySafety

-----------------------------------------------------------------------------
(* The peers of a state.                                                    *)

(* What a stored state is made of.                                          *)
LEMMA StoredFields ==
    ASSUME NEW s, Stored(s)
    PROVE  /\ s.epoch \in Nat /\ s.key \in Nat
           /\ \A p \in s.pending : p.epoch \in Nat /\ p.key \in Nat /\ p.expires \in Nat
           /\ \A p \in s.previous : p.key \in Nat /\ p.expires \in Nat
<1>1. s \in States
  BY DEF Stored
<1>2. /\ s.epoch \in Nat /\ s.key \in Keys
      /\ s.pending \subseteq Pending /\ s.previous \subseteq Previous
  BY <1>1 DEF States
<1> QED
  BY <1>2 DEF Pending, Previous, Keys

Peer(key, epoch) == [key |-> key, address |-> Address(epoch)]

(* A well-formed state names the active key at one address, and at the      *)
(* other the next key, or the last, or none.                                *)
LEMMA PeersExplicit ==
    ASSUME NEW s, Stored(s), WellFormed(s)
    PROVE  PeersOf(s) = {Peer(s.epoch, s.epoch)}
              \cup (IF s.pending = {} THEN {} ELSE {Peer(s.epoch + 1, s.epoch + 1)})
              \cup (IF s.previous = {} THEN {} ELSE {Peer(s.epoch - 1, s.epoch + 1)})
<1>1. s.key = s.epoch /\ s.epoch \in Nat
  BY StoredFields DEF WellFormed
<1>2. {Peer(p.key, p.epoch) : p \in s.pending}
        = IF s.pending = {} THEN {} ELSE {Peer(s.epoch + 1, s.epoch + 1)}
  <2>1. \A p \in s.pending : p.key = s.epoch + 1 /\ p.epoch = s.epoch + 1
    BY StoredFields DEF WellFormed
  <2>2. \A p \in s.pending : Peer(p.key, p.epoch) = Peer(s.epoch + 1, s.epoch + 1)
    BY <2>1
  <2> QED
    BY <2>2
<1>3. {Peer(p.key, s.epoch + 1) : p \in s.previous}
        = IF s.previous = {} THEN {} ELSE {Peer(s.epoch - 1, s.epoch + 1)}
  <2>1. \A p \in s.previous : p.key = s.epoch - 1
    BY StoredFields DEF WellFormed
  <2> QED
    BY <2>1
<1> QED
  BY <1>1, <1>2, <1>3 DEF PeersOf, Peer

LEMMA PeersApart ==
    ASSUME NEW s, Stored(s), WellFormed(s)
    PROVE  \A p, q \in PeersOf(s) : p.address = q.address => p = q
<1>1. s.epoch \in Nat /\ (s.pending = {} \/ s.previous = {})
  BY StoredFields DEF WellFormed
<1>2. Address(s.epoch + 1) # Address(s.epoch)
  BY <1>1, Addresses
<1>3. \A p \in PeersOf(s) : \/ p = Peer(s.epoch, s.epoch)
                            \/ p = Peer(s.epoch + 1, s.epoch + 1) /\ s.pending # {}
                            \/ p = Peer(s.epoch - 1, s.epoch + 1) /\ s.previous # {}
  BY PeersExplicit
<1>4. \A key, epoch : Peer(key, epoch).address = Address(epoch)
  BY DEF Peer
<1> QED
  BY <1>1, <1>2, <1>3, <1>4

(* Cleaning up a state keeps it well formed and takes from the interface    *)
(* what it takes from the state.                                            *)
LEMMA CleanedWellFormed ==
    ASSUME NEW s, Stored(s), WellFormed(s), NEW now \in Int
    PROVE  /\ WellFormed(Cleaned(s, now))
           /\ PeersOf(Cleaned(s, now)) = WithoutKeys(PeersOf(s), ExpiredKeys(s, now))
<1> DEFINE c == Cleaned(s, now)
<1>1. /\ Stored(c) /\ c.epoch = s.epoch /\ c.key = s.key
      /\ c.pending = {p \in s.pending : now < p.expires}
      /\ c.previous = {p \in s.previous : now < p.expires}
  BY CleanedState
<1> HIDE DEF c
<1>2. WellFormed(c)
  BY <1>1 DEF WellFormed
<1>3. s.epoch \in Nat /\ s.key = s.epoch
  BY StoredFields DEF WellFormed
<1>4. \A p \in s.pending : p.key = s.epoch + 1 /\ (now < p.expires \/ now >= p.expires)
  BY StoredFields DEF WellFormed
<1>5. \A p \in s.previous : p.key = s.epoch - 1 /\ (now < p.expires \/ now >= p.expires)
  BY StoredFields DEF WellFormed
<1>6. AtMostOne(s.pending) /\ AtMostOne(s.previous)
  BY DEF Stored
<1>7. \A k : k \in ExpiredKeys(s, now) <=>
           \/ k = s.epoch + 1 /\ \E p \in s.pending : now >= p.expires
           \/ k = s.epoch - 1 /\ \E p \in s.previous : now >= p.expires
  BY <1>4, <1>5 DEF ExpiredKeys
<1>8. \A p \in s.pending : now < p.expires <=> ~ (now >= p.expires)
  BY StoredFields
<1>9. \A p \in s.previous : now < p.expires <=> ~ (now >= p.expires)
  BY StoredFields
<1>10. /\ c.pending = {} <=> s.pending = {} \/ \E p \in s.pending : now >= p.expires
       /\ c.previous = {} <=> s.previous = {} \/ \E p \in s.previous : now >= p.expires
  BY <1>1, <1>6, <1>8, <1>9 DEF AtMostOne
<1>11. \A key, epoch : Peer(key, epoch).key = key
  BY DEF Peer
<1>12. /\ s.epoch \notin ExpiredKeys(s, now)
       /\ s.epoch + 1 \in ExpiredKeys(s, now) <=> \E p \in s.pending : now >= p.expires
       /\ s.epoch - 1 \in ExpiredKeys(s, now) <=> \E p \in s.previous : now >= p.expires
  BY <1>3, <1>7
<1>13. PeersOf(c) = {Peer(s.epoch, s.epoch)}
          \cup (IF c.pending = {} THEN {} ELSE {Peer(s.epoch + 1, s.epoch + 1)})
          \cup (IF c.previous = {} THEN {} ELSE {Peer(s.epoch - 1, s.epoch + 1)})
  BY <1>1, <1>2, PeersExplicit
<1>14. PeersOf(s) = {Peer(s.epoch, s.epoch)}
          \cup (IF s.pending = {} THEN {} ELSE {Peer(s.epoch + 1, s.epoch + 1)})
          \cup (IF s.previous = {} THEN {} ELSE {Peer(s.epoch - 1, s.epoch + 1)})
  BY PeersExplicit
<1>15. PeersOf(c) = WithoutKeys(PeersOf(s), ExpiredKeys(s, now))
  BY <1>10, <1>11, <1>12, <1>13, <1>14 DEF WithoutKeys
<1> QED
  BY <1>2, <1>15 DEF c

-----------------------------------------------------------------------------
(* The rotation.  First what each step of the client does to its file.      *)

LEMMA InitInv == Init => RotationInv
<1> SUFFICES ASSUME Init PROVE RotationInv
  OBVIOUS
<1>1. ClientFile /\ RequestsKnown /\ AcksDurable /\ PeersAreState
  BY DEF Init, ServerInit, ClientFile, Bare, RequestsKnown, AcksDurable, PeersAreState, Serving
<1>2. WellFormed(Enrolled)
  BY DEF Init, WellFormed, Known, Enrolled
<1>3. HubStates
  BY <1>2 DEF Init, ServerInit, HubStates, Serving, Enrolled
<1> QED
  BY <1>1, <1>3 DEF RotationInv

Quiet == \/ StartOpen \/ StartRotation \/ Opened \/ TunnelUp \/ Renew \/ Renewed
         \/ SendPrepare \/ Recover \/ Prepared \/ NewTunnelUp \/ SendCommit \/ Exit

LEMMA QuietFile ==
    ASSUME TypeOK, ClientFile, Quiet
    PROVE  config' = config /\ ClientFile'
<1>1. config' = config /\ made' = made
  BY DEF Quiet, StartOpen, StartRotation, Opened, TunnelUp, Renew, Renewed, SendPrepare, Recover,
         Prepared, NewTunnelUp, SendCommit, Exit, Handshake
<1>2. /\ at' \in Bare => config.pending = {}
      /\ at' \notin Bare \cup {"down"} => config.pending # {}
  BY DEF Quiet, StartOpen, StartRotation, Opened, TunnelUp, Renew, Renewed, SendPrepare, Recover,
         Prepared, NewTunnelUp, SendCommit, Exit, Request, Acknowledged, ClientFile, Bare
<1> QED
  BY <1>1, <1>2 DEF ClientFile

LEMMA BeginFile ==
    ASSUME TypeOK, ClientFile, BeginRotation
    PROVE  config'.epoch = config.epoch /\ config'.pending # {} /\ config.pending = {} /\ ClientFile'
<1> DEFINE p == [epoch |-> config.epoch + 1, key |-> made + 1]
<1>1. config.pending = {} /\ made = config.epoch /\ config.epoch \in Nat /\ config \in Configs
  BY DEF BeginRotation, ClientFile, Bare, TypeOK, Configs
<1>2. config' = [config EXCEPT !.pending = {p}] /\ made' = made + 1 /\ at' = "rotating"
  BY DEF BeginRotation
<1>3. p.epoch = config.epoch + 1 /\ p.key = p.epoch
  BY <1>1
<1> HIDE DEF p
<1>4. config'.epoch = config.epoch /\ config'.key = config.key /\ config'.pending = {p}
  BY <1>1, <1>2 DEF Configs
<1> QED
  BY <1>1, <1>2, <1>3, <1>4 DEF ClientFile, Bare

LEMMA FollowFile ==
    ASSUME TypeOK, ClientFile, RotationAcknowledged
    PROVE  config'.epoch = config.epoch + 1 /\ ClientFile'
<1>1. PICK p \in config.pending :
        config' = [epoch |-> p.epoch, key |-> p.key, pending |-> {}]
  BY DEF RotationAcknowledged
<1>2. /\ config.epoch \in Nat
      /\ config'.epoch = p.epoch /\ config'.key = p.key /\ config'.pending = {}
  BY <1>1 DEF TypeOK, Configs
<1>3. p.epoch = config.epoch + 1 /\ p.key = p.epoch
  BY DEF ClientFile
<1> QED
  BY <1>2, <1>3 DEF RotationAcknowledged, ClientFile, Bare

(* What the client knows, it goes on knowing.                               *)
LEMMA ConfigEffect ==
    ASSUME TypeOK, ClientFile, ClientStep
    PROVE  /\ ClientFile'
           /\ config.epoch \in Nat /\ config'.epoch \in Nat
           /\ config.epoch <= config'.epoch
           /\ config'.epoch = config.epoch \/ RotationAcknowledged
           /\ \A e \in Nat : Known(e) => Known(e)'
<1>0. TypeOK' /\ config.epoch \in Nat
  BY ClientTypes DEF TypeOK, Configs
<1>1. CASE Quiet
  BY <1>0, <1>1, QuietFile DEF Known
<1>2. CASE BeginRotation
  BY <1>0, <1>2, BeginFile DEF Known
<1>3. CASE RotationAcknowledged
  BY <1>0, <1>3, FollowFile DEF Known
<1> QED
  BY <1>1, <1>2, <1>3 DEF ClientStep, Quiet

(* What the client asks for, it knows.                                      *)
LEMMA RequestEffect ==
    ASSUME TypeOK, ClientFile, ClientStep
    PROVE  \/ sent' = sent
           \/ \E r \in Requests : /\ sent' = Append(sent, r)
                                  /\ ack' = {}
                                  /\ r.key = r.epoch /\ Known(r.epoch)
                                  /\ r.issued <= clock + Drift
<1>1. CASE StartOpen \/ Renew
  <2>1. PICK to : Request("open", config.epoch, config.key, to) /\ to \in Places
    BY <1>1 DEF StartOpen, Renew, Places, Waiting
  <2>2. PICK d \in -Drift .. Drift :
          sent' = Append(sent, [action |-> "open", epoch |-> config.epoch, key |-> config.key,
                                issued |-> clock + d])
    BY <2>1 DEF Request
  <2> DEFINE r == [action |-> "open", epoch |-> config.epoch, key |-> config.key,
                   issued |-> clock + d]
  <2>3. /\ r \in Requests /\ r.epoch = config.epoch /\ r.key = config.key
        /\ r.issued <= clock + Drift
    BY DriftAssumption DEF Requests, TypeOK, Configs, Clock
  <2>4. sent' = Append(sent, r) /\ ack' = {}
    BY <2>1, <2>2 DEF Request
  <2> HIDE DEF r
  <2>5. r.key = r.epoch /\ Known(r.epoch)
    BY <2>3 DEF ClientFile, Known, TypeOK, Configs
  <2> QED
    BY <2>3, <2>4, <2>5
<1>2. CASE SendPrepare \/ Recover \/ SendCommit
  <2>1. PICK p \in config.pending, action \in {"prepare", "commit"}, to \in Waiting :
             Request(action, p.epoch, p.key, to)
    BY <1>2 DEF SendPrepare, Recover, SendCommit, Waiting
  <2>2. PICK d \in -Drift .. Drift :
          sent' = Append(sent, [action |-> action, epoch |-> p.epoch, key |-> p.key,
                                issued |-> clock + d])
    BY <2>1 DEF Request
  <2>3. p.epoch \in Nat /\ p.key \in Keys
    BY DEF TypeOK, Configs
  <2>4. clock + d \in Int /\ clock + d <= clock + Drift
    BY DriftAssumption DEF TypeOK, Clock
  <2> DEFINE r == [action |-> action, epoch |-> p.epoch, key |-> p.key, issued |-> clock + d]
  <2>5. /\ r \in Requests /\ r.epoch = p.epoch /\ r.key = p.key
        /\ r.issued <= clock + Drift
    BY <2>3, <2>4 DEF Requests
  <2>6. sent' = Append(sent, r) /\ ack' = {}
    BY <2>1, <2>2 DEF Request
  <2> HIDE DEF r
  <2>7. r.key = r.epoch /\ Known(r.epoch)
    BY <2>5 DEF ClientFile, Known
  <2> QED
    BY <2>5, <2>6, <2>7
<1>3. CASE \/ StartRotation \/ Opened \/ Renewed \/ BeginRotation \/ Prepared
           \/ RotationAcknowledged \/ TunnelUp \/ NewTunnelUp \/ Exit
  BY <1>3 DEF StartRotation, Opened, Renewed, BeginRotation, Prepared,
              RotationAcknowledged, TunnelUp, NewTunnelUp, Exit, Acknowledged, Closed,
              Alone, Handshake, serverVars
<1> QED
  BY <1>1, <1>2, <1>3 DEF ClientStep

(* A step of the client keeps the invariant.                                *)
LEMMA ClientInv ==
    ASSUME TypeOK, RotationInv, ClientStep
    PROVE  RotationInv'
<1>0. ClientFile /\ RequestsKnown /\ HubStates /\ AcksDurable /\ PeersAreState
  BY DEF RotationInv
<1>1. /\ UNCHANGED <<clock, pc, mem, disk, table, stamp, job, kernel, acted>>
      /\ \A n \in 1 .. Len(sent) : sent'[n] = sent[n]
      /\ Len(sent) \in Nat /\ job \in 0 .. Len(sent) /\ (pc \in Handling => job # 0)
  BY ClientEffect DEF TypeOK
<1>2. /\ ClientFile'
      /\ config.epoch \in Nat /\ config'.epoch \in Nat
      /\ config'.epoch = config.epoch \/ RotationAcknowledged
      /\ \A e \in Nat : Known(e) => Known(e)'
  BY <1>0, ConfigEffect
<1>3. /\ disk.epoch \in Nat /\ mem.epoch \in Nat
      /\ disk.epoch = disk'.epoch /\ mem.epoch = mem'.epoch
  BY <1>1, StoredFields DEF TypeOK
<1>4. PeersAreState'
  BY <1>0, <1>1 DEF PeersAreState, Serving
<1>5. RequestsKnown'
  <2>1. \A n \in 1 .. Len(sent) :
           sent[n].epoch \in Nat /\ sent[n].key = sent[n].epoch /\ Known(sent[n].epoch)
    <3>1. \A n \in 1 .. Len(sent) : sent[n] \in Requests
      BY DEF TypeOK
    <3> QED
      BY <1>0, <3>1 DEF RequestsKnown, Requests
  <2> DEFINE Kept(e) == e <= config'.epoch \/ (e = config'.epoch + 1 /\ config'.pending # {})
  <2>a. RequestsKnown' = \A n \in 1 .. Len(sent') :
                            sent'[n].key = sent'[n].epoch /\ Kept(sent'[n].epoch)
    BY DEF RequestsKnown, Known
  <2>b. \A e \in Nat : Known(e) => Kept(e)
    BY <1>2 DEF Known
  <2> HIDE DEF Kept
  <2>2. \A n \in 1 .. Len(sent) : sent'[n].key = sent'[n].epoch /\ Kept(sent'[n].epoch)
    BY <1>1, <2>1, <2>b
  <2>3. CASE sent' = sent
    BY <2>2, <2>3, <2>a
  <2>4. CASE \E r \in Requests : sent' = Append(sent, r) /\ r.key = r.epoch /\ Known(r.epoch)
    <3>1. PICK r \in Requests : sent' = Append(sent, r) /\ r.key = r.epoch /\ Known(r.epoch)
      BY <2>4
    <3>2. Len(sent') = Len(sent) + 1 /\ sent'[Len(sent')] = r
      BY <3>1 DEF TypeOK
    <3>3. r.epoch \in Nat
      BY DEF Requests
    <3>4. \A n \in 1 .. Len(sent') : n \in 1 .. Len(sent) \/ n = Len(sent')
      BY <1>1, <3>2
    <3> QED
      BY <2>2, <2>a, <2>b, <3>1, <3>2, <3>3, <3>4
  <2> QED
    BY <1>0, <2>3, <2>4, RequestEffect
<1>6. config'.epoch <= disk.epoch
  <2>1. config.epoch <= disk.epoch
    BY <1>0 DEF HubStates
  <2>2. ASSUME RotationAcknowledged PROVE config'.epoch <= disk.epoch
    <3>1. at = "committing" /\ ack # {}
      BY <2>2 DEF RotationAcknowledged, Acknowledged
    <3>2. PICK p \in config.pending : config' = [epoch |-> p.epoch, key |-> p.key, pending |-> {}]
      BY <2>2 DEF RotationAcknowledged
    <3>3. /\ sent[Len(sent)].action = "commit" /\ sent[Len(sent)].epoch = p.epoch
          /\ CommitIn(disk, Len(sent))
      BY <1>0, <3>1 DEF AcksDurable
    <3> QED
      BY <3>2, <3>3 DEF CommitIn
  <2> QED
    BY <1>2, <2>1, <2>2
<1>7. HubStates'
  <2> DEFINE Kept(e) == e <= config'.epoch \/ (e = config'.epoch + 1 /\ config'.pending # {})
             Sound(s) == /\ s.key = s.epoch
                         /\ Kept(s.epoch)
                         /\ \A p \in s.pending :
                              p.epoch = s.epoch + 1 /\ p.key = p.epoch /\ Kept(p.epoch)
                         /\ \A p \in s.previous : p.key + 1 = s.epoch
                         /\ s.pending = {} \/ s.previous = {}
  <2>a. \A e \in Nat : Known(e) => Kept(e)
    BY <1>2 DEF Known
  <2>b. WellFormed(disk)' = Sound(disk') /\ WellFormed(mem)' = Sound(mem')
    BY DEF WellFormed, Known
  <2> HIDE DEF Kept
  <2>1. ASSUME NEW s, Stored(s), WellFormed(s) PROVE Sound(s)
    BY <2>a, <2>1, StoredFields DEF WellFormed
  <2> HIDE DEF Sound
  <2>2. WellFormed(disk)'
    <3>1. Stored(disk) /\ WellFormed(disk) /\ disk' = disk
      BY <1>0, <1>1 DEF TypeOK, HubStates
    <3> QED
      BY <2>b, <2>1, <3>1
  <2>3. Serving' => WellFormed(mem)'
    <3>1. Serving' => Stored(mem) /\ WellFormed(mem) /\ mem' = mem
      BY <1>0, <1>1 DEF TypeOK, HubStates, Serving
    <3> QED
      BY <2>b, <2>1, <3>1
  <2> QED
    BY <1>0, <1>1, <1>3, <1>6, <2>2, <2>3 DEF HubStates, Serving
<1>8. AcksDurable'
  <2>1. /\ pc = "accepted" => CommitIn(mem, job)
        /\ pc = "saved" => CommitIn(disk, job)
    BY <1>0 DEF AcksDurable
  <2>2. pc \in {"accepted", "saved"} => job \in 1 .. Len(sent)
    BY <1>1 DEF Handling
  <2>3. /\ pc' = "accepted" => CommitIn(mem, job)'
        /\ pc' = "saved" => CommitIn(disk, job)'
    BY <1>1, <2>1, <2>2 DEF CommitIn
  <2>4. ack' = {} \/ (ack' = ack /\ sent' = sent)
    BY DEF ClientStep, StartOpen, StartRotation, Opened, TunnelUp, Renew, Renewed, SendPrepare,
           Recover, Prepared, NewTunnelUp, SendCommit, Exit, BeginRotation, RotationAcknowledged,
           Request, Acknowledged, Closed, Alone, Handshake, serverVars
  <2>5. ack' # {} => Len(sent') > 0 /\ CommitIn(disk, Len(sent))'
    BY <1>0, <1>1, <2>4 DEF AcksDurable, CommitIn
  <2>6. ASSUME at' = "committing"
        PROVE  /\ Len(sent') > 0
               /\ sent'[Len(sent')].action = "commit"
               /\ \A p \in config'.pending : sent'[Len(sent')].epoch = p.epoch
    <3>1. SendCommit
      BY <2>6 DEF ClientStep, StartOpen, StartRotation, Opened, TunnelUp, Renew, Renewed,
           SendPrepare, Recover, Prepared, NewTunnelUp, SendCommit, Exit, BeginRotation,
           RotationAcknowledged, Request
    <3>2. PICK p \in config.pending : Request("commit", p.epoch, p.key, "committing")
      BY <3>1 DEF SendCommit
    <3>3. PICK d \in -Drift .. Drift :
            sent' = Append(sent, [action |-> "commit", epoch |-> p.epoch, key |-> p.key,
                                  issued |-> clock + d])
      BY <3>2 DEF Request
    <3> DEFINE r == [action |-> "commit", epoch |-> p.epoch, key |-> p.key, issued |-> clock + d]
    <3>3a. p.epoch \in Nat /\ p.key \in Keys /\ clock + d \in Int
      BY DEF TypeOK, Configs, Clock
    <3>4. r.action = "commit" /\ r.epoch = p.epoch /\ r \in Requests
      BY <3>3a DEF Requests
    <3>5. sent' = Append(sent, r)
      BY <3>3
    <3> HIDE DEF r
    <3>6. Len(sent') = Len(sent) + 1 /\ sent'[Len(sent')] = r
      BY <3>4, <3>5 DEF TypeOK
    <3>7. config' = config /\ \A q \in config.pending : q = p
      BY <3>1 DEF SendCommit, TypeOK, AtMostOne
    <3> QED
      BY <1>1, <3>4, <3>6, <3>7
  <2> QED
    BY <2>3, <2>5, <2>6 DEF AcksDurable
<1> QED
  BY <1>2, <1>4, <1>5, <1>7, <1>8 DEF RotationInv

-----------------------------------------------------------------------------
(* The steps of the hub.                                                    *)

(* A commit that one state has, every later one has.                        *)
LEMMA CommitStays ==
    ASSUME TypeOK, NEW n \in 1 .. Len(sent), NEW s, Stored(s), NEW t, Stored(t),
           s.epoch <= t.epoch, CommitIn(s, n)
    PROVE  CommitIn(t, n)
<1>1. s.epoch \in Nat /\ t.epoch \in Nat
  BY StoredFields
<1>2. sent[n] \in Requests
  BY DEF TypeOK
<1> QED
  BY <1>1, <1>2 DEF CommitIn, Requests

(* What a step of the hub has to establish.                                 *)
LEMMA HubKeeps ==
    ASSUME TypeOK, RotationInv, UNCHANGED <<clock, sent, clientVars>>,
           WellFormed(disk'), config.epoch <= disk'.epoch,
           Serving' => /\ Stored(mem') /\ WellFormed(mem')
                       /\ disk'.epoch <= mem'.epoch
                       /\ kernel' = PeersOf(mem'),
           pc' = "accepted" => CommitIn(mem', job'),
           pc' = "saved" => CommitIn(disk', job'),
           ack' # {} => Len(sent) > 0 /\ CommitIn(disk', Len(sent))
    PROVE  RotationInv'
<1>1. ClientFile /\ RequestsKnown /\ HubStates /\ AcksDurable /\ PeersAreState
  BY DEF RotationInv
<1>2. sent' = sent /\ config' = config /\ at' = at /\ made' = made
  BY DEF clientVars
<1>3. ClientFile' /\ RequestsKnown'
  BY <1>1, <1>2 DEF ClientFile, RequestsKnown, Known
<1>4. HubStates'
  BY <1>2 DEF HubStates, WellFormed, Known
<1>5. AcksDurable'
  BY <1>1, <1>2 DEF AcksDurable, CommitIn
<1>6. PeersAreState'
  BY <1>2, PeersApart DEF PeersAreState
<1> QED
  BY <1>3, <1>4, <1>5, <1>6 DEF RotationInv

(* Steps between requests.                                                  *)
LEMMA LoopInv ==
    ASSUME TypeOK, RotationInv, UNCHANGED <<clock, sent, clientVars>>,
           \/ Load \/ SaveLoaded \/ Sweep \/ SaveSwept \/ Idle \/ Arrive
           \/ SaveNonces \/ SaveAccepted \/ Acknowledge \/ Crash \/ Teardown
    PROVE  RotationInv'
<1>0. /\ HubStates /\ AcksDurable /\ PeersAreState
      /\ Stored(mem) /\ Stored(disk) /\ clock \in Int
      /\ Len(sent) \in Nat /\ job \in 0 .. Len(sent) /\ (pc \in Handling => job # 0)
  BY DEF RotationInv, TypeOK, Clock
<1>1. disk.epoch \in Nat /\ mem.epoch \in Nat
  BY <1>0, StoredFields
<1>2. /\ WellFormed(disk) /\ config.epoch <= disk.epoch
      /\ Serving => WellFormed(mem) /\ disk.epoch <= mem.epoch /\ kernel = PeersOf(mem)
      /\ pc = "accepted" => CommitIn(mem, job)
      /\ pc = "saved" => CommitIn(disk, job)
      /\ ack # {} => Len(sent) > 0 /\ CommitIn(disk, Len(sent))
  BY <1>0 DEF HubStates, AcksDurable, PeersAreState
<1>3. config.epoch \in Nat
  BY DEF TypeOK, Configs
<1>4. CASE Load
  <2>1. /\ WellFormed(Cleaned(disk, clock)) /\ Stored(Cleaned(disk, clock))
        /\ Cleaned(disk, clock).epoch = disk.epoch
    BY <1>0, <1>2, CleanedState, CleanedWellFormed
  <2> QED
    BY <1>1, <1>2, <1>4, <2>1, HubKeeps DEF Load
<1>5. ASSUME Serving, disk' = mem, UNCHANGED <<mem, kernel, ack, job>>,
             pc' \in {"loop", "receiving", "saved"},
             pc' = "saved" => CommitIn(mem, job)
      PROVE  RotationInv'
  <2>1. ack # {} => CommitIn(mem, Len(sent))
    BY <1>0, <1>1, <1>2, <1>5, CommitStays
  <2>2. config.epoch <= mem.epoch
    BY <1>1, <1>2, <1>3, <1>5
  <2> QED
    BY <1>0, <1>1, <1>2, <1>5, <2>1, <2>2, HubKeeps
<1>6. CASE SaveLoaded \/ SaveSwept \/ SaveAccepted
  BY <1>2, <1>5, <1>6 DEF SaveLoaded, SaveSwept, SaveAccepted, Save, Serving
<1>7. CASE Sweep
  <2>1. /\ WellFormed(Cleaned(mem, clock)) /\ Stored(Cleaned(mem, clock))
        /\ Cleaned(mem, clock).epoch = mem.epoch
        /\ PeersOf(Cleaned(mem, clock)) = WithoutKeys(PeersOf(mem), ExpiredKeys(mem, clock))
    BY <1>0, <1>2, <1>7, CleanedState, CleanedWellFormed DEF Sweep, Serving
  <2>2. /\ Serving /\ mem' = Cleaned(mem, clock)
        /\ kernel' = WithoutKeys(kernel, ExpiredKeys(mem, clock))
        /\ pc' \in {"receiving", "swept"} /\ UNCHANGED <<disk, ack>>
    BY <1>7 DEF Sweep, Serving
  <2> QED
    BY <1>1, <1>2, <2>1, <2>2, HubKeeps
<1>8. CASE Idle \/ Arrive
  <2>1. /\ Serving /\ UNCHANGED <<mem, disk, kernel, ack>>
        /\ pc' \in {"loop", "authenticated"}
    BY <1>8 DEF Idle, Arrive, Authenticate, RefuseKnock, Serving
  <2> QED
    BY <1>0, <1>2, <2>1, HubKeeps
<1>9. CASE SaveNonces
  <2>1. /\ Serving /\ disk' = mem' /\ mem' = [mem EXCEPT !.nonces = table]
        /\ pc' = "durable" /\ UNCHANGED <<kernel, ack>>
    BY <1>9 DEF SaveNonces, Serving
  <2>2. /\ mem'.epoch = mem.epoch /\ mem'.key = mem.key
        /\ mem'.pending = mem.pending /\ mem'.previous = mem.previous
    BY <1>0, <2>1 DEF Stored, States
  <2>3. PeersOf(mem') = PeersOf(mem)
    BY <2>2 DEF PeersOf
  <2>4. WellFormed(mem')
    BY <1>2, <2>1, <2>2 DEF WellFormed
  <2>5. Stored(mem')
    BY <1>0, <2>1 DEF Stored, States, TypeOK
  <2>6. ack # {} => CommitIn(mem', Len(sent))
    <3>1. disk.epoch <= mem'.epoch
      BY <1>2, <2>1, <2>2
    <3>2. ack # {} => Len(sent) \in 1 .. Len(sent) /\ CommitIn(disk, Len(sent))
      BY <1>0, <1>2
    <3> QED
      BY <1>0, <2>5, <3>1, <3>2, CommitStays
  <2>7. config.epoch <= mem'.epoch
    BY <1>1, <1>2, <1>3, <2>1, <2>2
  <2> QED
    BY <1>1, <1>2, <2>1, <2>2, <2>3, <2>4, <2>5, <2>6, <2>7, HubKeeps
<1>10. CASE Acknowledge
  <2>1. /\ Serving /\ UNCHANGED <<mem, disk, kernel>> /\ pc' = "loop" /\ pc = "saved"
        /\ ack' # {} => ack # {} \/ job = Len(sent)
    BY <1>10 DEF Acknowledge, NextTurn, Serving
  <2>2. job # 0
    BY <1>0, <2>1 DEF Handling
  <2> QED
    BY <1>0, <1>2, <2>1, <2>2, HubKeeps
<1>11. CASE Crash \/ Teardown
  <2>1. ~ Serving' /\ pc' \in {"dead", "off"} /\ UNCHANGED <<disk, ack>>
    BY <1>11 DEF Crash, Teardown, Serving
  <2> QED
    BY <1>2, <2>1, HubKeeps
<1> QED
  BY <1>4, <1>6, <1>7, <1>8, <1>9, <1>10, <1>11

(* Steps that deal with a request.                                          *)
LEMMA RequestInv ==
    ASSUME TypeOK, RotationInv, UNCHANGED <<clock, sent, clientVars>>,
           Open \/ Prepare \/ PrepareAgain \/ Commit \/ CommitAgain \/ RefuseRequest
    PROVE  RotationInv'
<1> DEFINE r == sent[job]
<1>0. /\ pc = "durable" /\ Serving /\ UNCHANGED <<disk, ack>>
      /\ pc' \in {"accepted", "loop"} /\ (pc' = "accepted" => job' = job)
      /\ job \in 1 .. Len(sent) /\ r \in Requests
  <2>1. Handled /\ (Admitted \/ NextTurn)
    BY DEF Open, Prepare, PrepareAgain, Commit, CommitAgain, RefuseRequest
  <2> QED
    BY <2>1, HandledJob DEF Handled, Admitted, NextTurn, Serving
<1>1. Stored(mem) /\ Stored(disk) /\ stamp \in Nat
  BY DEF TypeOK, Clock
<1>2. /\ WellFormed(disk) /\ config.epoch <= disk.epoch
      /\ WellFormed(mem) /\ disk.epoch <= mem.epoch /\ kernel = PeersOf(mem)
      /\ ack # {} => Len(sent) > 0 /\ CommitIn(disk, Len(sent))
  BY <1>0 DEF RotationInv, HubStates, AcksDurable, PeersAreState
<1>3. /\ r.key = r.epoch /\ Known(r.epoch) /\ r.epoch \in Nat
      /\ disk.epoch \in Nat /\ mem.epoch \in Nat
  BY <1>0, <1>1, StoredFields DEF RotationInv, RequestsKnown, Requests
<1>4. TypeOK'
  <2>1. ServerStep
    BY DEF ServerStep
  <2> QED
    BY <2>1, ServerTypes
<1>5. Stored(mem')
  BY <1>4 DEF TypeOK
<1>6. CASE Open \/ PrepareAgain \/ CommitAgain \/ RefuseRequest
  <2>1. UNCHANGED <<mem, kernel>>
    BY <1>6 DEF Open, PrepareAgain, CommitAgain, RefuseRequest
  <2>2. pc' = "accepted" => CommitIn(mem, job)
    BY <1>3, <1>6 DEF Open, PrepareAgain, CommitAgain, RefuseRequest, Current, CommitIn, NextTurn
  <2> QED
    BY <1>0, <1>1, <1>2, <2>1, <2>2, HubKeeps
<1>7. CASE Prepare
  <2> DEFINE p == [epoch |-> r.epoch, key |-> r.key, expires |-> stamp + PendingTTL]
  <2>1. /\ r.action = "prepare" /\ r.epoch = mem.epoch + 1
        /\ mem.pending = {} /\ mem.previous = {}
        /\ mem' = [mem EXCEPT !.pending = {p}]
        /\ kernel' = WithPeer(kernel, r.key, Address(r.epoch))
    BY <1>7 DEF Prepare, NextIdentity
  <2>2. p.epoch = mem.epoch + 1 /\ p.key = p.epoch /\ Known(p.epoch)
    BY <1>3, <2>1
  <2> HIDE DEF p
  <2>3. /\ mem'.epoch = mem.epoch /\ mem'.key = mem.key
        /\ mem'.pending = {p} /\ mem'.previous = {}
    BY <1>1, <2>1 DEF Stored, States
  <2>4. WellFormed(mem')
    BY <1>2, <2>2, <2>3 DEF WellFormed
  <2>5. /\ PeersOf(mem) = {Peer(mem.epoch, mem.epoch)}
        /\ PeersOf(mem') = {Peer(mem.epoch, mem.epoch), Peer(mem.epoch + 1, mem.epoch + 1)}
    BY <1>1, <1>2, <1>5, <2>1, <2>3, <2>4, PeersExplicit
  <2>6. Address(mem.epoch + 1) # Address(mem.epoch) /\ mem.epoch # mem.epoch + 1
    BY <1>3, Addresses
  <2>7. kernel' = PeersOf(mem')
    <3>1. /\ kernel = {Peer(mem.epoch, mem.epoch)}
          /\ r.key = mem.epoch + 1 /\ r.epoch = mem.epoch + 1
      BY <1>2, <1>3, <2>1, <2>5
    <3>2. kernel' = WithPeer({Peer(mem.epoch, mem.epoch)}, mem.epoch + 1, Address(mem.epoch + 1))
      BY <2>1, <3>1
    <3>3. /\ Peer(mem.epoch, mem.epoch).key = mem.epoch
          /\ Peer(mem.epoch, mem.epoch).address = Address(mem.epoch)
          /\ Peer(mem.epoch + 1, mem.epoch + 1)
               = [key |-> mem.epoch + 1, address |-> Address(mem.epoch + 1)]
      BY DEF Peer
    <3> QED
      BY <2>5, <2>6, <3>2, <3>3 DEF WithPeer
  <2>8. CommitIn(mem', job)
    BY <2>1 DEF CommitIn
  <2> QED
    BY <1>0, <1>2, <1>5, <2>3, <2>4, <2>7, <2>8, HubKeeps
<1>8. CASE Commit
  <2> DEFINE q == [key |-> mem.key, expires |-> stamp + Overlap]
  <2>1. PICK p \in mem.pending : p.epoch = r.epoch /\ p.key = r.key
    BY <1>8 DEF Commit, SamePending
  <2>2. r.epoch = mem.epoch + 1 /\ mem.pending # {} /\ mem.previous = {}
    BY <1>2, <2>1 DEF WellFormed
  <2>3. /\ mem' = [mem EXCEPT !.epoch = r.epoch, !.key = r.key, !.pending = {}, !.previous = {q}]
        /\ kernel' = kernel
    BY <1>8 DEF Commit, Committed
  <2>4. q.key = mem.epoch
    BY <1>2 DEF WellFormed
  <2> HIDE DEF q
  <2>5. /\ mem'.epoch = mem.epoch + 1 /\ mem'.key = mem'.epoch
        /\ mem'.pending = {} /\ mem'.previous = {q}
    BY <1>1, <1>3, <2>2, <2>3 DEF Stored, States
  <2>6. WellFormed(mem')
    BY <1>3, <2>2, <2>4, <2>5 DEF WellFormed
  <2>7. mem'.epoch - 1 = mem.epoch /\ Address(mem'.epoch + 1) = Address(mem.epoch)
    <3>1. Address(mem.epoch + 1 + 1) = Address(mem.epoch)
      BY <1>3, Addresses
    <3> QED
      BY <1>3, <2>5, <3>1
  <2>8. /\ PeersOf(mem) = {Peer(mem.epoch, mem.epoch)}
                            \cup {Peer(mem.epoch + 1, mem.epoch + 1)}
        /\ PeersOf(mem') = {Peer(mem'.epoch, mem'.epoch)}
                            \cup {Peer(mem'.epoch - 1, mem'.epoch + 1)}
    <3>1. PeersOf(mem) = {Peer(mem.epoch, mem.epoch)}
                            \cup {Peer(mem.epoch + 1, mem.epoch + 1)}
      BY <1>1, <1>2, <2>2, PeersExplicit
    <3> DEFINE t == mem'
    <3>2. Stored(t) /\ WellFormed(t) /\ t.pending = {} /\ t.previous # {}
      BY <1>5, <2>5, <2>6
    <3> HIDE DEF t
    <3>3. PeersOf(t) = {Peer(t.epoch, t.epoch)} \cup {Peer(t.epoch - 1, t.epoch + 1)}
      BY <3>2, PeersExplicit
    <3> QED
      BY <3>1, <3>3 DEF t
  <2>9. /\ Peer(mem'.epoch, mem'.epoch) = Peer(mem.epoch + 1, mem.epoch + 1)
        /\ Peer(mem'.epoch - 1, mem'.epoch + 1) = Peer(mem.epoch, mem.epoch)
    BY <2>5, <2>7 DEF Peer
  <2>10. kernel' = PeersOf(mem')
    BY <1>2, <2>3, <2>8, <2>9
  <2>11. CommitIn(mem', job) /\ disk.epoch <= mem'.epoch
    BY <1>2, <1>3, <2>2, <2>5 DEF CommitIn
  <2> QED
    BY <1>0, <1>2, <1>5, <2>6, <2>10, <2>11, HubKeeps
<1> QED
  BY <1>6, <1>7, <1>8

LEMMA NextInv == TypeOK /\ RotationInv /\ [Next]_vars => RotationInv'
<1> SUFFICES ASSUME TypeOK, RotationInv, [Next]_vars PROVE RotationInv'
  OBVIOUS
<1>1. CASE ServerStep /\ UNCHANGED <<clock, sent, clientVars>>
  BY <1>1, LoopInv, RequestInv DEF ServerStep
<1>2. CASE ClientStep
  BY <1>2, ClientInv
<1>3. CASE Tick \/ UNCHANGED vars
  <2>1. UNCHANGED <<sent, pc, mem, disk, job, kernel, ack, config, at, made>>
    BY <1>3 DEF Tick, vars, serverVars, clientVars
  <2>2. ClientFile' /\ RequestsKnown' /\ HubStates' /\ AcksDurable' /\ PeersAreState'
    BY <2>1 DEF RotationInv, ClientFile, RequestsKnown, HubStates, AcksDurable, PeersAreState,
                Known, WellFormed, CommitIn, Serving
  <2> QED
    BY <2>2 DEF RotationInv
<1> QED
  BY <1>1, <1>2, <1>3 DEF Next

(* The inductive invariant of the rotation.                                 *)
THEOREM RotationInvariant == Spec => []RotationInv
<1> QED
  BY InitTypes, NextTypes, InitInv, NextInv, PTL DEF Spec

-----------------------------------------------------------------------------
(* What follows from it.                                                    *)

(* The epochs of the client, of the disk and of the process, in order.      *)
LEMMA EpochsInOrder ==
    ASSUME TypeOK, RotationInv
    PROVE  /\ config.epoch \in Nat /\ disk.epoch \in Nat /\ mem.epoch \in Nat
           /\ config.epoch <= disk.epoch /\ disk.epoch <= config.epoch + 1
           /\ disk.epoch = config.epoch + 1 => config.pending # {}
           /\ Serving => /\ disk.epoch <= mem.epoch /\ mem.epoch <= config.epoch + 1
                         /\ mem.epoch = config.epoch + 1 => config.pending # {}
<1>1. /\ config.epoch \in Nat /\ Stored(disk) /\ Stored(mem)
  BY DEF TypeOK, Configs
<1>2. disk.epoch \in Nat /\ mem.epoch \in Nat
  BY <1>1, StoredFields
<1> QED
  BY <1>1, <1>2 DEF RotationInv, HubStates, WellFormed, Known

(* Client and hub agree on the identity, or the client holds the key of the *)
(* next one, whatever is lost, repeated or crashes (EpochAgreement).        *)
THEOREM HubAndClientAgree == Spec => []EpochAgreement
<1>1. TypeOK /\ RotationInv => EpochAgreement
  <2> SUFFICES ASSUME TypeOK, RotationInv PROVE EpochAgreement
    OBVIOUS
  <2>1. disk.key = disk.epoch /\ config.key = config.epoch
    BY DEF RotationInv, HubStates, WellFormed, ClientFile
  <2>2. \A p \in config.pending : p.epoch = config.epoch + 1 /\ p.key = p.epoch
    BY DEF RotationInv, ClientFile
  <2>3. disk.epoch = config.epoch \/ (disk.epoch = config.epoch + 1 /\ config.pending # {})
    BY EpochsInOrder
  <2> QED
    BY <2>1, <2>2, <2>3 DEF EpochAgreement, SameIdentity
<1> QED
  BY <1>1, RotationTypes, RotationInvariant, PTL

(* The interface of a running hub has exactly the peers of its state, no    *)
(* two at one address (PeersAreState).                                      *)
THEOREM PeersFollowState == Spec => []PeersAreState
<1>1. RotationInv => PeersAreState
  BY DEF RotationInv
<1> QED
  BY <1>1, RotationInvariant, PTL

(* A client that believes itself connected is a peer of a running hub       *)
(* (ClientServed).                                                          *)
THEOREM ConnectedIsServed == Spec => []ClientServed
<1>1. TypeOK /\ RotationInv => ClientServed
  <2> SUFFICES ASSUME TypeOK, RotationInv, at = "connected", Serving
               PROVE  [key |-> config.key, address |-> Address(config.epoch)] \in kernel
    BY DEF ClientServed
  <2>1. config.pending = {} /\ config.key = config.epoch
    BY DEF RotationInv, ClientFile, Bare
  <2>2. mem.epoch = config.epoch
    BY <2>1, EpochsInOrder
  <2>3. mem.key = mem.epoch /\ kernel = PeersOf(mem)
    BY DEF RotationInv, HubStates, WellFormed, PeersAreState
  <2> QED
    BY <2>1, <2>2, <2>3 DEF PeersOf
<1> QED
  BY <1>1, RotationTypes, RotationInvariant, PTL

-----------------------------------------------------------------------------
(* No lock-out.                                                             *)

(* What a client sends is dated by a clock that is near the hub's.          *)
LEMMA ClientDates ==
    ASSUME TypeOK, RotationInv, DatesNear, ClientStep
    PROVE  DatesNear'
<1>1. /\ UNCHANGED <<clock, mem, disk>>
      /\ \A n \in 1 .. Len(sent) : sent'[n] = sent[n]
  BY ClientEffect
<1>2. ExpiresSoon(disk)' /\ ExpiresSoon(mem)'
  BY <1>1 DEF DatesNear, ExpiresSoon
<1>3. \A n \in 1 .. Len(sent) : sent'[n].issued <= clock + Drift
  BY <1>1 DEF DatesNear
<1>4. \A n \in 1 .. Len(sent') : sent'[n].issued <= clock + Drift
  <2>1. CASE sent' = sent
    BY <1>3, <2>1
  <2>2. CASE \E r \in Requests : sent' = Append(sent, r) /\ r.issued <= clock + Drift
    <3>1. PICK r \in Requests : sent' = Append(sent, r) /\ r.issued <= clock + Drift
      BY <2>2
    <3>2. Len(sent') = Len(sent) + 1 /\ sent'[Len(sent')] = r /\ Len(sent) \in Nat
      BY <3>1 DEF TypeOK
    <3>3. \A n \in 1 .. Len(sent') : n \in 1 .. Len(sent) \/ n = Len(sent')
      BY <3>2
    <3> QED
      BY <1>3, <3>1, <3>2, <3>3
  <2> QED
    BY <2>1, <2>2, RequestEffect DEF RotationInv
<1> QED
  BY <1>1, <1>2, <1>4 DEF DatesNear

(* What the hub grants is dated by the stamp of the turn, which the clock   *)
(* has reached.                                                             *)
LEMMA HubDates ==
    ASSUME TypeOK, ReplayInv, DatesNear, ServerStep, UNCHANGED <<clock, sent, clientVars>>
    PROVE  DatesNear'
<1>0. /\ Stored(mem) /\ Stored(disk) /\ mem \in States
      /\ clock \in Nat /\ stamp \in Nat /\ stamp <= clock
      /\ Overlap \in Nat /\ PendingTTL \in Nat
      /\ clock' = clock /\ sent' = sent
  BY KnockAssumption DEF TypeOK, Stored, Clock, ReplayInv
<1>1. ExpiresSoon(disk) /\ ExpiresSoon(mem)
  BY DEF DatesNear
<1>2. ASSUME NEW s, Stored(s), ExpiresSoon(s) PROVE ExpiresSoon(Cleaned(s, clock))
  <2>1. /\ Cleaned(s, clock).pending \subseteq s.pending
        /\ Cleaned(s, clock).previous \subseteq s.previous
    BY <1>0, <1>2, CleanedState
  <2> QED
    BY <1>2, <2>1 DEF ExpiresSoon
<1>3. SUFFICES ExpiresSoon(disk') /\ ExpiresSoon(mem')
  BY <1>0 DEF DatesNear, ExpiresSoon
<1>4. CASE Load
  BY <1>0, <1>1, <1>2, <1>4 DEF Load
<1>5. CASE SaveLoaded \/ SaveSwept \/ SaveAccepted
  BY <1>1, <1>5 DEF SaveLoaded, SaveSwept, SaveAccepted, Save
<1>6. CASE Sweep
  BY <1>0, <1>1, <1>2, <1>6 DEF Sweep
<1>7. CASE \/ Idle \/ Arrive \/ Open \/ PrepareAgain \/ CommitAgain \/ RefuseRequest
           \/ Acknowledge \/ Teardown
  BY <1>1, <1>7 DEF Idle, Arrive, Authenticate, RefuseKnock, Open, PrepareAgain, CommitAgain,
                    RefuseRequest, Handled, Acknowledge, Teardown
<1>8. CASE SaveNonces
  <2>1. /\ mem' = [mem EXCEPT !.nonces = table] /\ disk' = mem'
        /\ mem'.pending = mem.pending /\ mem'.previous = mem.previous
    BY <1>0, <1>8 DEF SaveNonces, States
  <2> QED
    BY <1>1, <2>1 DEF ExpiresSoon
<1>9. CASE Prepare
  <2> DEFINE p == [epoch |-> sent[job].epoch, key |-> sent[job].key,
                   expires |-> stamp + PendingTTL]
  <2>1. mem' = [mem EXCEPT !.pending = {p}] /\ disk' = disk
    BY <1>9 DEF Prepare, Handled
  <2>2. p.expires <= clock + PendingTTL
    BY <1>0
  <2> HIDE DEF p
  <2>3. mem'.pending = {p} /\ mem'.previous = mem.previous
    BY <1>0, <2>1 DEF States
  <2> QED
    BY <1>1, <2>1, <2>2, <2>3 DEF ExpiresSoon
<1>10. CASE Commit
  <2> DEFINE q == [key |-> mem.key, expires |-> stamp + Overlap]
  <2>1. /\ mem' = [mem EXCEPT !.epoch = sent[job].epoch, !.key = sent[job].key,
                              !.pending = {}, !.previous = {q}]
        /\ disk' = disk
    BY <1>10 DEF Commit, Committed, Handled
  <2>2. q.expires <= clock + Overlap
    BY <1>0
  <2> HIDE DEF q
  <2>3. mem'.pending = {} /\ mem'.previous = {q}
    BY <1>0, <2>1 DEF States
  <2> QED
    BY <1>1, <2>1, <2>2, <2>3 DEF ExpiresSoon
<1>11. CASE Crash
  BY <1>1, <1>11 DEF Crash, Enrolled, ExpiresSoon
<1> QED
  BY <1>4, <1>5, <1>6, <1>7, <1>8, <1>9, <1>10, <1>11 DEF ServerStep

LEMMA NextDates ==
    TypeOK /\ ReplayInv /\ RotationInv /\ DatesNear /\ [Next]_vars => DatesNear'
<1> SUFFICES ASSUME TypeOK, ReplayInv, RotationInv, DatesNear, [Next]_vars PROVE DatesNear'
  OBVIOUS
<1>1. CASE ServerStep /\ UNCHANGED <<clock, sent, clientVars>>
  BY <1>1, HubDates
<1>2. CASE ClientStep
  BY <1>2, ClientDates
<1>3. CASE Tick
  <2>1. clock' = clock + 1 /\ sent' = sent /\ mem' = mem /\ disk' = disk /\ clock \in Nat
    BY <1>3 DEF Tick, serverVars, TypeOK, Clock
  <2>2. /\ \A n \in 1 .. Len(sent) : sent[n].issued \in Int
        /\ \A q \in disk.previous \cup disk.pending \cup mem.previous \cup mem.pending :
             q.expires \in Nat
    <3>1. \A n \in 1 .. Len(sent) : sent[n] \in Requests
      BY DEF TypeOK
    <3>2. Stored(mem) /\ Stored(disk)
      BY DEF TypeOK
    <3> QED
      BY <3>1, <3>2, StoredFields DEF Requests
  <2>3. Overlap \in Nat /\ PendingTTL \in Nat /\ Drift \in Nat
    BY KnockAssumption, DriftAssumption
  <2> QED
    BY <2>1, <2>2, <2>3 DEF DatesNear, ExpiresSoon
<1>4. CASE UNCHANGED vars
  BY <1>4 DEF vars, serverVars, DatesNear, ExpiresSoon
<1> QED
  BY <1>1, <1>2, <1>3, <1>4 DEF Next

(* A state of the hub between the client's epoch and the next one can take  *)
(* what the client asks for on its next start.                              *)
LEMMA StateAnswers ==
    ASSUME RotationInv, NEW s, Stored(s), WellFormed(s),
           config.epoch \in Nat, config.epoch <= s.epoch
    PROVE  Answerable(s)
<1>1. s.epoch \in Nat /\ s.key = s.epoch /\ Known(s.epoch)
  BY StoredFields DEF WellFormed
<1>2. \A q \in s.pending : q.epoch = s.epoch + 1 /\ q.key = q.epoch /\ Known(q.epoch)
  BY DEF WellFormed
<1>3. config.key = config.epoch
  BY DEF RotationInv, ClientFile
<1>4. \A p \in config.pending : p.epoch = config.epoch + 1 /\ p.key = p.epoch
  BY DEF RotationInv, ClientFile
<1>5. config.pending = {} => SameIdentity(s, config) /\ s.pending = {}
  <2> SUFFICES ASSUME config.pending = {} PROVE SameIdentity(s, config) /\ s.pending = {}
    OBVIOUS
  <2>1. s.epoch = config.epoch
    BY <1>1 DEF Known
  <2>2. \A q \in s.pending : FALSE
    BY <1>2, <2>1 DEF Known
  <2> QED
    BY <1>1, <1>3, <2>1, <2>2 DEF SameIdentity
<1>6. ASSUME NEW p \in config.pending
      PROVE  \/ SameIdentity(s, p)
             \/ /\ SameIdentity(s, config)
                /\ p.epoch = s.epoch + 1 /\ p.key # s.key
                /\ \A q \in s.pending : SameIdentity(q, p)
  <2>1. s.epoch = config.epoch \/ s.epoch = config.epoch + 1
    BY <1>1 DEF Known
  <2> QED
    BY <1>1, <1>2, <1>3, <1>4, <2>1 DEF SameIdentity
<1> QED
  BY <1>5, <1>6 DEF Answerable

(* Wherever a rotation was interrupted, the hub's file and its memory can   *)
(* take the request of the client's next start, and what refuses it in the  *)
(* meantime has a date that passes (NeverLockedOut).                        *)
THEOREM RotationsCanComplete == Spec => []NeverLockedOut
<1>1. Init => DatesNear
  BY DEF Init, ServerInit, DatesNear, ExpiresSoon, Enrolled
<1>2. TypeOK /\ ReplayInv /\ RotationInv /\ DatesNear => NeverLockedOut
  <2> SUFFICES ASSUME TypeOK, ReplayInv, RotationInv, DatesNear PROVE NeverLockedOut
    OBVIOUS
  <2>1. /\ Stored(disk) /\ WellFormed(disk) /\ config.epoch <= disk.epoch
        /\ Serving => Stored(mem) /\ WellFormed(mem) /\ config.epoch <= mem.epoch
    BY EpochsInOrder DEF TypeOK, RotationInv, HubStates
  <2>2. config.epoch \in Nat
    BY EpochsInOrder
  <2>3. Answerable(disk) /\ (Serving => Answerable(mem))
    BY <2>1, <2>2, StateAnswers
  <2>4. \A n \in 1 .. Len(sent) : Expiry(n) <= clock + Drift + Skew + 1
    <3>1. \A n \in 1 .. Len(sent) : sent[n] \in Requests
      BY DEF TypeOK
    <3>2. \A n \in 1 .. Len(sent) : sent[n].issued \in Int /\ sent[n].issued <= clock + Drift
      BY <3>1 DEF Requests, DatesNear
    <3>3. clock \in Nat /\ Drift \in Nat /\ Skew \in Nat
      BY KnockAssumption, DriftAssumption DEF TypeOK, Clock
    <3> QED
      BY <3>2, <3>3 DEF Expiry
  <2>5. table \cup mem.nonces \cup disk.nonces \subseteq 1 .. Len(sent)
    BY DEF ReplayInv
  <2> QED
    BY <2>3, <2>4, <2>5 DEF NeverLockedOut, RefusalsPass, DatesNear
<1> QED
  BY <1>1, <1>2, NextDates, InitReplay, NextReplay, RotationTypes, RotationInvariant, PTL DEF Spec

(* Every step of the two files is a step of the handover, or none.          *)
LEMMA HandoverStep ==
    TypeOK /\ RotationInv /\ TypeOK' /\ RotationInv' /\ [Next]_vars
      => [TwoPhase!Next]_<<disk.epoch, config.epoch>>
<1> SUFFICES ASSUME TypeOK, RotationInv, TypeOK', RotationInv', [Next]_vars
             PROVE  [TwoPhase!Next]_<<disk.epoch, config.epoch>>
  OBVIOUS
<1>1. /\ config.epoch \in Nat /\ disk.epoch \in Nat /\ mem.epoch \in Nat
      /\ config.epoch <= disk.epoch /\ disk.epoch <= config.epoch + 1
      /\ Serving => disk.epoch <= mem.epoch /\ mem.epoch <= config.epoch + 1
  BY EpochsInOrder
<1>2. config'.epoch \in Nat /\ disk'.epoch \in Nat /\ config'.epoch <= disk'.epoch
  BY DEF RotationInv, HubStates, TypeOK, Configs, Stored, States
<1>3. CASE ServerStep /\ UNCHANGED <<clock, sent, clientVars>>
  <2>1. config' = config
    BY <1>3 DEF clientVars
  <2>2. disk'.epoch = disk.epoch \/ (Serving /\ disk'.epoch = mem.epoch)
    <3>1. CASE SaveLoaded \/ SaveSwept \/ SaveAccepted
      BY <3>1 DEF SaveLoaded, SaveSwept, SaveAccepted, Save, Serving
    <3>2. CASE SaveNonces
      <4>1. mem \in States
        BY DEF TypeOK, Stored
      <4> QED
        BY <3>2, <4>1 DEF SaveNonces, Serving, States
    <3>3. CASE \/ Load \/ Sweep \/ Idle \/ Arrive \/ Open \/ Prepare \/ PrepareAgain \/ Commit
               \/ CommitAgain \/ RefuseRequest \/ Acknowledge \/ Crash \/ Teardown
      BY <3>3 DEF Load, Sweep, Idle, Arrive, Authenticate, RefuseKnock, Open, Prepare,
                  PrepareAgain, Commit, CommitAgain, RefuseRequest, Handled, Acknowledge,
                  Crash, Teardown
    <3> QED
      BY <1>3, <3>1, <3>2, <3>3 DEF ServerStep
  <2>3. disk'.epoch = disk.epoch \/ (disk.epoch = config.epoch /\ disk'.epoch = disk.epoch + 1)
    BY <1>1, <2>2
  <2> QED
    BY <2>1, <2>3 DEF TwoPhase!Next, TwoPhase!HubCommits
<1>4. CASE ClientStep
  <2>1. disk' = disk
    BY <1>4, ClientEffect
  <2>2. config'.epoch = config.epoch \/ config'.epoch = config.epoch + 1
    BY <1>4, ConfigEffect, FollowFile DEF RotationInv
  <2>3. \/ config'.epoch = config.epoch
        \/ disk.epoch = config.epoch + 1 /\ config'.epoch = disk.epoch
    BY <1>1, <1>2, <2>1, <2>2
  <2> QED
    BY <2>1, <2>3 DEF TwoPhase!Next, TwoPhase!ClientFollows
<1>5. CASE Tick \/ UNCHANGED vars
  BY <1>5 DEF Tick, vars, serverVars, clientVars
<1> QED
  BY <1>3, <1>4, <1>5 DEF Next

(* The rotation implements the two-phase handover (ImplementsHandover).     *)
THEOREM RotationsAreHandovers == Spec => ImplementsHandover
<1>1. Init => TwoPhase!Init
  BY DEF Init, ServerInit, Enrolled, TwoPhase!Init
<1>2. TypeOK /\ RotationInv /\ TypeOK' /\ RotationInv' /\ [Next]_vars
        => [TwoPhase!Next]_<<disk.epoch, config.epoch>>
  BY HandoverStep
<1> QED
  BY <1>1, <1>2, RotationTypes, RotationInvariant, PTL DEF Spec, TwoPhase!Spec, ImplementsHandover
=============================================================================
