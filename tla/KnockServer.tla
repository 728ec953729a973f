---------------------------- MODULE KnockServer ----------------------------
(***************************************************************************)
(* The control plane of the VPN hub (crates/omni-vpn/src/server.rs) with    *)
(* its replay protection (knock.rs), for one enrolled client.               *)
(*                                                                         *)
(* The hub has three copies of what it knows: state.json (disk), the State  *)
(* of the process (mem) and the peers of the WireGuard interface (kernel).  *)
(* One loop updates them one after the other, so a crash or an early        *)
(* return may fall between any two.  The shipped supervisor deletes the     *)
(* network namespace when the process ends (infra/vpn/server-up.sh:26-36,   *)
(* 83): kernel peers do not outlive it.                                     *)
(*                                                                         *)
(* Requests are known by their nonce, a position in the sequence sent.  The *)
(* channel is UDP: a datagram may be lost, late or repeated, so whatever    *)
(* was sent may arrive at any time, any number of times.                    *)
(***************************************************************************)
EXTENDS Integers, Sequences, FiniteSets

CONSTANTS
    Skew,        \* CLOCK_SKEW
    PendingTTL,  \* life of a prepared key
    Overlap,     \* OVERLAP_SECONDS
    Window,      \* age of a handshake that counts as recent
    Capacity,    \* MAX_NONCES
    MaxClock,    \* bound on the clock
    MaxEpoch,    \* bound on the rotations a client begins
    MaxRequests  \* bound on the requests a client sends

ASSUME KnockAssumption ==
    /\ {Skew, PendingTTL, Overlap, Window, Capacity} \subseteq Nat
    /\ {MaxClock, MaxEpoch, MaxRequests} \subseteq Nat

VARIABLES
    clock,
    sent,     \* every request ever sent, in order
    pc,       \* where the server's loop is
    mem,      \* State of the process
    disk,     \* state.json
    table,    \* Verifier.nonces
    stamp,    \* the loop's local timestamp
    job,      \* nonce of the request in this turn of the loop, 0 without one
    kernel,   \* peers of the WireGuard interface
    shaken,   \* latest handshake the kernel knows of, by key
    ack,      \* acknowledgements of the last request: their accepted_at
    acted     \* history: nonces of the requests that were acted on

serverVars == <<pc, mem, disk, table, stamp, job, kernel, shaken, ack, acted>>

Clock == 0 .. MaxClock
Epochs == 0 .. MaxEpoch + 1
(* Keys are numbered in the order in which they are generated; 0 is the     *)
(* enrolled one.                                                            *)
Keys == Nat
Nonces == 1 .. MaxRequests

(* An open request carries no key; its field key is never looked at.        *)
Requests == [action : {"open", "prepare", "commit"},
             epoch : Nat, key : Keys, issued : Int]

Pending == [epoch : Nat, key : Keys, expires : Nat]
Previous == [key : Keys, expires : Nat]
(* pending and previous are Options: sets of at most one element.           *)
States == [epoch : Nat, key : Keys, pending : SUBSET Pending,
           previous : SUBSET Previous, nonces : SUBSET Nonces]
Peers == [key : Keys, address : {0, 1}]

Address(epoch) == epoch % 2
AbsDiff(a, b) == IF a < b THEN b - a ELSE a - b

(***************************************************************************)
(* knock.rs                                                                 *)
(***************************************************************************)
(* Mutant: the nonce is forgotten in the last second its date is accepted.  *)
ExpiryTooSoon(n) == sent[n].issued + Skew
Expiry(n) == sent[n].issued + Skew + 1
Unexpired(nonces, now) == {n \in nonces : Expiry(n) > now}
Timely(n, now) == AbsDiff(sent[n].issued, now) <= Skew

(***************************************************************************)
(* WireGuard, as the server uses it through wg set.                         *)
(***************************************************************************)
WithPeer(peers, key, address) ==
    {p \in peers : p.key # key /\ p.address # address}
        \cup {[key |-> key, address |-> address]}
WithoutKeys(peers, keys) == {p \in peers : p.key \notin keys}
Recent(key, now) == \E t \in shaken : t[1] = key /\ AbsDiff(t[2], now) <= Window

(***************************************************************************)
(* What the restart code installs for a state.                              *)
(***************************************************************************)
PeersOf(s) ==
    {[key |-> s.key, address |-> Address(s.epoch)]}
      \cup {[key |-> p.key, address |-> Address(p.epoch)] : p \in s.pending}
      \cup {[key |-> p.key, address |-> Address(s.epoch + 1)] : p \in s.previous}

(***************************************************************************)
(* fn cleanup: expired pending and previous identities are dropped.         *)
(***************************************************************************)
ExpiredKeys(s, now) ==
    {p.key : p \in {q \in s.pending \cup s.previous : now >= q.expires}}
Cleaned(s, now) ==
    [s EXCEPT !.pending = {p \in @ : now < p.expires},
              !.previous = {p \in @ : now < p.expires}]

Enrolled == [epoch |-> 0, key |-> 0, pending |-> {}, previous |-> {}, nonces |-> {}]

ServerInit ==
    /\ pc = "off"
    /\ mem = Enrolled /\ disk = Enrolled
    /\ table = {} /\ stamp = 0 /\ job = 0
    /\ kernel = {} /\ shaken = {}
    /\ ack = {} /\ acted = {}

(***************************************************************************)
(* Start: load the state, restore the nonces that have not expired, clean   *)
(* up, install the peers on the fresh interface; then save.  The nonces of  *)
(* the State itself are not filtered; a store over the limit is refused.    *)
(***************************************************************************)
Load ==
    /\ pc = "off"
    /\ Cardinality(disk.nonces) <= Capacity
    /\ mem' = Cleaned(disk, clock)
    /\ table' = Unexpired(disk.nonces, clock)
    /\ kernel' = PeersOf(Cleaned(disk, clock))
    /\ pc' = "loaded"
    /\ UNCHANGED <<disk, stamp, job, shaken, ack, acted>>

Save(from, to) ==
    /\ pc = from
    /\ disk' = mem
    /\ pc' = to
    /\ UNCHANGED <<mem, table, stamp, job, kernel, shaken, ack, acted>>

SaveLoaded == Save("loaded", "loop")

(***************************************************************************)
(* Top of the loop: the timestamp is read before the datagram is awaited.   *)
(***************************************************************************)
Sweep ==
    LET gone == ExpiredKeys(mem, clock) IN
    /\ pc = "loop"
    /\ stamp' = clock
    /\ mem' = Cleaned(mem, clock)
    /\ kernel' = WithoutKeys(kernel, gone)
    /\ shaken' = {t \in shaken : t[1] \notin gone}
    /\ pc' = IF gone = {} THEN "receiving" ELSE "swept"
    /\ UNCHANGED <<disk, table, job, ack, acted>>

SaveSwept == Save("swept", "receiving")

Idle ==
    /\ pc = "receiving"
    /\ pc' = "loop"
    /\ UNCHANGED <<mem, disk, table, stamp, job, kernel, shaken, ack, acted>>

(***************************************************************************)
(* Verifier::authenticate.  A forged datagram fails its MAC and changes     *)
(* nothing, as Idle does.  Expired nonces are dropped only for a timely     *)
(* request, and even when that request is then refused.                     *)
(***************************************************************************)
(* Mutant: the table is tested for being over its limit, not at it.         *)
AcceptableWhenFull(n) ==
    LET live == Unexpired(table, stamp) IN
    /\ n \notin live
    /\ Cardinality(live) <= Capacity
Acceptable(n) ==
    LET live == Unexpired(table, stamp) IN
    /\ n \notin live
    /\ Cardinality(live) < Capacity

Authenticate(n) ==
    /\ pc = "receiving"
    /\ Timely(n, stamp)
    /\ Acceptable(n)
    /\ table' = Unexpired(table, stamp) \cup {n}
    /\ job' = n
    /\ pc' = "authenticated"
    /\ UNCHANGED <<mem, disk, stamp, kernel, shaken, ack, acted>>

RefuseKnock(n) ==
    /\ pc = "receiving"
    /\ Timely(n, stamp)
    /\ ~ Acceptable(n)
    /\ table' = Unexpired(table, stamp)
    /\ pc' = "loop"
    /\ UNCHANGED <<mem, disk, stamp, job, kernel, shaken, ack, acted>>

(* "Never ACK before durable replay protection."  The whole State is saved, *)
(* a change an earlier request left unsaved included.                       *)
SaveNonces ==
    /\ pc = "authenticated"
    /\ mem' = [mem EXCEPT !.nonces = table]
    /\ disk' = [mem EXCEPT !.nonces = table]
    /\ pc' = "durable"
    /\ UNCHANGED <<table, stamp, job, kernel, shaken, ack, acted>>

(***************************************************************************)
(* The closure `accepted`.  Admission to the firewall is its last step and  *)
(* may fail: the request is then not acknowledged and the state not saved,  *)
(* but what the request changed in mem and kernel stays.                    *)
(***************************************************************************)
Handled ==
    /\ pc = "durable"
    /\ acted' = acted \cup {job}
    /\ UNCHANGED <<disk, table, stamp, shaken, ack>>

NextTurn == pc' = "loop" /\ job' = 0
Admitted ==
    \/ pc' = "accepted" /\ UNCHANGED job
    \/ NextTurn

OpenValid(r) == r.epoch = mem.epoch

Open ==
    /\ Handled
    /\ sent[job].action = "open"
    /\ OpenValid(sent[job])
    /\ Admitted
    /\ UNCHANGED <<mem, kernel>>

(* Mutant: a rotation begins while the last one still overlaps.             *)
NextIdentityAnyTime(r) ==
    /\ r.epoch = mem.epoch + 1
    /\ r.key # mem.key
NextIdentity(r) ==
    /\ r.epoch = mem.epoch + 1
    /\ r.key # mem.key
    /\ mem.previous = {}

SamePending(r) == \E p \in mem.pending : p.epoch = r.epoch /\ p.key = r.key

Prepare ==
    LET r == sent[job] IN
    /\ Handled
    /\ r.action = "prepare"
    /\ NextIdentity(r)
    /\ mem.pending = {}
    /\ kernel' = WithPeer(kernel, r.key, Address(r.epoch))
    /\ mem' = [mem EXCEPT !.pending =
                 {[epoch |-> r.epoch, key |-> r.key, expires |-> stamp + PendingTTL]}]
    /\ Admitted

PrepareAgain ==
    /\ Handled
    /\ sent[job].action = "prepare"
    /\ NextIdentity(sent[job])
    /\ SamePending(sent[job])
    /\ Admitted
    /\ UNCHANGED <<mem, kernel>>

Current(r) == r.epoch = mem.epoch /\ r.key = mem.key

CommitAgain ==
    /\ Handled
    /\ sent[job].action = "commit"
    /\ Current(sent[job])
    /\ Admitted
    /\ UNCHANGED <<mem, kernel>>

(* Mutant: the prepared key stays prepared when it becomes the active one.  *)
CommittedStillPending(r) ==
    [mem EXCEPT !.epoch = r.epoch, !.key = r.key,
                !.previous = {[key |-> mem.key, expires |-> stamp + Overlap]}]
Committed(r) ==
    [mem EXCEPT !.epoch = r.epoch, !.key = r.key, !.pending = {},
                !.previous = {[key |-> mem.key, expires |-> stamp + Overlap]}]

Commit ==
    LET r == sent[job] IN
    /\ Handled
    /\ r.action = "commit"
    /\ ~ Current(r)
    /\ SamePending(r)
    /\ Recent(r.key, stamp)
    /\ mem' = Committed(r)
    /\ Admitted
    /\ UNCHANGED kernel

(* An ensure! fails, or a command does before anything was changed.         *)
RefuseRequest ==
    /\ Handled
    /\ NextTurn
    /\ UNCHANGED <<mem, kernel>>

(* Mutant: the acknowledgement is sent before the state is saved.           *)
AcknowledgeUnsaved ==
    /\ pc = "accepted"
    /\ pc' = "saved"
    /\ UNCHANGED <<mem, disk, table, stamp, job, kernel, shaken, ack, acted>>
SaveAccepted == Save("accepted", "saved")

(* The client has one socket for each request: the answer to an earlier one *)
(* reaches nobody.                                                          *)
Acknowledge ==
    /\ pc = "saved"
    /\ ack' = ack \cup {t \in {stamp} : job = Len(sent)}
    /\ NextTurn
    /\ UNCHANGED <<mem, disk, table, stamp, kernel, shaken, acted>>

(***************************************************************************)
(* The process ends anywhere: killed, or by an error in cleanup, save or    *)
(* the socket.  Its memory is lost at once, the namespace with its peers a  *)
(* moment later.                                                            *)
(***************************************************************************)
Crash ==
    /\ pc \notin {"off", "dead"}
    /\ pc' = "dead"
    /\ mem' = Enrolled /\ table' = {} /\ stamp' = 0 /\ job' = 0
    /\ UNCHANGED <<disk, kernel, shaken, ack, acted>>

Teardown ==
    /\ pc = "dead"
    /\ kernel' = {} /\ shaken' = {}
    /\ pc' = "off"
    /\ UNCHANGED <<mem, disk, table, stamp, job, ack, acted>>

Arrive == \E n \in 1 .. Len(sent) : Authenticate(n) \/ RefuseKnock(n)
ServerStep ==
    \/ Load \/ SaveLoaded
    \/ Sweep \/ SaveSwept \/ Idle
    \/ Arrive
    \/ SaveNonces
    \/ Open \/ Prepare \/ PrepareAgain \/ Commit \/ CommitAgain \/ RefuseRequest
    \/ SaveAccepted \/ Acknowledge
    \/ Crash \/ Teardown

(* From start-up until the process ends, and with a request in hand.        *)
Serving == pc \notin {"off", "dead"}
Handling == {"authenticated", "durable", "accepted", "saved"}
=============================================================================
