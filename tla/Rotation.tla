------------------------------ MODULE Rotation ------------------------------
(***************************************************************************)
(* The VPN client (infra/vpn/client.py) against the hub of KnockServer.     *)
(* Client and hub move a WireGuard identity from one epoch to the next over *)
(* a channel that loses, delays and repeats datagrams, while either of them *)
(* may crash between any two steps.                                         *)
(*                                                                         *)
(* The configuration file (config) is rewritten atomically by persist; the  *)
(* copy in memory differs from it only inside one action.  The supervisor   *)
(* raises on every failure but one: it then exits and is started again.     *)
(***************************************************************************)
EXTENDS KnockServer

CONSTANT Drift   \* how far the two clocks may be apart

ASSUME DriftAssumption == Drift \in Nat

VARIABLES
    config,   \* the client's file: epoch, key and pending rotation
    at,       \* where the supervisor is
    made      \* number of keys generated so far

clientVars == <<config, at, made>>
vars == <<clock, sent, serverVars, clientVars>>

(* Waiting for the acknowledgement of a request, by what it is needed for.  *)
Waiting == {"opening", "renewing", "preparing", "recovering", "committing"}
Places == Waiting \cup {"down", "rotating", "tunnel", "newtunnel", "shaken", "connected"}
Configs == [epoch : Nat, key : Keys, pending : SUBSET [epoch : Nat, key : Keys]]

Init ==
    /\ ServerInit
    /\ clock = 0
    /\ sent = <<>>
    /\ config = [epoch |-> 0, key |-> 0, pending |-> {}]
    /\ at = "down" /\ made = 0

(***************************************************************************)
(* control(): one request with a fresh nonce, dated by the client's clock,  *)
(* and a wait of three seconds for its acknowledgement.                     *)
(***************************************************************************)
Request(action, epoch, key, to) ==
    /\ Len(sent) < MaxRequests
    /\ \E d \in -Drift .. Drift :
         sent' = Append(sent, [action |-> action, epoch |-> epoch, key |-> key,
                               issued |-> clock + d])
    /\ ack' = {}
    /\ at' = to
    /\ UNCHANGED <<clock, pc, mem, disk, table, stamp, job, kernel, shaken, acted>>

(* The socket is closed; the hub is left alone.                             *)
Closed ==
    /\ ack' = {}
    /\ UNCHANGED <<clock, sent, pc, mem, disk, table, stamp, job, kernel, shaken, acted>>

(* An acknowledgement of this request that is neither old nor early.        *)
Acknowledged(from) ==
    /\ at = from
    /\ \E t \in ack, d \in -Drift .. Drift : AbsDiff(t, clock + d) <= Skew
    /\ Closed

(* Leaves everything but the client alone.                                  *)
Alone == UNCHANGED <<clock, sent, serverVars>>

(***************************************************************************)
(* main(): the start, with or without a rotation left over, and renewal.    *)
(***************************************************************************)
StartOpen ==
    /\ at = "down"
    /\ config.pending = {}
    /\ Request("open", config.epoch, config.key, "opening")
    /\ UNCHANGED <<config, made>>

StartRotation ==
    /\ at = "down"
    /\ config.pending # {}
    /\ at' = "rotating"
    /\ Alone /\ UNCHANGED <<config, made>>

Opened ==
    /\ Acknowledged("opening")
    /\ at' = "tunnel"
    /\ UNCHANGED <<config, made>>

Renew ==
    /\ at = "connected"
    /\ Request("open", config.epoch, config.key, "renewing")
    /\ UNCHANGED <<config, made>>

Renewed ==
    /\ Acknowledged("renewing")
    /\ at' = "connected"
    /\ UNCHANGED <<config, made>>

(***************************************************************************)
(* rotate(): a fresh key is persisted before anyone hears of it.            *)
(***************************************************************************)
BeginRotation ==
    /\ at = "connected"
    /\ config.epoch < MaxEpoch
    /\ made' = made + 1
    /\ config' = [config EXCEPT !.pending = {[epoch |-> config.epoch + 1, key |-> made']}]
    /\ at' = "rotating"
    /\ Alone

SendPrepare ==
    /\ at = "rotating"
    /\ \E p \in config.pending : Request("prepare", p.epoch, p.key, "preparing")
    /\ UNCHANGED <<config, made>>

(* Mutant: the timeout is taken for an acknowledgement of the commit.       *)
TimeoutIsAck ==
    /\ at = "preparing"
    /\ \E p \in config.pending :
         config' = [epoch |-> p.epoch, key |-> p.key, pending |-> {}]
    /\ at' = "connected"
    /\ Closed /\ UNCHANGED made
(* The one timeout that is handled: the hub may already have committed.     *)
Recover ==
    /\ at = "preparing"
    /\ \E p \in config.pending : Request("commit", p.epoch, p.key, "recovering")
    /\ UNCHANGED <<config, made>>

Prepared ==
    /\ Acknowledged("preparing") \/ Acknowledged("recovering")
    /\ at' = "newtunnel"
    /\ UNCHANGED <<config, made>>

SendCommit ==
    /\ at = "shaken"
    /\ \E p \in config.pending : Request("commit", p.epoch, p.key, "committing")
    /\ UNCHANGED <<config, made>>

(* config.update(pending); del config["pending"]; persist.                  *)
RotationAcknowledged ==
    /\ Acknowledged("committing")
    /\ \E p \in config.pending :
         config' = [epoch |-> p.epoch, key |-> p.key, pending |-> {}]
    /\ at' = "connected"
    /\ UNCHANGED made

(***************************************************************************)
(* Tunnel.handshake: the peer answers only if it knows the key.             *)
(***************************************************************************)
Handshake(key, epoch) ==
    /\ [key |-> key, address |-> Address(epoch)] \in kernel
    /\ shaken' = {t \in shaken : t[1] # key} \cup {<<key, clock>>}
    /\ UNCHANGED <<clock, sent, config, made,
                   pc, mem, disk, table, stamp, job, kernel, ack, acted>>

TunnelUp ==
    /\ at = "tunnel"
    /\ Handshake(config.key, config.epoch)
    /\ at' = "connected"

NewTunnelUp ==
    /\ at = "newtunnel"
    /\ \E p \in config.pending : Handshake(p.key, p.epoch)
    /\ at' = "shaken"

(* Mutant: a failed rotation is abandoned.                                  *)
ExitForgetting ==
    /\ at # "down"
    /\ at' = "down"
    /\ config' = [config EXCEPT !.pending = {}]
    /\ Closed /\ UNCHANGED made
(* Any other failure, a signal or a power loss: the supervisor ends and its *)
(* tunnels with it.  The pending rotation stays in the file.                *)
Exit ==
    /\ at # "down"
    /\ at' = "down"
    /\ Closed /\ UNCHANGED <<config, made>>

ClientStep ==
    \/ StartOpen \/ StartRotation
    \/ Opened \/ TunnelUp
    \/ Renew \/ Renewed
    \/ BeginRotation \/ SendPrepare \/ Recover \/ Prepared \/ NewTunnelUp
    \/ SendCommit \/ RotationAcknowledged
    \/ Exit

Tick ==
    /\ clock < MaxClock
    /\ clock' = clock + 1
    /\ UNCHANGED <<sent, serverVars, clientVars>>

Next ==
    \/ ServerStep /\ UNCHANGED <<clock, sent, clientVars>>
    \/ ClientStep
    \/ Tick

Spec == Init /\ [][Next]_vars
-----------------------------------------------------------------------------
(***************************************************************************)
(* Properties.                                                              *)
(***************************************************************************)

(* Every variable has its type; an Option holds at most one value, and the  *)
(* replay table stays within its capacity.                                  *)
AtMostOne(S) == \A x, y \in S : x = y
Stored(s) ==
    /\ s \in States
    /\ AtMostOne(s.pending) /\ AtMostOne(s.previous)
    /\ Cardinality(s.nonces) <= Capacity
TypeOK ==
    /\ clock \in Clock
    /\ sent \in Seq(Requests) /\ Len(sent) <= MaxRequests
    /\ pc \in {"off", "dead", "loaded", "loop", "swept", "receiving",
               "authenticated", "durable", "accepted", "saved"}
    /\ Stored(mem) /\ Stored(disk)
    /\ table \subseteq Nonces /\ Cardinality(table) <= Capacity
    /\ stamp \in Clock
    /\ job \in 0 .. Len(sent)
    /\ pc \in Handling => job # 0
    /\ kernel \subseteq Peers
    /\ shaken \subseteq Keys \X Clock
    /\ ack \subseteq Clock
    /\ acted \subseteq Nonces
    /\ config \in Configs /\ AtMostOne(config.pending)
    /\ at \in Places
    /\ made \in Nat

(* No datagram is acted on twice, whatever is repeated and however often    *)
(* the hub restarts: the nonce is on disk before the request is looked at   *)
(* and stays known for as long as its date is acceptable (knock.rs:218-226, *)
(* server.rs:247, 300-301; VPN.md:77 "restarting cannot replay an accepted  *)
(* packet").                                                                *)
NoReplay == pc \in {"authenticated", "durable"} => job \notin acted

(* No datagram is acted on twice, and a table of nonces that is full        *)
(* refuses instead of growing or forgetting (knock.rs:221): at no restart   *)
(* and no repetition does it hold more than its capacity.                   *)
ReplaySafety == TypeOK /\ NoReplay

(* Client and hub never lose each other: what the hub has on disk is the    *)
(* identity of the client's file, or the next one, and then the client      *)
(* still holds the private key of that very identity as its pending         *)
(* rotation (client.py:142-164, server.rs:350-377).                         *)
SameIdentity(s, c) == s.epoch = c.epoch /\ s.key = c.key
EpochAgreement ==
    \/ SameIdentity(disk, config)
    \/ disk.epoch = config.epoch + 1 /\ \E p \in config.pending : SameIdentity(disk, p)

(* A rotation interrupted anywhere can still be completed, because the next *)
(* start of the client finds a hub that can take its request: a client      *)
(* without a rotation on file opens the hub's own identity and the hub has  *)
(* prepared none; a client with one either finds it committed, so that the  *)
(* commit it falls back to is repeated, or the hub is at the client's epoch *)
(* and has prepared this very key or none (client.py:142-155,               *)
(* server.rs:337-377).                                                      *)
Answerable(s) ==
    /\ config.pending = {} => SameIdentity(s, config) /\ s.pending = {}
    /\ \A p \in config.pending :
         \/ SameIdentity(s, p)
         \/ /\ SameIdentity(s, config)
            /\ p.epoch = s.epoch + 1 /\ p.key # s.key
            /\ \A q \in s.pending : SameIdentity(q, p)

(* What makes the hub refuse such a request passes by itself: the overlap   *)
(* with the last identity, a key prepared, and the nonces it remembers all  *)
(* have a date near the clock.                                              *)
ExpiresSoon(s) ==
    /\ \A q \in s.previous : q.expires <= clock + Overlap
    /\ \A q \in s.pending : q.expires <= clock + PendingTTL
RefusalsPass(s) ==
    /\ ExpiresSoon(s)
    /\ \A n \in s.nonces : Expiry(n) <= clock + Drift + Skew + 1

(* No crash, loss or repetition locks the client out: this is so of the     *)
(* hub's file, which a restart starts from, and of its memory while it      *)
(* runs.  EpochAgreement follows.                                           *)
NeverLockedOut ==
    /\ Answerable(disk) /\ RefusalsPass(disk)
    /\ Serving => Answerable(mem) /\ RefusalsPass(mem)
    /\ \A n \in table : Expiry(n) <= clock + Drift + Skew + 1

(* While the hub runs, WireGuard knows exactly the identities of its state, *)
(* each at its own address: no expired or abandoned key keeps access and    *)
(* no rotation takes the address from a key still in use, on whatever path  *)
(* the request failed (server.rs:157-176, 249-270, 324-348, 371).           *)
PeersAreState ==
    Serving =>
      /\ kernel = PeersOf(mem)
      /\ \A p, q \in kernel : p.address = q.address => p = q

(* A client that regards itself as connected is known to a running hub      *)
(* under the key and the address its tunnel uses: an acknowledged epoch     *)
(* survives every restart of the hub (server.rs:374-379).                   *)
ClientServed ==
    at = "connected" /\ Serving =>
      [key |-> config.key, address |-> Address(config.epoch)] \in kernel

(***************************************************************************)
(* Why EpochAgreement, PeersAreState and ClientServed hold.                 *)
(***************************************************************************)
(* The client generates one key for each epoch, because a pending rotation  *)
(* is never given up, so a key can be told from its epoch.                  *)
Bare == {"opening", "renewing", "tunnel", "connected"}
ClientFile ==
    /\ config.key = config.epoch
    /\ \A p \in config.pending : p.epoch = config.epoch + 1 /\ p.key = p.epoch
    /\ at \in Bare => config.pending = {}
    /\ at \notin Bare \cup {"down"} => config.pending # {}
    /\ made = config.epoch + (IF config.pending = {} THEN 0 ELSE 1)

(* An epoch the client is in, was in, or has on file.                       *)
Known(epoch) ==
    epoch <= config.epoch \/ (epoch = config.epoch + 1 /\ config.pending # {})

RequestsKnown ==
    \A n \in 1 .. Len(sent) : sent[n].key = sent[n].epoch /\ Known(sent[n].epoch)

(* A state of the hub: its identity is known to the client, and at most one *)
(* other identity stands beside it, the next or the last.                   *)
WellFormed(s) ==
    /\ s.key = s.epoch
    /\ Known(s.epoch)
    /\ \A p \in s.pending : p.epoch = s.epoch + 1 /\ p.key = p.epoch /\ Known(p.epoch)
    /\ \A p \in s.previous : p.key + 1 = s.epoch
    /\ s.pending = {} \/ s.previous = {}

HubStates ==
    /\ WellFormed(disk) /\ config.epoch <= disk.epoch
    /\ Serving => WellFormed(mem) /\ disk.epoch <= mem.epoch

(* A commit that was accepted is in memory, one that is acknowledged on     *)
(* disk; and the client waits for the answer to its own commit.             *)
CommitIn(s, n) == sent[n].action = "commit" => sent[n].epoch <= s.epoch
AcksDurable ==
    /\ pc = "accepted" => CommitIn(mem, job)
    /\ pc = "saved" => CommitIn(disk, job)
    /\ ack # {} => Len(sent) > 0 /\ CommitIn(disk, Len(sent))
    /\ at = "committing" =>
         /\ Len(sent) > 0
         /\ sent[Len(sent)].action = "commit"
         /\ \A p \in config.pending : sent[Len(sent)].epoch = p.epoch

RotationInv ==
    /\ ClientFile /\ RequestsKnown /\ HubStates /\ AcksDurable /\ PeersAreState

(***************************************************************************)
(* Why NoReplay holds: a request that was acted on is remembered wherever   *)
(* the hub may look for it next, or its date has passed there.              *)
(***************************************************************************)
Remembered(nonces, now) == \A n \in acted : n \in nonces \/ Expiry(n) <= now
ReplayInv ==
    /\ stamp <= clock
    /\ acted \cup table \cup mem.nonces \cup disk.nonces \subseteq 1 .. Len(sent)
    /\ Remembered(disk.nonces, clock)
    /\ Serving => Remembered(mem.nonces, clock) /\ Remembered(table, clock)
    /\ pc \in {"swept", "receiving"} => Remembered(table, stamp)
    /\ pc \in {"authenticated", "durable"} =>
         job \in table /\ job \notin acted
    /\ pc = "durable" => mem.nonces = table /\ disk.nonces = table

(* No date that the hub goes by lies far ahead of the clock.                *)
DatesNear ==
    /\ \A n \in 1 .. Len(sent) : sent[n].issued <= clock + Drift
    /\ ExpiresSoon(disk) /\ ExpiresSoon(mem)

(* What the two files promise together: a two-phase handover of the epoch.  *)
TwoPhase == INSTANCE Handover WITH hub <- disk.epoch, client <- config.epoch
ImplementsHandover == TwoPhase!Spec
=============================================================================
