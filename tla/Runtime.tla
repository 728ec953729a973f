------------------------------- MODULE Runtime -------------------------------
(***************************************************************************)
(* Life of embedded cores over one vault directory (runtime.rs, and its    *)
(* use by the desktop shell, native.rs): start under the lease, handlers   *)
(* through four doors, the client gateway, shutdown within its time, drop. *)
(*                                                                         *)
(* The lease lives in the vault, the vault in the state that every router  *)
(* shares: it is given back when the last router, server or handler of a   *)
(* core is gone, which need not be when the core is.  A connection that    *)
(* axum::serve accepted is a task of its own, which outlives its server,   *)
(* and the blocking worker of a restore outlives even the handler that     *)
(* spawned it, with a reference to the vault of its own.                   *)
(***************************************************************************)
EXTENDS Naturals, FiniteSets

CONSTANTS
    Core,       \* starts of a core over this directory
    Handler,    \* requests in flight
    NoCore,
    Permits     \* native requests at a time (16)

ASSUME RuntimeAssumption ==
    /\ NoCore \notin Core
    /\ Permits \in Nat \ {0}

VARIABLES
    lease,      \* the core that holds runtime.lock
    core,       \* the cores
    handler     \* the handlers

runtimeVars == <<lease, core, handler>>

------------------------------------------------------------------------------
Door == {"api", "native", "adapter", "gateway"}

\* By what a request refers to its core: the door its handler came through
\* or, once the handler of a restore was dropped, the worker it left behind.
Via == Door \cup {"worker"}

CoreRecord ==
    [alive : BOOLEAN,       \* the EmbeddedCore exists
     closing : BOOLEAN,     \* its watch channel, which all routers read
     server : BOOLEAN,      \* the listener's task runs
     gateway : BOOLEAN,     \* a ClientGateway exists
     accepting : BOOLEAN,   \* ... and its server's task runs
     exported : BOOLEAN,    \* an adapter holds a router
     shutdown : {"no", "waiting", "ok", "timed out"}]

Absent == [alive |-> FALSE, closing |-> FALSE, server |-> FALSE,
           gateway |-> FALSE, accepting |-> FALSE, exported |-> FALSE,
           shutdown |-> "no"]

Idling == [at |-> "idle"]

RuntimeInit ==
    /\ lease = NoCore
    /\ core = [c \in Core |-> Absent]
    /\ handler = [h \in Handler |-> Idling]

Through(c, doors, hs) ==
    {h \in Handler : /\ hs[h].at = "running"
                     /\ hs[h].of = c /\ hs[h].door \in doors}

\* Someone still refers to the vault of a core.
Uses(c, cs, hs) ==
    \/ cs[c].alive \/ cs[c].server \/ cs[c].accepting \/ cs[c].exported
    \/ Through(c, Via, hs) # {}

\* Mutants of Holds: the lease is a field of the core object, ...
HoldsWhileAlive(c, cs, hs) == cs[c].alive

\* ... or of its handlers: the worker of a restore has none of its own.
HoldsUntilDropped(c, cs, hs) ==
    \/ cs[c].alive \/ cs[c].server \/ cs[c].accepting \/ cs[c].exported
    \/ Through(c, Door, hs) # {}

Holds(c, cs, hs) == Uses(c, cs, hs)

\* The lease file is closed with the vault.
Settle(cs, hs) ==
    /\ core' = cs
    /\ handler' = hs
    /\ lease' = IF lease \in Core /\ ~ Holds(lease, cs, hs) THEN NoCore ELSE lease

Become(c, k) == Settle([core EXCEPT ![c] = k], handler)

------------------------------------------------------------------------------
(* The core object. *)

\* start: the lease is taken before the vault is opened.
Start(c, listen) ==
    /\ lease = NoCore
    /\ ~ Uses(c, core, handler)
    /\ ~ core[c].gateway
    /\ lease' = c
    /\ core' = [core EXCEPT ![c] = [Absent EXCEPT !.alive = TRUE, !.server = listen]]
    /\ UNCHANGED handler

BeginShutdown(c) ==
    /\ core[c].alive /\ core[c].shutdown = "no"
    /\ Become(c, [core[c] EXCEPT !.closing = TRUE])

\* shutdown consumes the core: no native request borrows it any more.
Shutdown(c) ==
    /\ core[c].alive /\ core[c].shutdown = "no"
    /\ Through(c, {"native"}, handler) = {}
    /\ Become(c, [core[c] EXCEPT
                    !.closing = TRUE, !.alive = core[c].server,
                    !.shutdown = IF core[c].server THEN "waiting" ELSE "ok"])

\* Mutant of ServerDrains: the listener's task does not wait for its
\* connections.
ServerStops(c) ==
    /\ core[c].server /\ core[c].closing
    /\ Become(c, [core[c] EXCEPT !.server = FALSE])

\* Graceful shutdown of the listener: it waits for its connections.
ServerDrains(c) ==
    /\ core[c].server /\ core[c].closing
    /\ Through(c, {"api"}, handler) = {}
    /\ Become(c, [core[c] EXCEPT !.server = FALSE])

ShutdownReturns(c) ==
    /\ core[c].shutdown = "waiting" /\ ~ core[c].server
    /\ Become(c, [core[c] EXCEPT !.alive = FALSE, !.shutdown = "ok"])

\* Mutant of TimesOut: the wait for the server has no limit.
TimesOutNever(c) == FALSE

\* SHUTDOWN_TIMEOUT: the server's task is aborted, the connections that it
\* accepted go on.
TimesOut(c) ==
    /\ core[c].shutdown = "waiting" /\ core[c].server
    /\ Become(c, [core[c] EXCEPT !.alive = FALSE, !.server = FALSE,
                                 !.shutdown = "timed out"])

\* What shutdown itself does once it waits.
EndsWaiting(c) == ShutdownReturns(c) \/ TimesOut(c)

\* Dropped without shutdown; a task of the runtime gives the server as long.
DropCore(c) ==
    /\ core[c].alive /\ core[c].shutdown = "no"
    /\ Through(c, {"native"}, handler) = {}
    /\ Become(c, [core[c] EXCEPT !.alive = FALSE, !.closing = TRUE])

Reap(c) ==
    /\ ~ core[c].alive /\ core[c].server
    /\ Become(c, [core[c] EXCEPT !.server = FALSE])

\* The process ends, in whatever way.
ProcessEnds(c) ==
    Settle([core EXCEPT ![c] = Absent],
           [h \in Handler |-> IF h \in Through(c, Via, handler) THEN Idling
                              ELSE handler[h]])

------------------------------------------------------------------------------
(* Routers handed out and the client gateway. *)

ExportRouter(c) ==
    /\ core[c].alive
    /\ Become(c, [core[c] EXCEPT !.exported = TRUE])

DropRouter(c) ==
    /\ core[c].exported
    /\ Become(c, [core[c] EXCEPT !.exported = FALSE])

\* client_gateway keeps at most one.
StartGateway(c) ==
    /\ core[c].alive /\ ~ core[c].closing /\ ~ core[c].gateway
    /\ Become(c, [core[c] EXCEPT !.gateway = TRUE, !.accepting = TRUE])

\* Dropped: its gate closes and its server's task is aborted.
StopGateway(c) ==
    /\ core[c].gateway
    /\ Become(c, [core[c] EXCEPT !.gateway = FALSE, !.accepting = FALSE])

\* The core's shutdown ends the gateway's server too, after its connections.
GatewayDrains(c) ==
    /\ core[c].accepting /\ core[c].closing
    /\ Through(c, {"gateway"}, handler) = {}
    /\ Become(c, [core[c] EXCEPT !.accepting = FALSE])

------------------------------------------------------------------------------
(* Requests. *)

\* Every door has its way in; all of them read the core's gate.
Open(c, door) ==
    /\ ~ core[c].closing
    /\ CASE door = "api" -> core[c].server
         [] door = "native" ->
                /\ core[c].alive
                /\ Cardinality(Through(c, {"native"}, handler)) < Permits
         [] door = "adapter" -> core[c].exported
         [] door = "gateway" -> core[c].accepting

Admit(h, c, door) ==
    /\ handler[h] = Idling
    /\ Open(c, door)
    /\ Settle(core, [handler EXCEPT ![h] =
                       [at |-> "running", of |-> c, door |-> door]])

\* The caller of a restore goes away: its handler is dropped, but the worker
\* works on, with the vault and the process's one recovery slot.  The client
\* gateway offers no restore.
Detach(h) ==
    /\ \E c \in Core :
          /\ h \in Through(c, Door \ {"gateway"}, handler)
          /\ Through(c, {"worker"}, handler) = {}
    /\ Settle(core, [handler EXCEPT ![h].door = "worker"])

\* Answered, failed, timed out, or dropped with its connection and nothing of
\* it left; or the worker that it left is done.
Finish(h) ==
    /\ handler[h] # Idling
    /\ Settle(core, [handler EXCEPT ![h] = Idling])

RuntimeNext ==
    \/ \E c \in Core, listen \in BOOLEAN : Start(c, listen)
    \/ \E c \in Core : BeginShutdown(c)
    \/ \E c \in Core : Shutdown(c)
    \/ \E c \in Core : ServerDrains(c)
    \/ \E c \in Core : EndsWaiting(c)
    \/ \E c \in Core : DropCore(c)
    \/ \E c \in Core : Reap(c)
    \/ \E c \in Core : ProcessEnds(c)
    \/ \E c \in Core : ExportRouter(c)
    \/ \E c \in Core : DropRouter(c)
    \/ \E c \in Core : StartGateway(c)
    \/ \E c \in Core : StopGateway(c)
    \/ \E c \in Core : GatewayDrains(c)
    \/ \E h \in Handler, c \in Core, door \in Door : Admit(h, c, door)
    \/ \E h \in Handler : Detach(h)
    \/ \E h \in Handler : Finish(h)

RuntimeSpec == RuntimeInit /\ [][RuntimeNext]_runtimeVars

------------------------------------------------------------------------------
(* What must hold. *)

\* Every variable holds a value of its type.
RuntimeTypeOK ==
    /\ lease \in Core \cup {NoCore}
    /\ core \in [Core -> CoreRecord]
    /\ handler \in [Handler -> {Idling} \cup
                      [at : {"running"}, of : Core, door : Via]]

\* Two cores never have the vault open together: whatever of a core is
\* still there after its shutdown, its drop or its gateway's end keeps the
\* next one out (vault_lease, Vault::hold_runtime_lease).
SingleOwner ==
    \A c, d \in Core :
        Uses(c, core, handler) /\ Uses(d, core, handler) => c = d

\* A shutdown that reports success has waited for every request of the
\* listener, and the vault is free again, unless an adapter's router, the
\* client gateway or their requests still hold it, or the worker of a restore
\* whose caller went away (EmbeddedCore::shutdown, restore_recovery).
ShutdownFrees ==
    \A c \in Core :
        core[c].shutdown = "ok" =>
            /\ Through(c, {"api", "native"}, handler) = {}
            /\ lease = c => \/ core[c].exported
                            \/ core[c].accepting
                            \/ Through(c, {"adapter", "gateway", "worker"}, handler) # {}

\* The life of the vault's lease: one owner at a time, and free again after a
\* shutdown that succeeds, but for what that leaves
\* (EmbeddedCore::start, EmbeddedCore::shutdown).
LeaseIsSound == SingleOwner /\ ShutdownFrees

\* Shutdown returns, also when requests never end (SHUTDOWN_TIMEOUT).
ShutdownEnds ==
    \A c \in Core : core[c].shutdown = "waiting" ~> core[c].shutdown # "waiting"

==============================================================================
