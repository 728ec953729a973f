--------------------------- MODULE ServicesProofs ---------------------------
(***************************************************************************)
(* What TLAPS proves about modules Pairing, Runtime, Analytics and         *)
(* Histogram, for any browsers, cores, handlers, installations, weeks and  *)
(* bounds.                                                                 *)
(***************************************************************************)
EXTENDS MCServices, AdministrationProofs, FiniteSetTheorems

------------------------------------------------------------------------------
(* The pairing code. *)

\* Once somebody is paired the code is used up.
PairingInv == PairingTypeOK /\ (paired # {} => ~ ticket)

PairedStep ==
    paired' # paired =>
        /\ paired = {} /\ clock < Lifetime
        /\ \E b \in Browser : paired' = {b} /\ asking[b] = "code"

LEMMA PairingInvariant ==
    /\ PairingInit => PairingInv
    /\ PairingInv /\ [PairingNext]_pairingVars => PairingInv' /\ PairedStep
<1>1. PairingInit => PairingInv
  BY PairingAssumption DEF PairingInit, PairingInv, PairingTypeOK
<1>2. ASSUME PairingInv, [PairingNext]_pairingVars PROVE PairingInv' /\ PairedStep
  <2>1. ASSUME NEW b \in Browser, NEW what \in Bring, Ask(b, what)
        PROVE  PairingInv' /\ PairedStep
    BY <1>2, <2>1 DEF PairingInv, PairingTypeOK, Ask, PairedStep
  <2>2. ASSUME NEW b \in Browser, Claim(b) PROVE PairingInv' /\ PairedStep
    BY <1>2, <2>2 DEF PairingInv, PairingTypeOK, Claim, PairedStep
  <2>3. CASE Passes
    BY <1>2, <2>3 DEF PairingInv, PairingTypeOK, Passes, PairedStep
  <2>4. CASE UNCHANGED pairingVars
    BY <1>2, <2>4 DEF PairingInv, PairingTypeOK, pairingVars, PairedStep
  <2> QED BY <1>2, <2>1, <2>2, <2>3, <2>4 DEF PairingNext
<1> QED BY <1>1, <1>2

\* The pairing code is good for one browser, in time (PairingGate::claim).
THEOREM PairingIsOnce == PairingSpec => PairedOnce
<1>1. PairingInv /\ [PairingNext]_pairingVars => [PairedStep]_pairingVars
  BY PairingInvariant
<1> QED BY <1>1, PairingInvariant, PTL DEF PairingSpec, PairedOnce, PairedStep

------------------------------------------------------------------------------
(* The runtime.  Api and native requests are told apart: the listener      *)
(* waits for the first, the second borrow the core.                        *)

Orderly(k, api, native) ==
    /\ k.alive /\ ~ k.server => api = {}
    /\ k.shutdown # "no" => k.closing /\ native = {}
    /\ k.shutdown = "waiting" => k.alive
    /\ k.shutdown = "ok" => ~ k.alive /\ ~ k.server /\ api = {}

Good(c, cs, hs) == Orderly(cs[c], Through(c, {"api"}, hs), Through(c, {"native"}, hs))

\* The lease is with the core that something still refers to.
Owned == \A c \in Core : Uses(c, core, handler) => lease = c
Held == lease \in Core => Uses(lease, core, handler)

RuntimeInv ==
    RuntimeTypeOK /\ Owned /\ Held /\ \A c \in Core : Good(c, core, handler)

Handlers == {Idling} \cup [at : {"running"}, of : Core, door : Via]

\* A step that makes no core used again keeps the lease where it belongs.
LEMMA SettleKeeps ==
    ASSUME RuntimeInv, NEW cs \in [Core -> CoreRecord], NEW hs \in [Handler -> Handlers],
           Settle(cs, hs),
           \A c \in Core : Uses(c, cs, hs) => Uses(c, core, handler),
           \A c \in Core : Good(c, cs, hs)
    PROVE  RuntimeInv'
<1>1. /\ core' = cs /\ handler' = hs
      /\ lease' = IF lease \in Core /\ ~ Uses(lease, cs, hs) THEN NoCore ELSE lease
  BY DEF Settle, Holds
<1>2. RuntimeTypeOK'
  BY <1>1 DEF RuntimeInv, RuntimeTypeOK, Handlers
<1>3. \A c \in Core : Uses(c, cs, hs) => lease' = c
  BY <1>1 DEF RuntimeInv, Owned
<1>4. lease' \in Core => Uses(lease', cs, hs)
  BY <1>1, RuntimeAssumption
<1>5. Owned'
  BY <1>1, <1>3 DEF Owned
<1>6. Held'
  BY <1>1, <1>4 DEF Held
<1>7. \A c \in Core : Good(c, core, handler)'
  BY <1>1
<1> QED BY <1>2, <1>5, <1>6, <1>7 DEF RuntimeInv

\* A step of one core.
LEMMA BecomeKeeps ==
    ASSUME RuntimeInv, NEW c \in Core, NEW k \in CoreRecord, Become(c, k),
           k.alive \/ k.server \/ k.accepting \/ k.exported => Uses(c, core, handler),
           Orderly(k, Through(c, {"api"}, handler), Through(c, {"native"}, handler))
    PROVE  RuntimeInv'
<1> DEFINE cs == [core EXCEPT ![c] = k]
<1>1. core \in [Core -> CoreRecord] /\ handler \in [Handler -> Handlers]
  BY DEF RuntimeInv, RuntimeTypeOK, Handlers
<1>2. cs \in [Core -> CoreRecord] /\ Settle(cs, handler)
  BY <1>1 DEF Become
<1>3. \A d \in Core : cs[d] = IF d = c THEN k ELSE core[d]
  BY <1>1
<1> HIDE DEF cs
<1>4. \A d \in Core : Uses(d, cs, handler) => Uses(d, core, handler)
  BY <1>3 DEF Uses
<1>5. \A d \in Core : Good(d, cs, handler)
  BY <1>3 DEF Good, RuntimeInv
<1> QED BY <1>1, <1>2, <1>4, <1>5, SettleKeeps

\* A core as it is, taken apart.
LEMMA CoreFacts ==
    ASSUME RuntimeInv, NEW c \in Core
    PROVE  /\ core[c] \in CoreRecord
           /\ Orderly(core[c], Through(c, {"api"}, handler), Through(c, {"native"}, handler))
           /\ core[c].alive \/ core[c].server \/ core[c].accepting \/ core[c].exported
                => Uses(c, core, handler)
BY DEF RuntimeInv, RuntimeTypeOK, Good, Uses

LEMMA RuntimeInitEstablishes == RuntimeInit => RuntimeInv
<1> SUFFICES ASSUME RuntimeInit PROVE RuntimeInv
  OBVIOUS
<1>1. Absent \in CoreRecord
  BY DEF Absent, CoreRecord
<1>2. RuntimeTypeOK
  BY <1>1 DEF RuntimeInit, RuntimeTypeOK
<1>3. \A c \in Core : \A doors : Through(c, doors, handler) = {}
  BY DEF RuntimeInit, Through, Idling
<1>4. \A c \in Core : ~ Uses(c, core, handler)
  BY <1>3 DEF Uses, RuntimeInit, Absent
<1>5. \A c \in Core : Good(c, core, handler)
  BY <1>3 DEF Good, Orderly, RuntimeInit, Absent
<1>6. lease \notin Core
  BY RuntimeAssumption DEF RuntimeInit
<1> QED BY <1>2, <1>4, <1>5, <1>6 DEF RuntimeInv, Owned, Held

LEMMA StartKeeps ==
    ASSUME RuntimeInv, NEW c \in Core, NEW listen \in BOOLEAN, Start(c, listen)
    PROVE  RuntimeInv'
<1> DEFINE k == [Absent EXCEPT !.alive = TRUE, !.server = listen]
<1>1. /\ k \in CoreRecord /\ k.alive /\ k.shutdown = "no"
  BY DEF Absent, CoreRecord
<1>2. core' = [core EXCEPT ![c] = k] /\ handler' = handler /\ lease' = c
  BY DEF Start
<1> HIDE DEF k
<1>3. RuntimeTypeOK'
  BY <1>1, <1>2 DEF RuntimeInv, RuntimeTypeOK
<1>4. \A d \in Core : core'[d] = IF d = c THEN k ELSE core[d]
  BY <1>2 DEF RuntimeInv, RuntimeTypeOK
<1>5. \A d \in Core : ~ Uses(d, core, handler)
  BY RuntimeAssumption DEF Start, RuntimeInv, Owned
<1>6. \A d \in Core : Uses(d, core', handler') => d = c
  BY <1>2, <1>4, <1>5 DEF Uses
<1>7. Uses(c, core', handler')
  BY <1>1, <1>4 DEF Uses
<1>8. Owned' /\ Held'
  BY <1>2, <1>6, <1>7 DEF Owned, Held
<1>9. Through(c, {"api"}, handler) = {} /\ Through(c, {"native"}, handler) = {}
  BY <1>5 DEF Uses, Through, Door, Via
<1>10. \A d \in Core : Good(d, core', handler')
  BY <1>1, <1>2, <1>4, <1>9 DEF Good, Orderly, RuntimeInv
<1> QED BY <1>3, <1>8, <1>10 DEF RuntimeInv

LEMMA CoreStepsKeep ==
    ASSUME RuntimeInv, NEW c \in Core,
           \/ BeginShutdown(c) \/ Shutdown(c) \/ ServerDrains(c) \/ ShutdownReturns(c)
           \/ TimesOut(c) \/ DropCore(c) \/ Reap(c)
           \/ ExportRouter(c) \/ DropRouter(c)
           \/ StartGateway(c) \/ StopGateway(c) \/ GatewayDrains(c)
    PROVE  RuntimeInv'
<1> DEFINE old == core[c]
           api == Through(c, {"api"}, handler)
           native == Through(c, {"native"}, handler)
           used == Uses(c, core, handler)
<1>1. /\ old \in CoreRecord /\ Orderly(old, api, native)
      /\ old.alive \/ old.server \/ old.accepting \/ old.exported => used
  BY CoreFacts
<1> SUFFICES \E k \in CoreRecord :
        /\ Become(c, k) /\ Orderly(k, api, native)
        /\ k.alive \/ k.server \/ k.accepting \/ k.exported => used
  BY BecomeKeeps
<1> HIDE DEF api, native, used
<1>2. CASE BeginShutdown(c)
  <2> DEFINE k == [old EXCEPT !.closing = TRUE]
  <2>1. k \in CoreRecord /\ Orderly(k, api, native)
        /\ (k.alive \/ k.server \/ k.accepting \/ k.exported => used)
    BY <1>1 DEF CoreRecord, Orderly
  <2> QED BY <1>2, <2>1 DEF BeginShutdown
<1>3. CASE Shutdown(c)
  <2> DEFINE k == [old EXCEPT !.closing = TRUE, !.alive = old.server,
                              !.shutdown = IF old.server THEN "waiting" ELSE "ok"]
  <2>1. old.alive /\ native = {} /\ Become(c, k)
    BY <1>3 DEF Shutdown, native
  <2>2. k \in CoreRecord /\ Orderly(k, api, native)
        /\ (k.alive \/ k.server \/ k.accepting \/ k.exported => used)
    BY <1>1, <2>1 DEF CoreRecord, Orderly
  <2> QED BY <2>1, <2>2
<1>4. CASE ServerDrains(c)
  <2> DEFINE k == [old EXCEPT !.server = FALSE]
  <2>1. api = {} /\ Become(c, k)
    BY <1>4 DEF ServerDrains, api
  <2>2. k \in CoreRecord /\ Orderly(k, api, native)
        /\ (k.alive \/ k.server \/ k.accepting \/ k.exported => used)
    BY <1>1, <2>1 DEF CoreRecord, Orderly
  <2> QED BY <2>1, <2>2
<1>5. CASE ShutdownReturns(c)
  <2> DEFINE k == [old EXCEPT !.alive = FALSE, !.shutdown = "ok"]
  <2>1. old.shutdown = "waiting" /\ ~ old.server /\ Become(c, k)
    BY <1>5 DEF ShutdownReturns
  <2>2. k \in CoreRecord /\ Orderly(k, api, native)
        /\ (k.alive \/ k.server \/ k.accepting \/ k.exported => used)
    BY <1>1, <2>1 DEF CoreRecord, Orderly
  <2> QED BY <2>1, <2>2
<1>6. CASE TimesOut(c)
  <2> DEFINE k == [old EXCEPT !.alive = FALSE, !.server = FALSE, !.shutdown = "timed out"]
  <2>1. old.shutdown = "waiting" /\ Become(c, k)
    BY <1>6 DEF TimesOut
  <2>2. k \in CoreRecord /\ Orderly(k, api, native)
        /\ (k.alive \/ k.server \/ k.accepting \/ k.exported => used)
    BY <1>1, <2>1 DEF CoreRecord, Orderly
  <2> QED BY <2>1, <2>2
<1>7. CASE DropCore(c)
  <2> DEFINE k == [old EXCEPT !.alive = FALSE, !.closing = TRUE]
  <2>1. old.shutdown = "no" /\ Become(c, k)
    BY <1>7 DEF DropCore
  <2>2. k \in CoreRecord /\ Orderly(k, api, native)
        /\ (k.alive \/ k.server \/ k.accepting \/ k.exported => used)
    BY <1>1, <2>1 DEF CoreRecord, Orderly
  <2> QED BY <2>1, <2>2
<1>8. CASE Reap(c)
  <2> DEFINE k == [old EXCEPT !.server = FALSE]
  <2>1. ~ old.alive /\ old.server /\ Become(c, k)
    BY <1>8 DEF Reap
  <2>2. k \in CoreRecord /\ Orderly(k, api, native)
        /\ (k.alive \/ k.server \/ k.accepting \/ k.exported => used)
    BY <1>1, <2>1 DEF CoreRecord, Orderly
  <2> QED BY <2>1, <2>2
<1>9. CASE ExportRouter(c)
  <2> DEFINE k == [old EXCEPT !.exported = TRUE]
  <2>1. old.alive /\ Become(c, k)
    BY <1>9 DEF ExportRouter
  <2>2. k \in CoreRecord /\ Orderly(k, api, native)
        /\ (k.alive \/ k.server \/ k.accepting \/ k.exported => used)
    BY <1>1, <2>1 DEF CoreRecord, Orderly
  <2> QED BY <2>1, <2>2
<1>10. CASE DropRouter(c)
  <2> DEFINE k == [old EXCEPT !.exported = FALSE]
  <2>1. Become(c, k)
    BY <1>10 DEF DropRouter
  <2>2. k \in CoreRecord /\ Orderly(k, api, native)
        /\ (k.alive \/ k.server \/ k.accepting \/ k.exported => used)
    BY <1>1 DEF CoreRecord, Orderly
  <2> QED BY <2>1, <2>2
<1>11. CASE StartGateway(c)
  <2> DEFINE k == [old EXCEPT !.gateway = TRUE, !.accepting = TRUE]
  <2>1. old.alive /\ Become(c, k)
    BY <1>11 DEF StartGateway
  <2>2. k \in CoreRecord /\ Orderly(k, api, native)
        /\ (k.alive \/ k.server \/ k.accepting \/ k.exported => used)
    BY <1>1, <2>1 DEF CoreRecord, Orderly
  <2> QED BY <2>1, <2>2
<1>12. CASE StopGateway(c)
  <2> DEFINE k == [old EXCEPT !.gateway = FALSE, !.accepting = FALSE]
  <2>1. Become(c, k)
    BY <1>12 DEF StopGateway
  <2>2. k \in CoreRecord /\ Orderly(k, api, native)
        /\ (k.alive \/ k.server \/ k.accepting \/ k.exported => used)
    BY <1>1 DEF CoreRecord, Orderly
  <2> QED BY <2>1, <2>2
<1>13. CASE GatewayDrains(c)
  <2> DEFINE k == [old EXCEPT !.accepting = FALSE]
  <2>1. Become(c, k)
    BY <1>13 DEF GatewayDrains
  <2>2. k \in CoreRecord /\ Orderly(k, api, native)
        /\ (k.alive \/ k.server \/ k.accepting \/ k.exported => used)
    BY <1>1 DEF CoreRecord, Orderly
  <2> QED BY <2>1, <2>2
<1> QED
  BY <1>2, <1>3, <1>4, <1>5, <1>6, <1>7, <1>8, <1>9, <1>10, <1>11, <1>12, <1>13

\* Fewer handlers leave every core in order.
LEMMA FewerHandlers ==
    ASSUME NEW c \in Core, NEW cs, NEW hs, NEW gs,
           \A h \in Handler : gs[h] \in {hs[h], Idling},
           Good(c, cs, hs)
    PROVE  /\ Good(c, cs, gs)
           /\ \A doors : Through(c, doors, gs) \subseteq Through(c, doors, hs)
<1>1. \A doors : Through(c, doors, gs) \subseteq Through(c, doors, hs)
  BY DEF Through, Idling
<1> QED BY <1>1 DEF Good, Orderly

LEMMA ProcessEndsKeeps ==
    ASSUME RuntimeInv, NEW c \in Core, ProcessEnds(c) PROVE RuntimeInv'
<1> DEFINE cs == [core EXCEPT ![c] = Absent]
           hs == [h \in Handler |-> IF h \in Through(c, Via, handler) THEN Idling
                                    ELSE handler[h]]
<1>1. core \in [Core -> CoreRecord] /\ handler \in [Handler -> Handlers]
  BY DEF RuntimeInv, RuntimeTypeOK, Handlers
<1>2. Absent \in CoreRecord
  BY DEF Absent, CoreRecord
<1>3. cs \in [Core -> CoreRecord] /\ hs \in [Handler -> Handlers] /\ Settle(cs, hs)
  BY <1>1, <1>2 DEF ProcessEnds, Handlers
<1>4. \A h \in Handler : hs[h] \in {handler[h], Idling}
  OBVIOUS
<1>5. \A d \in Core : cs[d] = IF d = c THEN Absent ELSE core[d]
  BY <1>1
<1>6. \A d \in Core : /\ Good(d, core, hs)
                      /\ \A doors : Through(d, doors, hs) \subseteq Through(d, doors, handler)
  BY <1>4, FewerHandlers DEF RuntimeInv
<1>7. Through(c, Via, hs) = {}
  BY DEF Through, Idling
<1> HIDE DEF cs, hs
<1>8. \A d \in Core : Uses(d, cs, hs) => Uses(d, core, handler)
  BY <1>5, <1>6, <1>7 DEF Uses, Absent
<1>9. \A d \in Core : Good(d, cs, hs)
  BY <1>5, <1>6 DEF Good, Orderly, Absent
<1> QED BY <1>3, <1>8, <1>9, SettleKeeps

LEMMA FinishKeeps ==
    ASSUME RuntimeInv, NEW h \in Handler, Finish(h) PROVE RuntimeInv'
<1> DEFINE hs == [handler EXCEPT ![h] = Idling]
<1>1. core \in [Core -> CoreRecord] /\ handler \in [Handler -> Handlers]
  BY DEF RuntimeInv, RuntimeTypeOK, Handlers
<1>2. hs \in [Handler -> Handlers] /\ Settle(core, hs)
  BY <1>1 DEF Finish, Handlers
<1>3. \A g \in Handler : hs[g] \in {handler[g], Idling}
  BY <1>1
<1> HIDE DEF hs
<1>4. \A d \in Core : /\ Good(d, core, hs)
                      /\ \A doors : Through(d, doors, hs) \subseteq Through(d, doors, handler)
  BY <1>3, FewerHandlers DEF RuntimeInv
<1>5. \A d \in Core : Uses(d, core, hs) => Uses(d, core, handler)
  BY <1>4 DEF Uses
<1> QED BY <1>1, <1>2, <1>4, <1>5, SettleKeeps

LEMMA DetachKeeps ==
    ASSUME RuntimeInv, NEW h \in Handler, Detach(h) PROVE RuntimeInv'
<1> DEFINE hs == [handler EXCEPT ![h].door = "worker"]
<1>1. core \in [Core -> CoreRecord] /\ handler \in [Handler -> Handlers]
  BY DEF RuntimeInv, RuntimeTypeOK, Handlers
<1>2. PICK c \in Core : h \in Through(c, Door \ {"gateway"}, handler)
  BY DEF Detach
<1>3. handler[h] \in [at : {"running"}, of : Core, door : Via] /\ handler[h].of = c
  BY <1>1, <1>2 DEF Through, Handlers, Idling
<1>4. hs \in [Handler -> Handlers] /\ Settle(core, hs)
  BY <1>1, <1>3 DEF Detach, Handlers, Via
<1>5. \A g \in Handler : /\ g # h => hs[g] = handler[g]
                         /\ hs[g].at = handler[g].at
                         /\ g = h => hs[g].of = c /\ hs[g].door = "worker"
  BY <1>1, <1>3
<1> HIDE DEF hs
<1>6. \A d \in Core : \A doors :
        "worker" \notin doors => Through(d, doors, hs) \subseteq Through(d, doors, handler)
  BY <1>5 DEF Through
<1>7. \A d \in Core : Uses(d, core, hs) => Uses(d, core, handler)
  <2>1. \A d \in Core : Through(d, Via, hs) \subseteq Through(d, Via, handler)
    BY <1>3, <1>5 DEF Through
  <2> QED BY <2>1 DEF Uses
<1>8. \A d \in Core : Good(d, core, hs)
  <2>1. ASSUME NEW d \in Core PROVE Good(d, core, hs)
    <3>1. /\ Through(d, {"api"}, hs) \subseteq Through(d, {"api"}, handler)
          /\ Through(d, {"native"}, hs) \subseteq Through(d, {"native"}, handler)
      BY <1>6
    <3>2. Good(d, core, handler)
      BY DEF RuntimeInv
    <3> QED BY <3>1, <3>2 DEF Good, Orderly
  <2> QED BY <2>1
<1> QED BY <1>1, <1>4, <1>7, <1>8, SettleKeeps

LEMMA AdmitKeeps ==
    ASSUME RuntimeInv, NEW h \in Handler, NEW c \in Core, NEW door \in Door,
           Admit(h, c, door)
    PROVE  RuntimeInv'
<1> DEFINE new == [at |-> "running", of |-> c, door |-> door]
           hs == [handler EXCEPT ![h] = new]
<1>1. core \in [Core -> CoreRecord] /\ handler \in [Handler -> Handlers]
  BY DEF RuntimeInv, RuntimeTypeOK, Handlers
<1>2. hs \in [Handler -> Handlers] /\ Settle(core, hs)
  BY <1>1 DEF Admit, Handlers, Via
<1>3. \A g \in Handler : hs[g] = IF g = h THEN new ELSE handler[g]
  BY <1>1
<1> HIDE DEF hs
<1>4. \A d \in Core : \A doors :
        d # c \/ door \notin doors => Through(d, doors, hs) \subseteq Through(d, doors, handler)
  BY <1>3 DEF Through
<1>5. /\ ~ core[c].closing
      /\ door = "api" => core[c].server
      /\ door = "native" => core[c].alive
      /\ core[c].alive \/ core[c].server \/ core[c].accepting \/ core[c].exported
  BY DEF Admit, Open, Door
<1>6. Uses(c, core, handler)
  BY <1>5 DEF Uses
<1>7. \A d \in Core : Uses(d, core, hs) => Uses(d, core, handler)
  <2>1. \A d \in Core : d # c => Through(d, Via, hs) \subseteq Through(d, Via, handler)
    BY <1>4
  <2> QED BY <1>6, <2>1 DEF Uses
<1>8. \A d \in Core : Good(d, core, hs)
  <2>1. ASSUME NEW d \in Core, d # c PROVE Good(d, core, hs)
    <3>1. /\ Through(d, {"api"}, hs) \subseteq Through(d, {"api"}, handler)
          /\ Through(d, {"native"}, hs) \subseteq Through(d, {"native"}, handler)
      BY <1>4, <2>1
    <3>2. Good(d, core, handler)
      BY DEF RuntimeInv
    <3> QED BY <3>1, <3>2 DEF Good, Orderly
  <2>2. Good(c, core, hs)
    <3>1. /\ door # "api" => Through(c, {"api"}, hs) \subseteq Through(c, {"api"}, handler)
          /\ door # "native" => Through(c, {"native"}, hs) \subseteq Through(c, {"native"}, handler)
      BY <1>4
    <3>2. Good(c, core, handler)
      BY DEF RuntimeInv
    <3> QED BY <1>5, <3>1, <3>2 DEF Good, Orderly
  <2> QED BY <2>1, <2>2
<1> QED BY <1>1, <1>2, <1>7, <1>8, SettleKeeps

LEMMA RuntimeStepKeeps == RuntimeInv /\ [RuntimeNext]_runtimeVars => RuntimeInv'
<1> SUFFICES ASSUME RuntimeInv, [RuntimeNext]_runtimeVars PROVE RuntimeInv'
  OBVIOUS
<1>1. ASSUME NEW c \in Core, NEW listen \in BOOLEAN, Start(c, listen) PROVE RuntimeInv'
  BY <1>1, StartKeeps
<1>2. ASSUME NEW c \in Core,
           \/ BeginShutdown(c) \/ Shutdown(c) \/ ServerDrains(c) \/ ShutdownReturns(c)
           \/ TimesOut(c) \/ DropCore(c) \/ Reap(c)
           \/ ExportRouter(c) \/ DropRouter(c)
           \/ StartGateway(c) \/ StopGateway(c) \/ GatewayDrains(c)
      PROVE RuntimeInv'
  BY <1>2, CoreStepsKeep
<1>3. ASSUME NEW c \in Core, ProcessEnds(c) PROVE RuntimeInv'
  BY <1>3, ProcessEndsKeeps
<1>4. ASSUME NEW h \in Handler, NEW c \in Core, NEW door \in Door, Admit(h, c, door)
      PROVE  RuntimeInv'
  BY <1>4, AdmitKeeps
<1>5. ASSUME NEW h \in Handler, Finish(h) PROVE RuntimeInv'
  BY <1>5, FinishKeeps
<1>6. ASSUME NEW h \in Handler, Detach(h) PROVE RuntimeInv'
  BY <1>6, DetachKeeps
<1>7. CASE UNCHANGED runtimeVars
  BY <1>7 DEF runtimeVars, RuntimeInv, RuntimeTypeOK, Owned, Held
<1> QED BY <1>1, <1>2, <1>3, <1>4, <1>5, <1>6, <1>7 DEF RuntimeNext, EndsWaiting

LEMMA RuntimeInvariant == RuntimeSpec => []RuntimeInv
BY RuntimeInitEstablishes, RuntimeStepKeeps, PTL DEF RuntimeSpec

\* Every variable of the runtime holds a value of its type.
THEOREM RuntimeTypes == RuntimeSpec => []RuntimeTypeOK
<1>1. RuntimeInv => RuntimeTypeOK
  BY DEF RuntimeInv
<1> QED BY <1>1, RuntimeInvariant, PTL

\* The vault of a directory is open in one core at most, whatever outlives
\* its core (vault_lease, Vault::hold_runtime_lease).
THEOREM VaultHasOneOwner == RuntimeSpec => []SingleOwner
<1>1. RuntimeInv => SingleOwner
  BY DEF RuntimeInv, Owned, SingleOwner
<1> QED BY <1>1, RuntimeInvariant, PTL

\* A successful shutdown leaves no request of the listener or of the shell
\* behind, and frees the vault unless a router given away holds it, or the
\* worker of a restore whose caller went away (EmbeddedCore::shutdown,
\* restore_recovery).
THEOREM ShutdownIsComplete == RuntimeSpec => []ShutdownFrees
<1>1. ASSUME RuntimeInv, NEW c \in Core, core[c].shutdown = "ok"
      PROVE  /\ Through(c, {"api", "native"}, handler) = {}
             /\ lease = c => \/ core[c].exported
                             \/ core[c].accepting
                             \/ Through(c, {"adapter", "gateway", "worker"}, handler) # {}
  <2>1. /\ ~ core[c].alive /\ ~ core[c].server
        /\ Through(c, {"api"}, handler) = {} /\ Through(c, {"native"}, handler) = {}
    BY <1>1 DEF RuntimeInv, Good, Orderly
  <2>2. Through(c, {"api", "native"}, handler) = {}
    BY <2>1 DEF Through
  <2>3. Through(c, Via, handler) # {}
          => Through(c, {"adapter", "gateway", "worker"}, handler) # {}
    BY <2>2 DEF Through, Door, Via
  <2>4. lease = c => Uses(c, core, handler)
    BY <1>1 DEF RuntimeInv, Held
  <2> QED BY <2>1, <2>2, <2>3, <2>4 DEF Uses
<1>2. RuntimeInv => ShutdownFrees
  BY <1>1 DEF ShutdownFrees
<1> QED BY <1>2, RuntimeInvariant, PTL

\* The vault's lease has one owner at a time, and after a successful shutdown it
\* is free, but for a router given away or a restore that goes on.
THEOREM LeaseHolds == RuntimeSpec => []LeaseIsSound
<1>1. LeaseIsSound <=> SingleOwner /\ ShutdownFrees
  BY DEF LeaseIsSound
<1> QED BY <1>1, VaultHasOneOwner, ShutdownIsComplete, PTL

------------------------------------------------------------------------------
(* Weekly reports. *)

\* What was released is what the ledgers keep, one report per week.
LedgersGood ==
    /\ IsFiniteSet(released)
    /\ \A i \in Installation :
        /\ ledger[i] = {r \in released : r.from = i}
        /\ IsFiniteSet(ledger[i])
        /\ Cardinality(ledger[i]) <= Budget
        /\ \A r, q \in ledger[i] : r.week = q.week => r = q

\* Nothing travels that was not released.
TravelGood ==
    /\ \A s \in Sender : sending[s] # Resting => sending[s].report \in released
    /\ posted \subseteq released
    /\ digests \subseteq posted

SumGood(w) ==
    /\ aggregate[w].sum = {r \in digests : r.week = w}
    /\ IsFiniteSet(aggregate[w].sum)
    /\ aggregate[w].count = Cardinality(aggregate[w].sum)
    /\ ~ aggregate[w].again

SumsGood == \A w \in Week : SumGood(w)

AnalyticsInv ==
    AnalyticsTypeOK /\ LedgersGood /\ TravelGood /\ SumsGood /\ WithdrawalStops

Sendings == {Resting} \cup [at : {"prepared", "cleared", "waiting"}, report : Report]

LEMMA AnalyticsInitEstablishes == AnalyticsInit => AnalyticsInv
<1> SUFFICES ASSUME AnalyticsInit PROVE AnalyticsInv
  OBVIOUS
<1>1. AnalyticsTypeOK
  BY AnalyticsAssumption DEF AnalyticsInit, AnalyticsTypeOK, Week
<1>2. LedgersGood
  BY AnalyticsAssumption, FS_EmptySet DEF AnalyticsInit, LedgersGood
<1>3. TravelGood /\ WithdrawalStops
  BY DEF AnalyticsInit, TravelGood, WithdrawalStops, Resting
<1>4. SumsGood
  BY FS_EmptySet DEF AnalyticsInit, SumsGood, SumGood
<1> QED BY <1>1, <1>2, <1>3, <1>4 DEF AnalyticsInv

LEMMA SetConsentKeeps ==
    ASSUME AnalyticsInv, NEW i \in Installation, NEW to \in {"on", "off"}, SetConsent(i, to)
    PROVE  AnalyticsInv'
<1>1. UNCHANGED <<week, ledger, sending, released, posted, digests, aggregate>>
  BY DEF SetConsent
<1>2. consent' = [consent EXCEPT ![i] = to] /\ changes' = changes + 1
      /\ late' = IF to = "off" THEN late \cup Cleared(i) ELSE late
  BY DEF SetConsent
<1>3. AnalyticsTypeOK'
  BY <1>1, <1>2 DEF AnalyticsInv, AnalyticsTypeOK, Cleared
<1>4. LedgersGood' /\ TravelGood' /\ SumsGood'
  BY <1>1 DEF AnalyticsInv, LedgersGood, TravelGood, SumsGood, SumGood
<1>5. ASSUME NEW s \in Sender, sending[s].at = "cleared", ~ Consents(sending[s].report.from)'
      PROVE  s \in late'
  <2> DEFINE j == sending[s].report.from
  <2>1. j \in Installation
    BY <1>5 DEF AnalyticsInv, AnalyticsTypeOK, Report, Resting
  <2>2. ~ (consent'[j] = "on" \/ (consent'[j] = "unset" /\ j \in OptIn))
    BY <1>1, <1>5 DEF Consents
  <2>3. consent'[j] = IF j = i THEN to ELSE consent[j]
    BY <1>2, <2>1 DEF AnalyticsInv, AnalyticsTypeOK
  <2>4. CASE j = i
    <3>1. to = "off"
      BY <2>2, <2>3, <2>4
    <3>2. s \in Cleared(i)
      BY <1>5, <2>4 DEF Cleared
    <3> QED BY <1>2, <3>1, <3>2
  <2>5. CASE j # i
    <3>1. ~ Consents(j)
      BY <2>2, <2>3, <2>5 DEF Consents
    <3>2. s \in late
      BY <1>5, <3>1 DEF AnalyticsInv, WithdrawalStops
    <3> QED BY <1>2, <3>2
  <2> QED BY <2>4, <2>5
<1>6. WithdrawalStops'
  BY <1>1, <1>5 DEF WithdrawalStops
<1> QED BY <1>3, <1>4, <1>6 DEF AnalyticsInv

\* What prepare_report gives is kept already, or the week's first.
LEMMA PreparedReport ==
    ASSUME AnalyticsInv, NEW i \in Installation, NEW w \in Week, NEW r \in Prepared(i, w)
    PROVE  /\ r \in Report /\ r.from = i /\ r.week = w
           /\ r \notin ledger[i] => /\ Kept(i, w) = {} /\ w = week
                                    /\ Cardinality(ledger[i]) < Budget
<1>1. CASE Kept(i, w) # {}
  BY <1>1 DEF Prepared, Kept, AnalyticsInv, AnalyticsTypeOK, LedgersGood
<1>2. CASE Kept(i, w) = {}
  <2>1. r = Drawn(i, w) /\ w = week /\ Cardinality(ledger[i]) < Budget
    BY <1>2 DEF Prepared
  <2> DEFINE old == {q \in released : q.from = i /\ q.week = w}
  <2>2. old \in SUBSET released /\ IsFiniteSet(released)
    BY DEF AnalyticsInv, LedgersGood
  <2>3. IsFiniteSet(old)
    BY <2>2, FS_Subset
  <2>4. Cardinality(old) \in Nat
    BY <2>3, FS_CardinalityType
  <2> QED BY <1>2, <2>1, <2>4 DEF Drawn, Report
<1> QED BY <1>1, <1>2

LEMMA PrepareKeeps ==
    ASSUME AnalyticsInv, NEW i \in Installation, NEW w \in Week, NEW r \in Prepared(i, w),
           Prepare(i, w, r)
    PROVE  /\ LedgersGood'
           /\ ledger' \in [Installation -> SUBSET Report]
           /\ released' \subseteq Report
           /\ released \subseteq released' /\ r \in released'
<1>1. /\ r \in Report /\ r.from = i /\ r.week = w
      /\ r \notin ledger[i] => Kept(i, w) = {} /\ Cardinality(ledger[i]) < Budget
  BY PreparedReport
<1>2. ledger' = [ledger EXCEPT ![i] = ledger[i] \cup {r}] /\ released' = released \cup {r}
  BY DEF Prepare
<1>3. \A j \in Installation : ledger'[j] = IF j = i THEN ledger[i] \cup {r} ELSE ledger[j]
  BY <1>2 DEF AnalyticsInv, AnalyticsTypeOK
<1>4. ledger' \in [Installation -> SUBSET Report] /\ released' \subseteq Report
  BY <1>1, <1>2 DEF AnalyticsInv, AnalyticsTypeOK
<1>5. IsFiniteSet(released')
  BY <1>2, FS_AddElement DEF AnalyticsInv, LedgersGood
<1>6. ASSUME NEW j \in Installation, j # i
      PROVE  /\ ledger'[j] = {q \in released' : q.from = j}
             /\ IsFiniteSet(ledger'[j])
             /\ Cardinality(ledger'[j]) <= Budget
             /\ \A q, p \in ledger'[j] : q.week = p.week => q = p
  <2>1. /\ ledger'[j] = ledger[j]
        /\ ledger[j] = {q \in released : q.from = j}
        /\ IsFiniteSet(ledger[j]) /\ Cardinality(ledger[j]) <= Budget
        /\ \A q, p \in ledger[j] : q.week = p.week => q = p
    BY <1>3, <1>6 DEF AnalyticsInv, LedgersGood
  <2>2. {q \in released' : q.from = j} = {q \in released : q.from = j}
    BY <1>1, <1>2, <1>6
  <2> QED BY <2>1, <2>2
<1>7. /\ ledger'[i] = {q \in released' : q.from = i}
      /\ IsFiniteSet(ledger'[i])
      /\ Cardinality(ledger'[i]) <= Budget
      /\ \A q, p \in ledger'[i] : q.week = p.week => q = p
  <2>1. /\ ledger[i] = {q \in released : q.from = i}
        /\ IsFiniteSet(ledger[i]) /\ Cardinality(ledger[i]) <= Budget
        /\ \A q, p \in ledger[i] : q.week = p.week => q = p
    BY DEF AnalyticsInv, LedgersGood
  <2>2. ledger'[i] = ledger[i] \cup {r}
    BY <1>3
  <2>3. {q \in released' : q.from = i} = {q \in released : q.from = i} \cup {r}
    BY <1>1, <1>2
  <2>4. /\ IsFiniteSet(ledger[i] \cup {r})
        /\ Cardinality(ledger[i] \cup {r}) =
             IF r \in ledger[i] THEN Cardinality(ledger[i]) ELSE Cardinality(ledger[i]) + 1
    BY <2>1, FS_AddElement
  <2>5. Cardinality(ledger[i]) \in Nat
    BY <2>1, FS_CardinalityType
  <2>6. Cardinality(ledger[i] \cup {r}) <= Budget
    BY <1>1, <2>1, <2>4, <2>5, AnalyticsAssumption
  <2>7. \A q, p \in ledger[i] \cup {r} : q.week = p.week => q = p
    <3>1. CASE r \in ledger[i]
      BY <2>1, <3>1
    <3>2. CASE r \notin ledger[i]
      <4>1. \A q \in ledger[i] : q.week # w
        BY <1>1, <3>2 DEF Kept
      <4> QED BY <1>1, <2>1, <4>1
    <3> QED BY <3>1, <3>2
  <2> QED BY <2>1, <2>2, <2>3, <2>4, <2>6, <2>7
<1>8. LedgersGood'
  BY <1>5, <1>6, <1>7 DEF LedgersGood
<1> QED BY <1>2, <1>4, <1>8

LEMMA PrepareReportKeeps ==
    ASSUME AnalyticsInv, NEW i \in Installation, NEW w \in Week, PrepareReport(i, w)
    PROVE  AnalyticsInv'
<1>1. PICK r \in Prepared(i, w) : Prepare(i, w, r)
  BY DEF PrepareReport
<1>2. UNCHANGED <<week, consent, sending, late, posted, digests, aggregate, changes>>
  BY <1>1 DEF PrepareReport, Prepare
<1>3. /\ LedgersGood'
      /\ ledger' \in [Installation -> SUBSET Report]
      /\ released' \subseteq Report
      /\ released \subseteq released' /\ r \in released'
  BY <1>1, PrepareKeeps
<1>4. AnalyticsTypeOK'
  BY <1>2, <1>3 DEF AnalyticsInv, AnalyticsTypeOK
<1>5. TravelGood' /\ SumsGood' /\ WithdrawalStops'
  BY <1>2, <1>3 DEF AnalyticsInv, TravelGood, SumsGood, SumGood, WithdrawalStops, Consents
<1> QED BY <1>3, <1>4, <1>5 DEF AnalyticsInv

LEMMA SendReportKeeps ==
    ASSUME AnalyticsInv, NEW s \in Sender, NEW i \in Installation, NEW w \in Week,
           SendReport(s, i, w)
    PROVE  AnalyticsInv'
<1>1. PICK r \in Prepared(i, w) :
        /\ Prepare(i, w, r)
        /\ sending' = [sending EXCEPT ![s] = [at |-> "prepared", report |-> r]]
  BY DEF SendReport
<1>2. UNCHANGED <<week, consent, late, posted, digests, aggregate, changes>>
  BY <1>1 DEF SendReport, Prepare
<1>3. /\ LedgersGood'
      /\ ledger' \in [Installation -> SUBSET Report]
      /\ released' \subseteq Report
      /\ released \subseteq released' /\ r \in released'
  BY <1>1, PrepareKeeps
<1>4. r \in Report
  BY PreparedReport
<1> DEFINE new == [at |-> "prepared", report |-> r]
<1>5. new \in Sendings /\ new.at = "prepared" /\ new.report = r
  BY <1>4 DEF Sendings
<1>6. sending \in [Sender -> Sendings] /\ sending' = [sending EXCEPT ![s] = new]
  BY <1>1 DEF AnalyticsInv, AnalyticsTypeOK, Sendings
<1> HIDE DEF new
<1>7. /\ sending' \in [Sender -> Sendings]
      /\ \A t \in Sender : sending'[t] = IF t = s THEN new ELSE sending[t]
  BY <1>5, <1>6
<1>8. AnalyticsTypeOK'
  BY <1>2, <1>3, <1>7 DEF AnalyticsInv, AnalyticsTypeOK, Sendings
<1>9. TravelGood'
  BY <1>2, <1>3, <1>5, <1>7 DEF AnalyticsInv, TravelGood
<1>10. SumsGood'
  BY <1>2 DEF AnalyticsInv, SumsGood, SumGood
<1>11. WithdrawalStops'
  BY <1>2, <1>5, <1>7 DEF AnalyticsInv, WithdrawalStops, Consents
<1> QED BY <1>3, <1>8, <1>9, <1>10, <1>11 DEF AnalyticsInv

\* A handler that goes on with the report it has, or comes to rest.
LEMMA SenderStepKeeps ==
    ASSUME AnalyticsInv, NEW s \in Sender, Recheck(s) \/ Post(s) \/ EndSending(s)
    PROVE  AnalyticsInv'
<1>1. UNCHANGED <<week, consent, ledger, released, digests, aggregate, changes>>
  BY DEF Recheck, Post, EndSending
<1>2. /\ sending[s] \in [at : {"prepared", "cleared", "waiting"}, report : Report]
      /\ sending[s] # Resting
      /\ sending \in [Sender -> Sendings]
  <2>1. sending \in [Sender -> Sendings]
    BY DEF AnalyticsInv, AnalyticsTypeOK, Sendings
  <2>2. sending[s] # Resting
    BY DEF Recheck, Post, EndSending, Resting
  <2> QED BY <2>1, <2>2 DEF Sendings
<1>3. sending[s].report \in released
  BY <1>2 DEF AnalyticsInv, TravelGood
<1>4. /\ posted \subseteq posted' /\ posted' \subseteq released
      /\ late' \subseteq late /\ \A t \in Sender \ {s} : t \in late => t \in late'
  BY <1>3 DEF AnalyticsInv, TravelGood, Recheck, Post, EndSending
<1>5. PICK new \in Sendings :
        /\ sending' = [sending EXCEPT ![s] = new]
        /\ new # Resting => new.report = sending[s].report
        /\ new.at = "cleared" => Consents(sending[s].report.from)
  <2>0. Resting \in Sendings /\ Resting.at # "cleared"
    BY DEF Sendings, Resting
  <2>1. CASE Recheck(s)
    <3>1. CASE Consents(sending[s].report.from)
      <4> DEFINE n == [sending[s] EXCEPT !.at = "cleared"]
      <4>1. n \in Sendings /\ n.report = sending[s].report
        BY <1>2 DEF Sendings
      <4>2. sending' = [sending EXCEPT ![s] = n]
        BY <2>1, <3>1 DEF Recheck
      <4> QED BY <3>1, <4>1, <4>2
    <3>2. CASE ~ Consents(sending[s].report.from)
      <4>1. sending' = [sending EXCEPT ![s] = Resting]
        BY <2>1, <3>2 DEF Recheck
      <4> QED BY <2>0, <4>1
    <3> QED BY <3>1, <3>2
  <2>2. CASE Post(s)
    <3> DEFINE n == [sending[s] EXCEPT !.at = "waiting"]
    <3>1. n \in Sendings /\ n.report = sending[s].report /\ n.at = "waiting"
      BY <1>2 DEF Sendings
    <3>2. sending' = [sending EXCEPT ![s] = n]
      BY <2>2 DEF Post
    <3> QED BY <3>1, <3>2
  <2>3. CASE EndSending(s)
    <3>1. sending' = [sending EXCEPT ![s] = Resting]
      BY <2>3 DEF EndSending
    <3> QED BY <2>0, <3>1
  <2> QED BY <2>1, <2>2, <2>3
<1>6. /\ sending' \in [Sender -> Sendings]
      /\ \A t \in Sender : sending'[t] = IF t = s THEN new ELSE sending[t]
  BY <1>2, <1>5
<1>7. AnalyticsTypeOK'
  BY <1>1, <1>4, <1>6 DEF AnalyticsInv, AnalyticsTypeOK, Sendings
<1>8. LedgersGood' /\ SumsGood'
  BY <1>1 DEF AnalyticsInv, LedgersGood, SumsGood, SumGood
<1>9. TravelGood'
  <2>1. \A t \in Sender : sending'[t] # Resting => sending'[t].report \in released
    BY <1>3, <1>5, <1>6 DEF AnalyticsInv, TravelGood
  <2> QED BY <1>1, <1>4, <2>1 DEF AnalyticsInv, TravelGood
<1>10. WithdrawalStops'
  <2>1. ASSUME NEW t \in Sender, sending'[t].at = "cleared",
               ~ Consents(sending'[t].report.from)
        PROVE  t \in late'
    <3>1. t # s
      BY <1>5, <1>6, <2>1 DEF Resting
    <3> QED BY <1>4, <1>6, <2>1, <3>1 DEF AnalyticsInv, WithdrawalStops
  <2> QED BY <1>1, <2>1 DEF WithdrawalStops, Consents
<1> QED BY <1>7, <1>8, <1>9, <1>10 DEF AnalyticsInv

LEMMA ArriveKeeps ==
    ASSUME AnalyticsInv, NEW r \in posted, Arrive(r) PROVE AnalyticsInv'
<1>1. /\ UNCHANGED <<week, consent, ledger, sending, released, late, posted, changes>>
      /\ r \notin digests /\ digests' = digests \cup {r}
      /\ aggregate' = [aggregate EXCEPT ![r.week] = Added(aggregate[r.week], r)]
  BY DEF Arrive
<1>2. r \in Report /\ r.week \in Week
  BY DEF AnalyticsInv, AnalyticsTypeOK, Report
<1> DEFINE a == aggregate[r.week]
           b == Added(a, r)
<1>3. /\ SumGood(r.week)
      /\ a \in [count : Nat, sum : SUBSET Report, again : BOOLEAN]
  BY <1>2 DEF AnalyticsInv, AnalyticsTypeOK, SumsGood
<1>4. r \notin a.sum /\ IsFiniteSet(a.sum) /\ a.count = Cardinality(a.sum) /\ ~ a.again
  BY <1>1, <1>3 DEF SumGood
<1>5. /\ b \in [count : Nat, sum : SUBSET Report, again : BOOLEAN]
      /\ b.sum = a.sum \cup {r} /\ b.count = a.count + 1 /\ ~ b.again
  BY <1>2, <1>3, <1>4 DEF Added
<1>6. IsFiniteSet(b.sum) /\ b.count = Cardinality(b.sum)
  BY <1>4, <1>5, FS_AddElement
<1>7. aggregate \in [Week -> [count : Nat, sum : SUBSET Report, again : BOOLEAN]]
  BY DEF AnalyticsInv, AnalyticsTypeOK
<1> HIDE DEF b
<1>8. /\ aggregate' \in [Week -> [count : Nat, sum : SUBSET Report, again : BOOLEAN]]
      /\ \A w \in Week : aggregate'[w] = IF w = r.week THEN b ELSE aggregate[w]
  BY <1>1, <1>2, <1>5, <1>7 DEF b
<1>9. AnalyticsTypeOK'
  BY <1>1, <1>2, <1>8 DEF AnalyticsInv, AnalyticsTypeOK
<1>10. LedgersGood' /\ WithdrawalStops' /\ TravelGood'
  BY <1>1 DEF AnalyticsInv, LedgersGood, WithdrawalStops, TravelGood, Consents
<1>11. ASSUME NEW w \in Week PROVE SumGood(w)'
  <2>1. CASE w = r.week
    <3>1. b.sum = {q \in digests' : q.week = w}
      BY <1>1, <1>3, <1>5, <2>1 DEF SumGood
    <3> QED BY <1>5, <1>6, <1>8, <2>1, <3>1 DEF SumGood
  <2>2. CASE w # r.week
    <3>1. {q \in digests' : q.week = w} = {q \in digests : q.week = w}
      BY <1>1, <2>2
    <3>2. SumGood(w) /\ aggregate'[w] = aggregate[w]
      BY <1>8, <2>2 DEF AnalyticsInv, SumsGood
    <3> QED BY <3>1, <3>2 DEF SumGood
  <2> QED BY <2>1, <2>2
<1>12. SumsGood'
  BY <1>11 DEF SumsGood
<1> QED BY <1>9, <1>10, <1>12 DEF AnalyticsInv

LEMMA NextWeekKeeps == ASSUME AnalyticsInv, NextWeek PROVE AnalyticsInv'
<1>1. AnalyticsTypeOK'
  BY AnalyticsAssumption DEF AnalyticsInv, AnalyticsTypeOK, NextWeek, Week
<1>2. LedgersGood' /\ TravelGood' /\ SumsGood' /\ WithdrawalStops'
  BY DEF AnalyticsInv, LedgersGood, TravelGood, SumsGood, SumGood, WithdrawalStops,
         Consents, NextWeek
<1> QED BY <1>1, <1>2 DEF AnalyticsInv

LEMMA AnalyticsStepKeeps == AnalyticsInv /\ [AnalyticsNext]_analyticsVars => AnalyticsInv'
<1> SUFFICES ASSUME AnalyticsInv, [AnalyticsNext]_analyticsVars PROVE AnalyticsInv'
  OBVIOUS
<1>1. ASSUME NEW i \in Installation, NEW to \in {"on", "off"}, SetConsent(i, to)
      PROVE  AnalyticsInv'
  BY <1>1, SetConsentKeeps
<1>2. ASSUME NEW i \in Installation, NEW w \in Week, PrepareReport(i, w)
      PROVE  AnalyticsInv'
  BY <1>2, PrepareReportKeeps
<1>3. ASSUME NEW s \in Sender, NEW i \in Installation, NEW w \in Week, SendReport(s, i, w)
      PROVE  AnalyticsInv'
  BY <1>3, SendReportKeeps
<1>4. ASSUME NEW s \in Sender, Recheck(s) \/ Post(s) \/ EndSending(s) PROVE AnalyticsInv'
  BY <1>4, SenderStepKeeps
<1>5. ASSUME NEW r \in posted, Arrive(r) PROVE AnalyticsInv'
  BY <1>5, ArriveKeeps
<1>6. CASE NextWeek
  BY <1>6, NextWeekKeeps
<1>7. CASE UNCHANGED analyticsVars
  BY <1>7 DEF analyticsVars, AnalyticsInv, AnalyticsTypeOK, LedgersGood, TravelGood,
              SumsGood, SumGood, WithdrawalStops, Consents
<1> QED BY <1>1, <1>2, <1>3, <1>4, <1>5, <1>6, <1>7 DEF AnalyticsNext

LEMMA AnalyticsInvariant == AnalyticsSpec => []AnalyticsInv
BY AnalyticsInitEstablishes, AnalyticsStepKeeps, PTL DEF AnalyticsSpec

\* Every variable of the weekly reports holds a value of its type.
THEOREM AnalyticsTypes == AnalyticsSpec => []AnalyticsTypeOK
<1>1. AnalyticsInv => AnalyticsTypeOK
  BY DEF AnalyticsInv
<1> QED BY <1>1, AnalyticsInvariant, PTL

\* One randomized output per installation and week leaves a vault, and
\* Budget of them ever (prepare_report).
THEOREM OneReportPerWeek == AnalyticsSpec => []OneRelease
<1>1. ASSUME AnalyticsInv PROVE OneRelease
  <2>1. ASSUME NEW r \in released, NEW q \in released, r.from = q.from, r.week = q.week
        PROVE  r = q
    <3>1. r.from \in Installation
      BY <1>1 DEF AnalyticsInv, AnalyticsTypeOK, Report
    <3>2. r \in ledger[r.from] /\ q \in ledger[r.from]
      BY <1>1, <2>1, <3>1 DEF AnalyticsInv, LedgersGood
    <3> QED BY <1>1, <2>1, <3>1, <3>2 DEF AnalyticsInv, LedgersGood
  <2>2. \A i \in Installation : Cardinality({r \in released : r.from = i}) <= Budget
    BY <1>1 DEF AnalyticsInv, LedgersGood
  <2> QED BY <2>1, <2>2 DEF OneRelease
<1> QED BY <1>1, AnalyticsInvariant, PTL

\* Without consent a report goes out only from a handler that was past its
\* last look at it (send_report).
THEOREM WithdrawalIsFinal == AnalyticsSpec => []WithdrawalStops
<1>1. AnalyticsInv => WithdrawalStops
  BY DEF AnalyticsInv
<1> QED BY <1>1, AnalyticsInvariant, PTL

\* The collector counts different released reports, each once, and
\* publishes no week from fewer than Minimum (store.add, snapshot).
THEOREM ReportsCountOnce == AnalyticsSpec => []CountedOnce
<1>1. ASSUME AnalyticsInv PROVE CountedOnce
  <2>1. ASSUME NEW w \in Week
        PROVE  /\ aggregate[w].count = Cardinality(aggregate[w].sum)
               /\ ~ aggregate[w].again
               /\ aggregate[w].sum \subseteq {r \in released : r.week = w}
    <3>1. SumGood(w)
      BY <1>1 DEF AnalyticsInv, SumsGood
    <3>2. digests \subseteq released
      BY <1>1 DEF AnalyticsInv, TravelGood
    <3> QED BY <3>1, <3>2 DEF SumGood
  <2>2. ASSUME NEW w \in Published
        PROVE  Cardinality({r \in released : r.week = w}) >= Minimum
    <3> DEFINE all == {r \in released : r.week = w}
    <3>1. w \in Week /\ aggregate[w].count >= Minimum
      BY DEF Published, Newest
    <3>2. aggregate[w].sum \in SUBSET all
      BY <2>1, <3>1
    <3>3. all \in SUBSET released /\ IsFiniteSet(released)
      BY <1>1 DEF AnalyticsInv, LedgersGood
    <3> HIDE DEF all
    <3>4. IsFiniteSet(all)
      BY <3>3, FS_Subset
    <3>5. Cardinality(aggregate[w].sum) <= Cardinality(all) /\ Cardinality(all) \in Nat
      BY <3>2, <3>4, FS_Subset, FS_CardinalityType
    <3>6. aggregate[w].count = Cardinality(aggregate[w].sum) /\ aggregate[w].count \in Nat
      BY <1>1, <2>1, <3>1 DEF AnalyticsInv, AnalyticsTypeOK
    <3> QED BY <3>1, <3>5, <3>6, AnalyticsAssumption DEF all
  <2> QED BY <2>1, <2>2 DEF CountedOnce
<1> QED BY <1>1, AnalyticsInvariant, PTL

\* Reports are drawn once, sent under consent and counted once.
THEOREM ReportsKeepTheirPromise == AnalyticsSpec => []ReportsAreHonest
<1>1. ReportsAreHonest <=> OneRelease /\ WithdrawalStops /\ CountedOnce
  BY DEF ReportsAreHonest
<1> QED BY <1>1, OneReportPerWeek, WithdrawalIsFinal, ReportsCountOnce, PTL

------------------------------------------------------------------------------
(* The installations and the collector implement the survey.               *)

ClearedNow == {sending[s].report : s \in {t \in Sender : sending[t].at = "cleared"}}

PublicNow == [w \in Week |-> [count |-> aggregate[w].count, reports |-> aggregate[w].sum]]

LEMMA Seen ==
    ASSUME AnalyticsInv
    PROVE  /\ sending \in [Sender -> Sendings]
           /\ Resting \in Sendings /\ Resting.at = "resting"
           /\ posted \subseteq released
           /\ \A s \in Sender : sending[s] # Resting =>
                /\ sending[s].report \in released
                /\ sending[s].report.from \in Installation
<1>1. sending \in [Sender -> Sendings] /\ released \subseteq Report
  BY DEF AnalyticsInv, AnalyticsTypeOK, Sendings
<1>2. TravelGood
  BY DEF AnalyticsInv
<1> QED BY <1>1, <1>2 DEF TravelGood, Sendings, Resting, Report

\* A handler that moves changes what is cleared only by its own report.
LEMMA ClearedAfter ==
    ASSUME sending \in [Sender -> Sendings], NEW s \in Sender, NEW new,
           sending' = [sending EXCEPT ![s] = new]
    PROVE  /\ sending[s].at # "cleared" /\ new.at # "cleared" => ClearedNow' = ClearedNow
           /\ sending[s].at # "cleared" /\ new.at = "cleared"
                => ClearedNow' = ClearedNow \cup {new.report}
           /\ sending[s].at = "cleared" /\ new.at # "cleared"
                => ClearedNow' \in {ClearedNow, ClearedNow \ {sending[s].report}}
<1> DEFINE Others == {sending[t].report : t \in {u \in Sender \ {s} : sending[u].at = "cleared"}}
<1>1. \A t \in Sender : sending'[t] = IF t = s THEN new ELSE sending[t]
  OBVIOUS
<1>2. ClearedNow = IF sending[s].at = "cleared" THEN Others \cup {sending[s].report}
                                                ELSE Others
  BY DEF ClearedNow
<1>3. ClearedNow' = IF new.at = "cleared" THEN Others \cup {new.report} ELSE Others
  BY <1>1 DEF ClearedNow
<1> HIDE DEF Others
<1> QED BY <1>2, <1>3

SpentNow == [i \in Installation |-> Cardinality(ledger[i])]

LEMMA Draws ==
    ASSUME AnalyticsInv, NEW i \in Installation, NEW w \in Week, NEW r \in Prepared(i, w),
           Prepare(i, w, r), ClearedNow' = ClearedNow
    PROVE  [Reports!SurveyNext]_(Reports!surveyVars)
<1>1. /\ r \in Report /\ r.from = i /\ r.week = w
      /\ r \notin ledger[i] => /\ Kept(i, w) = {} /\ w = week
                               /\ Cardinality(ledger[i]) < Budget
  BY PreparedReport
<1>2. /\ UNCHANGED <<week, consent, posted, aggregate>> /\ released' = released \cup {r}
      /\ ledger' = [ledger EXCEPT ![i] = ledger[i] \cup {r}] /\ Consents(i)
  BY DEF Prepare
<1>3. /\ ledger[i] = {q \in released : q.from = i} /\ IsFiniteSet(ledger[i])
      /\ ledger \in [Installation -> SUBSET Report]
  BY DEF AnalyticsInv, LedgersGood, AnalyticsTypeOK
<1>4. CASE r \in ledger[i]
  <2>1. released' = released /\ ledger' = ledger
    BY <1>2, <1>3, <1>4
  <2> QED BY <1>2, <2>1 DEF Reports!surveyVars, ClearedNow, Consents
<1>5. CASE r \notin ledger[i]
  <2>1. r \in released' \ released
    BY <1>1, <1>2, <1>3, <1>5
  <2>2. \A q \in released : q.from = i => q.week # week
    BY <1>1, <1>3, <1>5 DEF Kept
  <2>3. SpentNow[i] = Cardinality(ledger[i]) /\ SpentNow[i] < Budget
    BY <1>1, <1>5 DEF SpentNow
  <2>4. Cardinality(ledger[i] \cup {r}) = SpentNow[i] + 1
    BY <1>3, <1>5, <2>3, FS_AddElement
  <2>5. \A j \in Installation :
          SpentNow'[j] = IF j = i THEN SpentNow[i] + 1 ELSE SpentNow[j]
    BY <1>2, <1>3, <2>4 DEF SpentNow
  <2>6. SpentNow' = [SpentNow EXCEPT ![i] = SpentNow[i] + 1]
    BY <2>5 DEF SpentNow
  <2>7. Reports!Draw(r)
    BY <1>1, <1>2, <1>5, <2>2, <2>3, <2>6
    DEF Reports!Draw, ClearedNow, SpentNow, Consents
  <2> QED BY <2>1, <2>7 DEF Reports!SurveyNext
<1> QED BY <1>4, <1>5

LEMMA PrepareIsSurvey ==
    ASSUME AnalyticsInv, NEW i \in Installation, NEW w \in Week,
           PrepareReport(i, w) \/ \E s \in Sender : SendReport(s, i, w)
    PROVE  [Reports!SurveyNext]_(Reports!surveyVars)
<1>1. CASE PrepareReport(i, w)
  <2>1. PICK r \in Prepared(i, w) : Prepare(i, w, r)
    BY <1>1 DEF PrepareReport
  <2>2. ClearedNow' = ClearedNow
    BY <1>1 DEF PrepareReport, ClearedNow
  <2> QED BY <2>1, <2>2, Draws
<1>2. ASSUME NEW s \in Sender, SendReport(s, i, w)
      PROVE  [Reports!SurveyNext]_(Reports!surveyVars)
  <2>1. PICK r \in Prepared(i, w) :
          /\ Prepare(i, w, r)
          /\ sending' = [sending EXCEPT ![s] = [at |-> "prepared", report |-> r]]
    BY <1>2 DEF SendReport
  <2>2. sending[s].at = "resting" /\ sending \in [Sender -> Sendings]
    BY <1>2, Seen DEF SendReport
  <2>3. ClearedNow' = ClearedNow
    BY <2>1, <2>2, ClearedAfter
  <2> QED BY <2>1, <2>3, Draws
<1> QED BY <1>1, <1>2

LEMMA SenderIsSurvey ==
    ASSUME AnalyticsInv, NEW s \in Sender, Recheck(s) \/ Post(s) \/ EndSending(s)
    PROVE  [Reports!SurveyNext]_(Reports!surveyVars)
<1>a. PICK r : r = sending[s].report
  OBVIOUS
<1> USE <1>a
<1>0. UNCHANGED <<week, consent, ledger, released, aggregate>>
  BY DEF Recheck, Post, EndSending
<1>1. sending \in [Sender -> Sendings] /\ sending[s] \in Sendings
  BY Seen
<1>2. r \in released /\ r.from \in Installation
  BY Seen DEF Recheck, Post, EndSending, Resting
<1>3. CASE Recheck(s) /\ Consents(r.from)
  <2> DEFINE new == [sending[s] EXCEPT !.at = "cleared"]
  <2>1. sending' = [sending EXCEPT ![s] = new] /\ sending[s].at # "cleared"
        /\ posted' = posted
    BY <1>3 DEF Recheck
  <2>2. new.at = "cleared" /\ new.report = r
    BY <1>1, <1>3 DEF Recheck, Sendings, Resting
  <2> HIDE DEF new
  <2>3. ClearedNow' = ClearedNow \cup {r}
    BY <1>1, <2>1, <2>2, ClearedAfter
  <2>4. Reports!Clear(r)
    BY <1>0, <1>2, <1>3, <2>1, <2>3 DEF Reports!Clear, ClearedNow, Consents
  <2> QED BY <1>2, <2>4 DEF Reports!SurveyNext
<1>4. CASE Recheck(s) /\ ~ Consents(r.from)
  <2>1. sending' = [sending EXCEPT ![s] = Resting] /\ sending[s].at # "cleared"
        /\ posted' = posted
    BY <1>4 DEF Recheck
  <2>2. ClearedNow' = ClearedNow
    BY <1>1, <2>1, ClearedAfter DEF Resting
  <2> QED BY <1>0, <2>1, <2>2 DEF Reports!surveyVars, ClearedNow, Consents
<1>5. CASE Post(s)
  <2> DEFINE new == [sending[s] EXCEPT !.at = "waiting"]
  <2>1. sending' = [sending EXCEPT ![s] = new] /\ sending[s].at = "cleared"
        /\ posted' = posted \cup {r}
    BY <1>5 DEF Post
  <2>2. new.at # "cleared"
    BY <1>1, <2>1 DEF Sendings, Resting
  <2> HIDE DEF new
  <2>3. ClearedNow' \in {ClearedNow, ClearedNow \ {r}}
    BY <1>1, <2>1, <2>2, ClearedAfter
  <2>4. r \in ClearedNow
    BY <2>1 DEF ClearedNow
  <2>5. Reports!Send(r)
    BY <1>0, <2>1, <2>3 DEF Reports!Send, ClearedNow, Consents
  <2> QED BY <2>4, <2>5 DEF Reports!SurveyNext, ClearedNow
<1>6. CASE EndSending(s)
  <2>1. sending' = [sending EXCEPT ![s] = Resting] /\ posted' = posted
    BY <1>6 DEF EndSending
  <2>2. CASE sending[s].at # "cleared"
    <3>1. ClearedNow' = ClearedNow
      BY <1>1, <2>1, <2>2, ClearedAfter DEF Resting
    <3> QED BY <1>0, <2>1, <3>1 DEF Reports!surveyVars, ClearedNow, Consents
  <2>3. CASE sending[s].at = "cleared"
    <3>0. Resting.at # "cleared"
      BY DEF Resting
    <3>1. ClearedNow' \in {ClearedNow, ClearedNow \ {r}}
      BY <1>1, <2>1, <2>3, <3>0, ClearedAfter
    <3>2. r \in ClearedNow
      BY <2>3 DEF ClearedNow
    <3>3. CASE ClearedNow' = ClearedNow
      BY <1>0, <2>1, <3>3 DEF Reports!surveyVars, ClearedNow, Consents
    <3>4. CASE ClearedNow' = ClearedNow \ {r}
      <4>1. Reports!Withdraw(r)
        BY <1>0, <2>1, <3>4 DEF Reports!Withdraw, ClearedNow, Consents
      <4> QED BY <3>2, <4>1 DEF Reports!SurveyNext, ClearedNow
    <3> QED BY <3>1, <3>3, <3>4
  <2> QED BY <2>2, <2>3
<1> QED BY <1>3, <1>4, <1>5, <1>6

LEMMA ArriveIsSurvey ==
    ASSUME AnalyticsInv, NEW r \in posted, Arrive(r)
    PROVE  Reports!Count(r)
<1>1. /\ UNCHANGED <<week, consent, ledger, sending, released, posted>>
      /\ r.week \in {week, week - 1} /\ r \notin digests
      /\ aggregate' = [aggregate EXCEPT ![r.week] = Added(aggregate[r.week], r)]
  BY DEF Arrive
<1>2. r.week \in Week /\ SumGood(r.week)
      /\ aggregate \in [Week -> [count : Nat, sum : SUBSET Report, again : BOOLEAN]]
  BY DEF AnalyticsInv, AnalyticsTypeOK, SumsGood, Report
<1>3. r \notin aggregate[r.week].sum
  BY <1>1, <1>2 DEF SumGood
<1> DEFINE more == [count |-> PublicNow[r.week].count + 1,
                    reports |-> PublicNow[r.week].reports \cup {r}]
<1>4. \A w \in Week : PublicNow'[w] = IF w = r.week THEN more ELSE PublicNow[w]
  BY <1>1, <1>2 DEF PublicNow, Added
<1>5. PublicNow' = [PublicNow EXCEPT ![r.week] = more]
  <2> HIDE DEF more
  <2>1. PublicNow \in [Week -> {PublicNow[w] : w \in Week}]
        /\ PublicNow' = [w \in Week |-> PublicNow'[w]]
    BY DEF PublicNow
  <2> QED BY <1>4, <2>1
<1>6. r \notin PublicNow[r.week].reports
  BY <1>2, <1>3 DEF PublicNow
<1> QED BY <1>1, <1>5, <1>6 DEF Reports!Count, PublicNow, Consents

LEMMA SurveyStep ==
    ASSUME AnalyticsInv, [AnalyticsNext]_analyticsVars
    PROVE  [Reports!SurveyNext]_(Reports!surveyVars)
<1>1. ASSUME NEW i \in Installation, NEW to \in {"on", "off"}, SetConsent(i, to)
      PROVE  Reports!SurveyNext
  <2>1. Reports!Decide
    BY <1>1 DEF SetConsent, Reports!Decide
  <2> QED BY <2>1 DEF Reports!SurveyNext
<1>2. ASSUME NEW i \in Installation, NEW w \in Week,
             PrepareReport(i, w) \/ \E s \in Sender : SendReport(s, i, w)
      PROVE  [Reports!SurveyNext]_(Reports!surveyVars)
  BY <1>2, PrepareIsSurvey
<1>3. ASSUME NEW s \in Sender, Recheck(s) \/ Post(s) \/ EndSending(s)
      PROVE  [Reports!SurveyNext]_(Reports!surveyVars)
  BY <1>3, SenderIsSurvey
<1>4. ASSUME NEW r \in posted, Arrive(r) PROVE Reports!SurveyNext
  BY <1>4, ArriveIsSurvey DEF Reports!SurveyNext
<1>5. CASE NextWeek
  BY <1>5 DEF NextWeek, Reports!SurveyNext, Reports!WeekPasses, Consents
<1>6. CASE UNCHANGED analyticsVars
  BY <1>6 DEF analyticsVars, Reports!surveyVars, Consents
<1> QED BY <1>1, <1>2, <1>3, <1>4, <1>5, <1>6 DEF AnalyticsNext

\* Drawn once a week under consent, sent under consent, counted once: what
\* owners, senders, late requests and the collector do together is a survey
\* (ImplementsSurvey).
THEOREM ReportsAreASurvey == AnalyticsSpec => ImplementsSurvey
<1>1. AnalyticsInit => Reports!SurveyInit
  BY FS_EmptySet DEF AnalyticsInit, Resting, Reports!SurveyInit
<1>2. AnalyticsInv /\ [AnalyticsNext]_analyticsVars
        => [Reports!SurveyNext]_(Reports!surveyVars)
  BY SurveyStep
<1> QED BY <1>1, <1>2, AnalyticsInvariant, PTL
        DEF AnalyticsSpec, Reports!SurveySpec, ImplementsSurvey

------------------------------------------------------------------------------
(* The histograms.  First the arithmetic of shares, then the rows. *)

Counts == [Bin -> Nat]

\* What division leaves over is less than the divisor.
LEMMA Division ==
    ASSUME NEW a \in Nat, NEW n \in Nat \ {0}
    PROVE  /\ a \div n \in Nat
           /\ n * (a \div n) <= a
           /\ a - n * (a \div n) <= n - 1
OBVIOUS

LEMMA Cancel ==
    ASSUME NEW n \in Nat \ {0}, NEW s \in Nat, NEW w \in Nat, n * s <= n * w
    PROVE  s <= w
<1> SUFFICES ASSUME s >= w + 1 PROVE FALSE
  OBVIOUS
<1>1. n * s >= n * (w + 1)
  OBVIOUS
<1>2. n * (w + 1) = n * w + n
  OBVIOUS
<1> QED BY <1>1, <1>2

LEMMA TotalIsNat ==
    ASSUME NEW c \in Counts
    PROVE  Total(c) \in Nat /\ \A b \in Bin : c[b] \in Nat /\ c[b] <= Total(c)
BY DEF Counts, Bin, Total

\* A row more, or a row that changes bins, in the sum.
LEMMA TotalOfUpdate ==
    ASSUME NEW c \in Counts, NEW b \in Bin, NEW x \in Nat
    PROVE  /\ [c EXCEPT ![b] = x] \in Counts
           /\ Total([c EXCEPT ![b] = x]) = Total(c) - c[b] + x
BY DEF Counts, Bin, Total

\* Shares rounded down do not exceed the whole.
LEMMA SharesFit ==
    ASSUME NEW c \in Counts, Total(c) # 0
    PROVE  /\ Shares(c) \in Counts
           /\ Total(Shares(c)) <= Whole
           /\ \A b \in Bin : /\ Shares(c)[b] * Total(c) <= c[b] * Whole
                             /\ c[b] * Whole - Shares(c)[b] * Total(c) <= Total(c) - 1
<1> DEFINE n == Total(c)
           s == Shares(c)
<1>1. n \in Nat \ {0} /\ \A b \in Bin : c[b] \in Nat
  BY TotalIsNat
<1>2. ASSUME NEW b \in Bin
      PROVE  /\ s[b] \in Nat
             /\ n * s[b] <= c[b] * Whole
             /\ c[b] * Whole - n * s[b] <= n - 1
  <2>1. c[b] * Whole \in Nat /\ s[b] = (c[b] * Whole) \div n
    BY <1>1 DEF Shares, Share, Whole
  <2> HIDE DEF n, s
  <2> QED BY <1>1, <2>1, Division
<1>3. s \in Counts
  BY <1>2 DEF Counts, Shares
<1>4. n * Total(s) = n * s[0] + n * s[1] + n * s[2] + n * s[3]
                       + n * s[4] + n * s[5] + n * s[6] + n * s[7]
  <2>1. /\ s[0] \in Nat /\ s[1] \in Nat /\ s[2] \in Nat /\ s[3] \in Nat
        /\ s[4] \in Nat /\ s[5] \in Nat /\ s[6] \in Nat /\ s[7] \in Nat
    BY <1>2 DEF Bin
  <2>2. Total(s) = s[0] + s[1] + s[2] + s[3] + s[4] + s[5] + s[6] + s[7]
    BY DEF Total
  <2> HIDE DEF n, s
  <2>3. ASSUME NEW m \in Nat,
               NEW a0 \in Nat, NEW a1 \in Nat, NEW a2 \in Nat, NEW a3 \in Nat,
               NEW a4 \in Nat, NEW a5 \in Nat, NEW a6 \in Nat, NEW a7 \in Nat
        PROVE  m * (a0 + a1 + a2 + a3 + a4 + a5 + a6 + a7)
                 = m * a0 + m * a1 + m * a2 + m * a3 + m * a4 + m * a5 + m * a6 + m * a7
    OBVIOUS
  <2> QED BY <1>1, <2>1, <2>2, <2>3
<1>5. Whole * n = c[0] * Whole + c[1] * Whole + c[2] * Whole + c[3] * Whole
                    + c[4] * Whole + c[5] * Whole + c[6] * Whole + c[7] * Whole
  <2>1. n = c[0] + c[1] + c[2] + c[3] + c[4] + c[5] + c[6] + c[7]
    BY DEF Total
  <2>2. c[0] \in Nat /\ c[1] \in Nat /\ c[2] \in Nat /\ c[3] \in Nat
        /\ c[4] \in Nat /\ c[5] \in Nat /\ c[6] \in Nat /\ c[7] \in Nat
    BY <1>1 DEF Bin
  <2> HIDE DEF n
  <2> QED BY <2>1, <2>2 DEF Whole
<1>6. n * Total(s) <= n * Whole
  <2>1. \A b \in Bin : /\ n * s[b] \in Nat
                      /\ c[b] * Whole \in Nat
                      /\ n * s[b] <= c[b] * Whole
    BY <1>1, <1>2 DEF Whole
  <2>2. Whole * n = n * Whole
    BY <1>1 DEF Whole
  <2> DEFINE x(b) == n * s[b]
             y(b) == c[b] * Whole
  <2>3. \A b \in Bin : x(b) \in Nat /\ y(b) \in Nat /\ x(b) <= y(b)
    BY <2>1
  <2>4. /\ n * Total(s) = x(0) + x(1) + x(2) + x(3) + x(4) + x(5) + x(6) + x(7)
        /\ Whole * n = y(0) + y(1) + y(2) + y(3) + y(4) + y(5) + y(6) + y(7)
    BY <1>4, <1>5
  <2> HIDE DEF x, y, n, s
  <2> QED BY <2>2, <2>3, <2>4 DEF Bin
<1>7. Total(s) <= Whole
  <2>1. Total(s) \in Nat /\ Whole \in Nat
    BY <1>3, TotalIsNat DEF Whole
  <2> HIDE DEF n, s
  <2> QED BY <1>1, <1>6, <2>1, Cancel
<1>8. ASSUME NEW b \in Bin
      PROVE  /\ s[b] * n <= c[b] * Whole
             /\ c[b] * Whole - s[b] * n <= n - 1
  <2>1. s[b] * n = n * s[b]
    BY <1>1, <1>2
  <2> QED BY <1>2, <2>1
<1> QED BY <1>3, <1>7, <1>8

\* Every histogram of counts is one whole without negative parts.
LEMMA QuantizedIsWhole ==
    ASSUME NEW c \in Counts
    PROVE  Quantized(c) \in Counts /\ Total(Quantized(c)) = Whole
<1>1. CASE Total(c) = 0
  BY <1>1 DEF Quantized, Empty, Counts, Bin, Total, Whole
<1>2. CASE Total(c) # 0
  <2> DEFINE s == Shares(c)
  <2>1. s \in Counts /\ Total(s) \in Nat /\ Total(s) <= Whole /\ s[1] \in Nat
    BY <1>2, SharesFit, TotalIsNat DEF Bin
  <2>2. Quantized(c) = [s EXCEPT ![1] = s[1] + Whole - Total(s)]
    BY <1>2 DEF Quantized
  <2>3. s[1] + Whole - Total(s) \in Nat /\ 1 \in Bin
    BY <2>1 DEF Whole, Bin
  <2> DEFINE x == s[1] + Whole - Total(s)
  <2>4. Total(s) - s[1] + x = Whole
    BY <2>1 DEF Whole
  <2> HIDE DEF s, x
  <2>5. [s EXCEPT ![1] = x] \in Counts /\ Total([s EXCEPT ![1] = x]) = Total(s) - s[1] + x
    BY <2>1, <2>3, TotalOfUpdate DEF x
  <2> QED BY <2>2, <2>4, <2>5 DEF x
<1> QED BY <1>1, <1>2

\* Two weeks, however different, give histograms that are at most two wholes
\* apart: the sensitivity prepare_report scales its noise for
\* (analytics.rs:158-160).
THEOREM SensitivityIsTwo ==
    ASSUME NEW a \in Counts, NEW c \in Counts
    PROVE  Total([b \in Bin |-> Distance(Quantized(a)[b], Quantized(c)[b])]) <= 2 * Whole
<1> DEFINE p == Quantized(a)
           q == Quantized(c)
<1>1. p \in Counts /\ q \in Counts /\ Total(p) = Whole /\ Total(q) = Whole
  BY QuantizedIsWhole
<1> HIDE DEF p, q
<1>2. \A b \in Bin : /\ Distance(p[b], q[b]) \in Nat
                     /\ Distance(p[b], q[b]) <= p[b] + q[b]
                     /\ p[b] \in Nat /\ q[b] \in Nat
  BY <1>1 DEF Counts, Distance
<1> DEFINE d == [b \in Bin |-> Distance(p[b], q[b])]
<1>3. \A b \in Bin : d[b] \in Nat /\ d[b] <= p[b] + q[b]
  BY <1>2
<1> HIDE DEF d
<1>4. Total(d) <= Total(p) + Total(q)
  BY <1>2, <1>3 DEF Total, Bin
<1>5. Total(d) <= 2 * Whole
  BY <1>1, <1>4 DEF Whole
<1> QED BY <1>5 DEF d, p, q

\* The rows: both measures count the same, and none of them in bin 0.
HistogramInv ==
    /\ latency \in Counts /\ tokens \in Counts
    /\ latency[0] = 0 /\ tokens[0] = 0
    /\ Total(latency) = Total(tokens)

\* Every row has a bin that is not bin 0.
LEMMA BucketsAreBins ==
    ASSUME NEW x
    PROVE  LatencyBucket(x) \in 1..7 /\ TokenBucket(x) \in 1..7
<1>1. ASSUME NEW limits, DOMAIN limits = 1..5 PROVE Bucket(x, limits) \in 2..7
  <2> DEFINE S == {k \in DOMAIN limits : limits[k] <= x}
  <2>1. IsFiniteSet(1..5) /\ Cardinality(1..5) = 5
    <3>1. 1 \in Int /\ 5 \in Int /\ 5 - 1 + 1 = 5 /\ ~ (1 > 5)
      OBVIOUS
    <3> QED BY <3>1, FS_Interval
  <2>2. IsFiniteSet(S) /\ Cardinality(S) <= 5
    BY <1>1, <2>1, FS_Subset
  <2>3. Cardinality(S) \in Nat
    BY <2>2, FS_CardinalityType
  <2> QED BY <2>2, <2>3 DEF Bucket
<1>2. DOMAIN <<250, 1000, 3000, 10000, 30000>> = 1..5
  OBVIOUS
<1>3. DOMAIN <<128, 512, 2048, 8192, 32768>> = 1..5
  OBVIOUS
<1>4. /\ Bucket(x, <<250, 1000, 3000, 10000, 30000>>) \in 2..7
      /\ Bucket(x, <<128, 512, 2048, 8192, 32768>>) \in 2..7
  BY <1>1, <1>2, <1>3
<1> QED BY <1>4 DEF LatencyBucket, TokenBucket

\* One row more in a bin that is not bin 0.
LEMMA OneMore ==
    ASSUME NEW c \in Counts, NEW b \in 1..7, c[0] = 0
    PROVE  LET d == [c EXCEPT ![b] = @ + 1]
           IN  d \in Counts /\ d[0] = 0 /\ Total(d) = Total(c) + 1
<1>1. b \in Bin /\ c[b] \in Nat /\ c[b] + 1 \in Nat /\ Total(c) \in Nat
  BY TotalIsNat DEF Bin, Counts
<1>2. [c EXCEPT ![b] = c[b] + 1][0] = 0
  BY DEF Counts, Bin
<1> QED BY <1>1, <1>2, TotalOfUpdate

LEMMA HistogramStepKeeps == HistogramInv /\ [HistogramNext]_histogramVars => HistogramInv'
<1> SUFFICES ASSUME HistogramInv, [HistogramNext]_histogramVars PROVE HistogramInv'
  OBVIOUS
<1>1. ASSUME NEW ms \in Latency \cup {Missing}, Interaction(ms) PROVE HistogramInv'
  <2>1. /\ latency' = [latency EXCEPT ![LatencyBucket(ms)] = @ + 1]
        /\ tokens' = [tokens EXCEPT ![TokenBucket(Missing)] = @ + 1]
    BY <1>1 DEF Interaction
  <2>2. LatencyBucket(ms) \in 1..7 /\ TokenBucket(Missing) \in 1..7
    BY BucketsAreBins
  <2>3. latency' \in Counts /\ latency'[0] = 0 /\ Total(latency') = Total(latency) + 1
    BY <2>1, <2>2, OneMore DEF HistogramInv
  <2>4. tokens' \in Counts /\ tokens'[0] = 0 /\ Total(tokens') = Total(tokens) + 1
    BY <2>1, <2>2, OneMore DEF HistogramInv
  <2> QED BY <2>3, <2>4 DEF HistogramInv, Total
<1>2. ASSUME NEW from \in Bin, NEW n \in Tokens \cup {Missing}, SetTokens(from, n)
      PROVE  HistogramInv'
  <2> DEFINE less == [tokens EXCEPT ![from] = tokens[from] - 1]
  <2>1. /\ tokens' = [less EXCEPT ![TokenBucket(n)] = @ + 1]
        /\ latency' = latency /\ tokens[from] > 0
    BY <1>2 DEF SetTokens
  <2>2. TokenBucket(n) \in 1..7
    BY BucketsAreBins
  <2>3. tokens[from] \in Nat /\ tokens[from] - 1 \in Nat /\ Total(tokens) \in Nat
    BY <2>1, TotalIsNat DEF HistogramInv
  <2>4. less \in Counts /\ Total(less) = Total(tokens) - 1
    BY <2>3, TotalOfUpdate DEF HistogramInv
  <2>5. less[0] = 0
    BY <2>1 DEF HistogramInv, Counts, Bin
  <2> HIDE DEF less
  <2>6. tokens' \in Counts /\ tokens'[0] = 0 /\ Total(tokens') = Total(less) + 1
    BY <2>1, <2>2, <2>4, <2>5, OneMore
  <2>7. Total(tokens') = Total(tokens)
    BY <2>3, <2>4, <2>6
  <2> QED BY <2>1, <2>6, <2>7 DEF HistogramInv, Total
<1>3. CASE UNCHANGED histogramVars
  BY <1>3 DEF histogramVars, HistogramInv, Total
<1> QED BY <1>1, <1>2, <1>3 DEF HistogramNext

LEMMA HistogramInitEstablishes == HistogramInit => HistogramInv
BY DEF HistogramInit, HistogramInv, Counts, Bin, Total

LEMMA HistogramInvariant == HistogramSpec => []HistogramInv
<1> QED BY HistogramInitEstablishes, HistogramStepKeeps, PTL DEF HistogramSpec

\* Bin 0 of a histogram is for a week without rows; the others are off by
\* less than a unit.
LEMMA QuantizedIsClose ==
    ASSUME NEW c \in Counts, c[0] = 0
    PROVE  /\ Quantized(c)[0] = IF Total(c) = 0 THEN Whole ELSE 0
           /\ \A b \in Bin \ {0, 1} :
                Distance(Quantized(c)[b] * Total(c), c[b] * Whole)
                  <= IF Total(c) = 0 THEN 0 ELSE Total(c) - 1
<1>0. Total(c) \in Nat /\ \A b \in Bin : c[b] \in Nat /\ c[b] <= Total(c)
  BY TotalIsNat
<1>1. CASE Total(c) = 0
  <2>1. Quantized(c) = Empty
    BY <1>1 DEF Quantized
  <2>2. \A b \in Bin \ {0, 1} : c[b] = 0 /\ Empty[b] = 0
    BY <1>0, <1>1 DEF Empty
  <2> QED BY <1>1, <2>1, <2>2 DEF Empty, Bin, Distance, Whole
<1>2. CASE Total(c) # 0
  <2> DEFINE s == Shares(c)
             n == Total(c)
  <2>1. /\ s \in Counts
        /\ \A b \in Bin : s[b] * n <= c[b] * Whole /\ c[b] * Whole - s[b] * n <= n - 1
    BY <1>2, SharesFit
  <2>2. \A b \in Bin \ {1} : Quantized(c)[b] = s[b]
    BY <1>2, <2>1 DEF Quantized, Counts
  <2>3. s[0] = 0
    <3>1. s[0] * n <= 0 /\ s[0] \in Nat
      BY <1>0, <2>1 DEF Bin, Whole, Counts
    <3> HIDE DEF s, n
    <3>2. n \in Nat \ {0}
      BY <1>0, <1>2 DEF n
    <3>3. s[0] * n >= s[0] /\ s[0] * n \in Nat
      BY <3>1, <3>2
    <3> QED BY <3>1, <3>3
  <2>4. ASSUME NEW b \in Bin \ {0, 1}
        PROVE  Distance(Quantized(c)[b] * n, c[b] * Whole) <= n - 1
    <3>1. s[b] * n \in Nat /\ c[b] * Whole \in Nat
      BY <1>0, <2>1 DEF Counts, Whole
    <3> QED BY <2>1, <2>2, <3>1 DEF Distance
  <2> QED BY <1>2, <2>2, <2>3, <2>4 DEF Bin
<1> QED BY <1>1, <1>2

\* Every histogram handed to the noise is one whole, without negative parts,
\* true to the rows within a unit (LatticeExact).
THEOREM HistogramsAreExact == HistogramSpec => []LatticeExact
<1>1. HistogramInv => LatticeExact
  <2> SUFFICES ASSUME HistogramInv PROVE LatticeExact
    OBVIOUS
  <2>1. ASSUME NEW c \in {latency, tokens}
        PROVE  /\ Total(Quantized(c)) = Whole
               /\ Quantized(c)[0] = IF Total(c) = 0 THEN Whole ELSE 0
               /\ \A b \in Bin \ {0, 1} :
                    Distance(Quantized(c)[b] * Total(c), c[b] * Whole)
                      <= IF Total(c) = 0 THEN 0 ELSE Total(c) - 1
               /\ \A b \in Bin : Quantized(c)[b] >= 0
    <3>1. c \in Counts /\ c[0] = 0
      BY DEF HistogramInv
    <3>2. \A b \in Bin : Quantized(c)[b] >= 0
      BY <3>1, QuantizedIsWhole DEF Counts
    <3> QED BY <3>1, <3>2, QuantizedIsWhole, QuantizedIsClose
  <2> QED BY <2>1 DEF HistogramInv, LatticeExact
<1> QED BY <1>1, HistogramInvariant, PTL

------------------------------------------------------------------------------
(* The five parts together, as the run checks them. *)

LEMMA EachMovesAlone ==
    ASSUME [ServicesNext]_ServicesVars
    PROVE  /\ [AdminNext]_adminVars /\ [AnalyticsNext]_analyticsVars
           /\ [HistogramNext]_histogramVars /\ [RuntimeNext]_runtimeVars
           /\ [PairingNext]_pairingVars
<1>1. CASE ServicesNext
  BY <1>1 DEF ServicesNext, AdminRests, AnalyticsRests, HistogramRests, RuntimeRests,
              PairingRests
<1>2. CASE UNCHANGED ServicesVars
  BY <1>2 DEF ServicesVars
<1> QED BY <1>1, <1>2

\* A behaviour of the five parts side by side is a behaviour of each: what is
\* proved of one part is proved of the specification that the run checks.
THEOREM ServicesCompose ==
    ServicesSpec => AdminSpec /\ AnalyticsSpec /\ HistogramSpec /\ RuntimeSpec /\ PairingSpec
<1>1. ServicesInit =>
        AdminInit /\ AnalyticsInit /\ HistogramInit /\ RuntimeInit /\ PairingInit
  BY DEF ServicesInit
<1>2. [ServicesNext]_ServicesVars =>
        /\ [AdminNext]_adminVars /\ [AnalyticsNext]_analyticsVars
        /\ [HistogramNext]_histogramVars /\ [RuntimeNext]_runtimeVars
        /\ [PairingNext]_pairingVars
  BY EachMovesAlone
<1> QED BY <1>1, <1>2, PTL DEF ServicesSpec, AdminSpec, AnalyticsSpec, HistogramSpec,
                               RuntimeSpec, PairingSpec

\* Whatever the five parts do side by side: keys stay with the destination
\* they were entered for, profiles tell what is so, a primary profile serves,
\* reports are drawn once, sent under consent and counted once, histograms
\* are exact, the vault has one owner and the pairing code one browser.
THEOREM ServicesAreSafe ==
    ServicesSpec =>
        /\ [](KeysGoHome /\ ProfileIsTrue /\ PrimaryServes)
        /\ [](ReportsAreHonest /\ LatticeExact)
        /\ []LeaseIsSound
        /\ ImplementsSurvey
        /\ PairedOnce
<1>1. AdminSpec => [](KeysGoHome /\ ProfileIsTrue /\ PrimaryServes)
  BY KeysStayHome, ProfilesAreTrue, PrimaryAlwaysServes, PTL
<1> QED BY <1>1, ReportsKeepTheirPromise, LeaseHolds, HistogramsAreExact,
           ReportsAreASurvey, PairingIsOnce, ServicesCompose, PTL

------------------------------------------------------------------------------
(* Shutdown ends. *)

\* What ShutdownsEnd takes from TLC, as ENABLED is beyond the prover: a shutdown
\* that waits can return, or its timer can fire.  One that could do neither
\* would wait for ever, and violate ShutdownEnds in the run.
ShutdownCanEnd ==
    \A c \in Core :
        core[c].shutdown = "waiting" => ENABLED <<ShutdownStep(c)>>_ServicesVars

LEMMA ShutdownEndsOf ==
    ASSUME NEW c \in Core
    PROVE  ServicesSpec /\ ShutdownRuns(c) /\ []ShutdownCanEnd
           => ((core[c].shutdown = "waiting") ~> (core[c].shutdown # "waiting"))
<1> DEFINE Waiting == core[c].shutdown = "waiting"
<1>1. RuntimeInv /\ Waiting /\ <<ShutdownStep(c)>>_ServicesVars => ~ Waiting'
  <2> SUFFICES ASSUME RuntimeInv, Waiting, ShutdownStep(c) PROVE ~ Waiting'
    OBVIOUS
  <2>1. core \in [Core -> CoreRecord]
    BY DEF RuntimeInv, RuntimeTypeOK
  <2>2. CASE ShutdownReturns(c)
    BY <2>1, <2>2 DEF ShutdownReturns, Become, Settle, CoreRecord
  <2>3. CASE TimesOut(c)
    BY <2>1, <2>3 DEF TimesOut, Become, Settle, CoreRecord
  <2> QED BY <2>2, <2>3 DEF ShutdownStep, EndsWaiting
<1>2. ShutdownCanEnd /\ Waiting => ENABLED <<ShutdownStep(c)>>_ServicesVars
  BY DEF ShutdownCanEnd
<1>3. /\ Waiting <=> core[c].shutdown = "waiting"
      /\ ~ Waiting <=> core[c].shutdown # "waiting"
  OBVIOUS
<1> HIDE DEF Waiting
<1> QED BY <1>1, <1>2, <1>3, RuntimeInvariant, ServicesCompose, PTL
           DEF ServicesSpec, ShutdownRuns

\* A shutdown that waits for its listener returns, whatever the requests do:
\* its own timer is all that it needs (SHUTDOWN_TIMEOUT).
THEOREM ShutdownsEnd == ServicesSpec /\ []ShutdownCanEnd => ShutdownEnds
<1>1. ASSUME NEW c \in Core
      PROVE  ServicesSpec /\ ShutdownRuns(c) /\ []ShutdownCanEnd
             => ((core[c].shutdown = "waiting") ~> (core[c].shutdown # "waiting"))
  BY ShutdownEndsOf
<1> QED BY <1>1 DEF ServicesSpec, ServicesFair, ShutdownEnds

==============================================================================
