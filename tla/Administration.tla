--------------------------- MODULE Administration ---------------------------
(***************************************************************************)
(* Provider profiles of an installation (administration.rs) and the calls  *)
(* that use them (http.rs): the owner edits profiles while discoveries and *)
(* model requests hold copies of them across their network I/O.            *)
(*                                                                         *)
(* Profiles are numbered in the order they were made, which is the order   *)
(* of the stored list; a number, like the UUID it stands for, never comes  *)
(* back.  Labels, prices and catalogs are left out: rates are represented  *)
(* by the model they were entered for, a discovery by what it asked.       *)
(***************************************************************************)
EXTENDS Naturals, FiniteSets

CONSTANTS
    Base,           \* normalized destinations
    Loopback,       \* those on this machine
    Ollama,         \* the loopback base with port 11434
    OpenAI,         \* https://api.openai.com/v1
    Key,            \* credentials
    Model,          \* model names
    None,           \* no key, no model
    Keep,           \* a field an update leaves out
    Config,         \* startup configurations of a new installation
    Allowlist,      \* sets of bases a process may be confined to
    Patch,          \* updates the owner sends
    Call,           \* handlers in flight
    ProfileLimit,   \* profiles an installation may hold (32)
    MaxProfiles,    \* bound: profiles ever made
    MaxEdits        \* bound: calls of the owner

Kind == {"ollama", "openai", "anthropic", "compatible"}
Switch == {"on", "off"}

ASSUME AdministrationAssumption ==
    /\ Loopback \subseteq Base
    /\ {Ollama} \subseteq Loopback
    /\ OpenAI \in Base \ Loopback
    /\ None \notin Key \cup Model
    /\ Keep \notin Base \cup Key \cup Model \cup {None}
    /\ Config \subseteq [base : Base, key : Key \cup {None},
                         model : Model \cup {None}, anthropic : Base,
                         anthropicKey : Key \cup {None}, gpt : Model,
                         claude : Model]
    /\ Allowlist \subseteq SUBSET Base
    /\ Allowlist # {}
    /\ Patch \subseteq [kind : Kind \cup {"keep"}, base : Base \cup {Keep},
                        model : Model \cup {None, Keep},
                        enabled : Switch \cup {"keep"},
                        key : Key \cup {None, Keep},
                        rates : {"set", "clear", "keep"}]
    /\ ProfileLimit \in Nat
    /\ MaxProfiles \in Nat /\ MaxProfiles >= 3
    /\ MaxEdits \in Nat

VARIABLES
    profiles,   \* admin.providers: the profiles by number
    primary,    \* admin.settings.primary_provider_id
    made,       \* profiles made so far
    allowed,    \* what the allowlist of the running process permits
    task,       \* the handler of every call
    entered,    \* history: keys with the base they were entered for
    sent,       \* history: keys and bases of this process's requests
    edits       \* calls of the owner so far

adminVars == <<profiles, primary, made, allowed, task, entered, sent, edits>>

------------------------------------------------------------------------------
Id == 1..MaxProfiles

Profile ==
    [kind : Kind, base : Base, model : Model \cup {None}, enabled : Switch,
     key : Key \cup {None},
     rates : SUBSET (Model \cup {None}),   \* {}: no rates
     seen : SUBSET [kind : Kind, base : Base, key : Key \cup {None}]]
                                           \* {}: not_checked

\* What a discovery asks: its answer is about nothing else.
Asked(p) == [kind |-> p.kind, base |-> p.base, key |-> p.key]

Fresh(kind, base, model, enabled, key) ==
    [kind |-> kind, base |-> base, model |-> model, enabled |-> enabled,
     key |-> key, rates |-> {}, seen |-> {}]

\* initialize_admin: the configured provider is the primary one.
Seeded(c) ==
    LET default == Fresh(CASE c.base = Ollama -> "ollama"
                           [] c.base = OpenAI -> "openai"
                           [] OTHER -> "compatible",
                         c.base, c.model, "on", c.key)
        openai == Fresh("openai", OpenAI, c.gpt, "off", None)
        anthropic == Fresh("anthropic", c.anthropic, c.claude,
                           IF \/ c.anthropic \in Loopback
                              \/ c.anthropicKey # None
                           THEN "on" ELSE "off",
                           c.anthropicKey)
    IN  IF c.base = OpenAI
        THEN [i \in 1..2 |-> IF i = 1 THEN default ELSE anthropic]
        ELSE [i \in 1..3 |-> CASE i = 1 -> default
                               [] i = 2 -> openai
                               [] i = 3 -> anthropic]

Idle == [does |-> "nothing"]

AdminInit ==
    /\ \E c \in Config :
        /\ profiles = Seeded(c)
        /\ entered = {<<c.key, c.base>>, <<c.anthropicKey, c.anthropic>>}
        /\ made = IF c.base = OpenAI THEN 2 ELSE 3
    /\ primary = 1
    /\ allowed \in Allowlist
    /\ task = [c \in Call |-> Idle]
    /\ sent = {}
    /\ edits = 0

------------------------------------------------------------------------------
(* Edits of the owner. *)

Put(i, p) == [j \in DOMAIN profiles \cup {i} |-> IF j = i THEN p ELSE profiles[j]]

Or(new, old) == IF new = Keep THEN old ELSE new

\* Mutant of Rekeyed: the key moves along to another base.
RekeyedKeeps(p, u) == IF u.key # Keep THEN u.key ELSE p.key

\* The key stays with the base it was entered for, the rates with the
\* model, a discovery with what it asked.
Rekeyed(p, u) ==
    IF u.key # Keep THEN u.key
    ELSE IF Or(u.base, p.base) = p.base THEN p.key ELSE None

Repriced(p, u) ==
    LET model == Or(u.model, p.model)
    IN  CASE u.rates = "set" -> {model}
          [] u.rates = "clear" \/ (u.rates = "keep" /\ model # p.model) -> {}
          [] OTHER -> p.rates

Edited(p, u) ==
    LET new == [p EXCEPT
                  !.kind = IF u.kind = "keep" THEN p.kind ELSE u.kind,
                  !.base = Or(u.base, p.base),
                  !.model = Or(u.model, p.model),
                  !.enabled = IF u.enabled = "keep" THEN p.enabled
                                                    ELSE u.enabled,
                  !.key = Rekeyed(p, u),
                  !.rates = Repriced(p, u)]
    IN  IF Asked(new) = Asked(p) THEN new ELSE [new EXCEPT !.seen = {}]

Valid(p) == p.kind = "ollama" => p.base \in Loopback

Usable(p) == p.enabled = "on" /\ p.model # None

\* save_provider stores the profile if it is valid and the primary one
\* stays usable.
Save(i, p, u) ==
    LET new == Edited(p, u)
    IN  /\ Valid(new)
        /\ i = primary => Usable(new)
        /\ profiles' = Put(i, new)
        /\ entered' = IF u.key \in Key THEN entered \cup {<<u.key, new.base>>}
                                       ELSE entered

OwnerCalls ==
    /\ edits < MaxEdits
    /\ edits' = edits + 1
    /\ UNCHANGED <<allowed, task, sent>>

\* A new profile has no base of its own: the update must name one.
CreateProvider(u) ==
    /\ OwnerCalls
    /\ Cardinality(DOMAIN profiles) < ProfileLimit
    /\ made < MaxProfiles
    /\ u.base # Keep
    /\ Save(made + 1, Fresh("compatible", u.base, None, "on", None), u)
    /\ made' = made + 1
    /\ UNCHANGED primary

UpdateProvider(i, u) ==
    /\ OwnerCalls
    /\ i \in DOMAIN profiles
    /\ Save(i, profiles[i], u)
    /\ UNCHANGED <<primary, made>>

\* Mutant of DeleteProvider: the primary profile may be deleted.
DeleteAnyProvider(i) ==
    /\ OwnerCalls
    /\ i \in DOMAIN profiles
    /\ profiles' = [j \in DOMAIN profiles \ {i} |-> profiles[j]]
    /\ UNCHANGED <<primary, made, entered>>

DeleteProvider(i) ==
    /\ OwnerCalls
    /\ i \in DOMAIN profiles \ {primary}
    /\ profiles' = [j \in DOMAIN profiles \ {i} |-> profiles[j]]
    /\ UNCHANGED <<primary, made, entered>>

SetPrimary(i) ==
    /\ OwnerCalls
    /\ i \in DOMAIN profiles
    /\ Usable(profiles[i])
    /\ primary' = i
    /\ UNCHANGED <<profiles, made, entered>>

------------------------------------------------------------------------------
(* Calls that use a profile. *)

Hold(c, does, i) ==
    task' = [task EXCEPT ![c] =
               [does |-> does, id |-> i, profile |-> profiles[i]]]

\* A request carries the key of the copy its handler holds to its base.
Reach(p) == sent' = sent \cup {<<p.key, p.base>>}

Release(c) == task' = [task EXCEPT ![c] = Idle]

\* probe_provider copies the profile; discover asks its base, unless the
\* allowlist forbids that.
ProbeProvider(c, i) ==
    /\ task[c] = Idle
    /\ i \in DOMAIN profiles
    /\ Hold(c, "probe", i)
    /\ IF profiles[i].base \in allowed THEN Reach(profiles[i])
                                       ELSE UNCHANGED sent
    /\ UNCHANGED <<profiles, primary, made, allowed, entered, edits>>

\* Mutant of SaveDiscovery: only the profile's number is compared.
SaveDiscoveryById(c) ==
    /\ task[c].does = "probe"
    /\ LET i == task[c].id
       IN  IF i \in DOMAIN profiles
           THEN profiles' = [profiles EXCEPT ![i].seen =
                               {Asked(task[c].profile)}]
           ELSE UNCHANGED profiles
    /\ Release(c)
    /\ UNCHANGED <<primary, made, allowed, entered, sent, edits>>

\* save_discovery: the answer, or that there was none, is kept if the
\* profile is still there and still asks the same.
SaveDiscovery(c) ==
    /\ task[c].does = "probe"
    /\ LET i == task[c].id
           asked == Asked(task[c].profile)
       IN  IF i \in DOMAIN profiles /\ Asked(profiles[i]) = asked
           THEN profiles' = [profiles EXCEPT ![i].seen = {asked}]
           ELSE UNCHANGED profiles
    /\ Release(c)
    /\ UNCHANGED <<primary, made, allowed, entered, sent, edits>>

\* selected_provider: a named profile, or the primary one if it speaks the
\* protocol, or the first that does; chat names no protocol.
Protocol == {"any", "anthropic", "openai"}

Speaks(i, protocol) ==
    CASE protocol = "any" -> TRUE
      [] protocol = "anthropic" -> profiles[i].kind = "anthropic"
      [] protocol = "openai" -> profiles[i].kind # "anthropic"

Candidates(protocol) ==
    {i \in DOMAIN profiles : profiles[i].enabled = "on" /\ Speaks(i, protocol)}

Unnamed(protocol) ==
    IF primary \in Candidates(protocol) THEN {primary}
    ELSE {i \in Candidates(protocol) : \A j \in Candidates(protocol) : i <= j}

Select(c, choices) ==
    /\ task[c] = Idle
    /\ \E i \in choices :
        /\ profiles[i].base \in allowed
        /\ Hold(c, "send", i)
    /\ UNCHANGED <<profiles, primary, made, allowed, entered, sent, edits>>

\* upstream sends with the copy, however the profile has changed since.
Send(c) ==
    /\ task[c].does = "send"
    /\ Reach(task[c].profile)
    /\ Release(c)
    /\ UNCHANGED <<profiles, primary, made, allowed, entered, edits>>

\* The caller goes away.
Abandon(c) ==
    /\ task[c] # Idle
    /\ Release(c)
    /\ UNCHANGED <<profiles, primary, made, allowed, entered, sent, edits>>

\* A new process: the saved profiles stay, the allowlist is the process's.
AdminRestart ==
    /\ allowed' \in Allowlist
    /\ task' = [c \in Call |-> Idle]
    /\ sent' = {}
    /\ UNCHANGED <<profiles, primary, made, entered, edits>>

AdminNext ==
    \/ \E u \in Patch : CreateProvider(u)
    \/ \E i \in Id, u \in Patch : UpdateProvider(i, u)
    \/ \E i \in Id : DeleteProvider(i)
    \/ \E i \in Id : SetPrimary(i)
    \/ \E c \in Call, i \in Id : ProbeProvider(c, i)
    \/ \E c \in Call : SaveDiscovery(c)
    \/ \E c \in Call, p \in Protocol, i \in Id :
            Select(c, Candidates(p) \cap {i})
    \/ \E c \in Call, p \in Protocol : Select(c, Unnamed(p))
    \/ \E c \in Call : Send(c)
    \/ \E c \in Call : Abandon(c)
    \/ AdminRestart

AdminSpec == AdminInit /\ [][AdminNext]_adminVars

------------------------------------------------------------------------------
(* What must hold. *)

\* Every variable holds a value of its type.
AdminTypeOK ==
    /\ DOMAIN profiles \subseteq 1..made
    /\ profiles \in [DOMAIN profiles -> Profile]
    /\ primary \in Id
    /\ made \in Id
    /\ allowed \in Allowlist
    /\ task \in [Call -> {Idle} \cup [does : {"probe", "send"}, id : Id,
                                     profile : Profile]]
    /\ entered \subseteq (Key \cup {None}) \X Base
    /\ sent \subseteq (Key \cup {None}) \X Base
    /\ edits \in 0..MaxEdits

\* A key is kept with, and sent to, only a base the owner entered it for,
\* whatever the owner changes while a discovery or a request holds a copy
\* of the profile; and nothing goes to a base the running process's
\* allowlist leaves out (save_provider, probe_json, upstream).
KeysGoHome ==
    /\ \A i \in DOMAIN profiles :
        profiles[i].key # None => <<profiles[i].key, profiles[i].base>> \in entered
    /\ \A s \in sent : /\ s[2] \in allowed
                       /\ s[1] # None => s \in entered

\* What a profile shows of its provider is about the profile as it is: a
\* discovery asked this base in this way with this key, although it was
\* answered without a lock; rates were entered for this model
\* (save_discovery, save_provider).
ProfileIsTrue ==
    \A i \in DOMAIN profiles :
        /\ profiles[i].seen \subseteq {Asked(profiles[i])}
        /\ profiles[i].rates \subseteq {profiles[i].model}

\* Chat that names no profile is served by the primary one and by no
\* other, through every deletion and edit; only the seeded default may
\* still lack a model (selected_provider, delete_provider).
PrimaryServes ==
    /\ Unnamed("any") = {primary}
    /\ primary # 1 => profiles[primary].model # None

=============================================================================
