------------------------ MODULE AdministrationProofs ------------------------
(***************************************************************************)
(* What TLAPS proves about module Administration, for any destinations,    *)
(* keys, updates and configurations, any number of profiles and of calls   *)
(* in flight.                                                              *)
(***************************************************************************)
EXTENDS Administration, TLAPS

------------------------------------------------------------------------------
(* The inductive invariant. *)

\* A profile's key was entered for the profile's base.
Homed(p, e) == p.key # None => <<p.key, p.base>> \in e

\* What a profile shows is about the profile.
Truthful(p) == p.seen \subseteq {Asked(p)} /\ p.rates \subseteq {p.model}

ProfilesGood == \A i \in DOMAIN profiles : /\ Homed(profiles[i], entered)
                                           /\ Truthful(profiles[i])

\* The copies that calls hold stay what they were when they were taken.
CopiesGood ==
    \A c \in Call : task[c] # Idle =>
        /\ Homed(task[c].profile, entered)
        /\ task[c].does = "send" => task[c].profile.base \in allowed

SentGood == \A s \in sent : s[2] \in allowed /\ (s[1] # None => s \in entered)

PrimaryGood ==
    /\ primary \in DOMAIN profiles
    /\ profiles[primary].enabled = "on"
    /\ primary # 1 => profiles[primary].model # None

AdminInv == AdminTypeOK /\ ProfilesGood /\ CopiesGood /\ SentGood /\ PrimaryGood

Copies == [does : {"probe", "send"}, id : Id, profile : Profile]

------------------------------------------------------------------------------
(* Operators *)

\* A new profile has the given fields, no rates and no discovery.
LEMMA FreshProfile ==
    ASSUME NEW kind \in Kind, NEW base \in Base, NEW model \in Model \cup {None},
           NEW enabled \in Switch, NEW key \in Key \cup {None}
    PROVE  /\ Fresh(kind, base, model, enabled, key) \in Profile
           /\ Fresh(kind, base, model, enabled, key).base = base
           /\ Fresh(kind, base, model, enabled, key).enabled = enabled
           /\ Fresh(kind, base, model, enabled, key).key = key
           /\ Truthful(Fresh(kind, base, model, enabled, key))
BY DEF Fresh, Profile, Truthful

\* An update yields a profile whose key belongs to its base, if the old one
\* did, and which shows nothing that was about the old one only.
LEMMA EditedProfile ==
    ASSUME NEW p \in Profile, NEW u \in Patch, NEW e,
           Homed(p, e), Truthful(p)
    PROVE  LET new == Edited(p, u)
           IN  /\ new \in Profile
               /\ Truthful(new)
               /\ new.key \in {None, u.key} \/ <<new.key, new.base>> \in e
<1> DEFINE kind == IF u.kind = "keep" THEN p.kind ELSE u.kind
           base == Or(u.base, p.base)
           model == Or(u.model, p.model)
           enabled == IF u.enabled = "keep" THEN p.enabled ELSE u.enabled
           key == Rekeyed(p, u)
           rates == Repriced(p, u)
           moved == [p EXCEPT !.kind = kind, !.base = base, !.model = model,
                              !.enabled = enabled, !.key = key, !.rates = rates]
<1>1. /\ u.kind \in Kind \cup {"keep"} /\ u.base \in Base \cup {Keep}
      /\ u.model \in Model \cup {None, Keep} /\ u.enabled \in Switch \cup {"keep"}
      /\ u.key \in Key \cup {None, Keep} /\ u.rates \in {"set", "clear", "keep"}
  BY AdministrationAssumption
<1>2. /\ p.kind \in Kind /\ p.base \in Base /\ p.model \in Model \cup {None}
      /\ p.enabled \in Switch /\ p.key \in Key \cup {None}
      /\ p.rates \subseteq Model \cup {None}
  BY DEF Profile
<1>3. kind \in Kind /\ base \in Base /\ model \in Model \cup {None} /\ enabled \in Switch
  BY <1>1, <1>2 DEF Or
<1>4. key \in Key \cup {None} /\ (key \in {None, u.key} \/ <<key, base>> \in e)
  BY <1>1, <1>2 DEF Rekeyed, Homed, Or
<1>5. rates \subseteq {model} /\ rates \subseteq Model \cup {None}
  <2>1. CASE u.rates = "set"
    BY <1>3, <2>1 DEF Repriced
  <2>2. CASE u.rates = "clear"
    BY <2>2 DEF Repriced
  <2>3. CASE u.rates = "keep" /\ model # p.model
    BY <2>3 DEF Repriced
  <2>4. CASE u.rates = "keep" /\ model = p.model
    BY <1>2, <2>4 DEF Repriced, Truthful
  <2> QED BY <1>1, <2>1, <2>2, <2>3, <2>4
<1>6. Edited(p, u) = IF Asked(moved) = Asked(p) THEN moved ELSE [moved EXCEPT !.seen = {}]
  BY DEF Edited
<1> HIDE DEF kind, base, model, enabled, key, rates
<1>7. /\ moved \in Profile
      /\ moved.key = key /\ moved.base = base /\ moved.model = model
      /\ moved.rates = rates /\ moved.seen = p.seen
  BY <1>3, <1>4, <1>5 DEF Profile
<1> HIDE DEF moved
<1>8. CASE Asked(moved) = Asked(p)
  BY <1>4, <1>5, <1>6, <1>7, <1>8 DEF Truthful
<1>9. CASE Asked(moved) # Asked(p)
  <2> DEFINE new == [moved EXCEPT !.seen = {}]
  <2>1. /\ new \in Profile /\ new.seen = {} /\ new.key = key /\ new.base = base
        /\ new.model = model /\ new.rates = rates
    BY <1>7 DEF Profile
  <2>2. Edited(p, u) = new
    BY <1>6, <1>9
  <2> QED BY <1>4, <1>5, <2>1, <2>2 DEF Truthful
<1> QED BY <1>8, <1>9

\* A profile stays homed when more keys have been entered.
LEMMA HomedGrows ==
    ASSUME NEW p, NEW e, NEW f, e \subseteq f, Homed(p, e) PROVE Homed(p, f)
BY DEF Homed

------------------------------------------------------------------------------
(* Steps *)

LEMMA InitEstablishes == AdminInit => AdminInv
<1> SUFFICES ASSUME AdminInit PROVE AdminInv
  OBVIOUS
<1>1. PICK c \in Config :
        /\ profiles = Seeded(c)
        /\ entered = {<<c.key, c.base>>, <<c.anthropicKey, c.anthropic>>}
        /\ made = IF c.base = OpenAI THEN 2 ELSE 3
  BY DEF AdminInit
<1>2. /\ c.base \in Base /\ c.key \in Key \cup {None} /\ c.model \in Model \cup {None}
      /\ c.anthropic \in Base /\ c.anthropicKey \in Key \cup {None}
      /\ c.gpt \in Model /\ c.claude \in Model
  BY AdministrationAssumption
<1> DEFINE kind == CASE c.base = Ollama -> "ollama" [] c.base = OpenAI -> "openai"
                     [] OTHER -> "compatible"
           on == IF c.anthropic \in Loopback \/ c.anthropicKey # None
                 THEN "on" ELSE "off"
           default == Fresh(kind, c.base, c.model, "on", c.key)
           openai == Fresh("openai", OpenAI, c.gpt, "off", None)
           anthropic == Fresh("anthropic", c.anthropic, c.claude, on, c.anthropicKey)
<1>3. kind \in Kind /\ on \in Switch
  BY DEF Kind, Switch
<1>4. profiles = IF c.base = OpenAI
                 THEN [i \in 1..2 |-> IF i = 1 THEN default ELSE anthropic]
                 ELSE [i \in 1..3 |-> CASE i = 1 -> default [] i = 2 -> openai
                                        [] i = 3 -> anthropic]
  BY <1>1 DEF Seeded
<1> HIDE DEF kind, on
<1>5. /\ default \in Profile /\ Truthful(default) /\ default.enabled = "on"
      /\ default.key = c.key /\ default.base = c.base
  <2>1. "on" \in Switch
    BY DEF Switch
  <2>2. /\ default \in Profile
        /\ default.base = c.base
        /\ default.enabled = "on"
        /\ default.key = c.key
        /\ Truthful(default)
    <3> HIDE DEF default
    <3>1. default = Fresh(kind, c.base, c.model, "on", c.key)
      BY DEF default
    <3>2. c.base \in Base /\ c.model \in Model \cup {None} /\ c.key \in Key \cup {None}
      BY <1>2
    <3> QED BY <1>3, <2>1, <3>1, <3>2, FreshProfile
  <2> QED BY <2>2
<1>6. openai \in Profile /\ Truthful(openai) /\ openai.key = None
  BY <1>2, FreshProfile, AdministrationAssumption DEF Switch, Kind
<1>7. /\ anthropic \in Profile /\ Truthful(anthropic)
      /\ anthropic.key = c.anthropicKey /\ anthropic.base = c.anthropic
  BY <1>2, <1>3, FreshProfile DEF Switch, Kind
<1> HIDE DEF default, openai, anthropic
<1>8. /\ DOMAIN profiles = 1..made
      /\ profiles[1] = default
      /\ \A i \in DOMAIN profiles : profiles[i] \in {default, openai, anthropic}
      /\ profiles = [i \in DOMAIN profiles |-> profiles[i]]
  <2>1. CASE c.base = OpenAI
    BY <1>1, <1>4, <2>1
  <2>2. CASE c.base # OpenAI
    BY <1>1, <1>4, <2>2
  <2> QED BY <2>1, <2>2
<1>9. made \in 2..3 /\ made \in Id
  BY <1>1, AdministrationAssumption DEF Id
<1>10. AdminTypeOK
  <2>1. profiles \in [DOMAIN profiles -> Profile]
    BY <1>5, <1>6, <1>7, <1>8
  <2>2. entered \subseteq (Key \cup {None}) \X Base
    BY <1>1, <1>2
  <2>3. primary \in Id /\ edits \in 0..MaxEdits
    BY AdministrationAssumption DEF Id, AdminInit
  <2> QED BY <1>8, <1>9, <2>1, <2>2, <2>3 DEF AdminTypeOK, AdminInit
<1>11. ProfilesGood
  BY <1>1, <1>5, <1>6, <1>7, <1>8 DEF ProfilesGood, Homed
<1>12. CopiesGood /\ SentGood
  BY DEF CopiesGood, SentGood, AdminInit
<1>13. PrimaryGood
  BY <1>5, <1>8, <1>9 DEF PrimaryGood, AdminInit
<1> QED BY <1>10, <1>11, <1>12, <1>13 DEF AdminInv

\* Storing an updated profile, new or old, keeps what it touches in order.
LEMMA SaveKeeps ==
    ASSUME AdminInv, NEW i \in Id, NEW p \in Profile, NEW u \in Patch,
           Homed(p, entered), Truthful(p), Save(i, p, u), OwnerCalls,
           UNCHANGED primary, made' \in Id, DOMAIN profiles \cup {i} \subseteq 1..made'
    PROVE  AdminInv'
<1> DEFINE new == Edited(p, u)
<1>1. /\ new \in Profile /\ Truthful(new)
      /\ new.key \in {None, u.key} \/ <<new.key, new.base>> \in entered
  BY EditedProfile DEF AdminInv
<1>2. /\ i = primary => Usable(new)
      /\ profiles' = Put(i, new)
      /\ entered' = IF u.key \in Key THEN entered \cup {<<u.key, new.base>>} ELSE entered
  BY DEF Save
<1> HIDE DEF new
<1>3. entered \subseteq entered' /\ Homed(new, entered')
  BY <1>1, <1>2 DEF Homed, Profile
<1>4. /\ DOMAIN profiles' = DOMAIN profiles \cup {i}
      /\ \A j \in DOMAIN profiles' : profiles'[j] = IF j = i THEN new ELSE profiles[j]
      /\ profiles' = [j \in DOMAIN profiles' |-> profiles'[j]]
  BY <1>2 DEF Put
<1>5. AdminTypeOK'
  <2>1. profiles' \in [DOMAIN profiles' -> Profile]
    BY <1>1, <1>4 DEF AdminInv, AdminTypeOK
  <2>2. u.key \in Key => <<u.key, new.base>> \in (Key \cup {None}) \X Base
    BY <1>1 DEF Profile
  <2>3. entered' \subseteq (Key \cup {None}) \X Base
    BY <1>2, <2>2 DEF AdminInv, AdminTypeOK
  <2>4. edits' \in 0..MaxEdits
    BY AdministrationAssumption DEF AdminInv, AdminTypeOK, OwnerCalls
  <2> QED BY <1>4, <2>1, <2>3, <2>4 DEF AdminInv, AdminTypeOK, OwnerCalls
<1>6. ProfilesGood'
  BY <1>1, <1>3, <1>4, HomedGrows DEF AdminInv, ProfilesGood
<1>7. CopiesGood'
  BY <1>3, HomedGrows DEF AdminInv, CopiesGood, OwnerCalls
<1>8. SentGood'
  BY <1>3 DEF AdminInv, SentGood, OwnerCalls
<1>9. PrimaryGood'
  BY <1>2, <1>4 DEF AdminInv, PrimaryGood, Usable
<1> QED BY <1>5, <1>6, <1>7, <1>8, <1>9 DEF AdminInv

LEMMA CreateKeeps ==
    ASSUME AdminInv, NEW u \in Patch, CreateProvider(u) PROVE AdminInv'
<1> DEFINE p == Fresh("compatible", u.base, None, "on", None)
<1>1. u.base \in Base
  BY AdministrationAssumption DEF CreateProvider
<1>2. p \in Profile /\ p.key = None /\ Truthful(p)
  BY <1>1, FreshProfile DEF Kind, Switch
<1>3. Homed(p, entered)
  BY <1>2 DEF Homed
<1>4. made + 1 \in Id /\ made' = made + 1
  BY AdministrationAssumption DEF CreateProvider, AdminInv, AdminTypeOK, Id
<1>5. DOMAIN profiles \cup {made + 1} \subseteq 1..made'
  BY <1>4 DEF AdminInv, AdminTypeOK, Id
<1>6. Save(made + 1, p, u) /\ OwnerCalls /\ UNCHANGED primary
  BY DEF CreateProvider
<1> HIDE DEF p
<1> QED BY <1>2, <1>3, <1>4, <1>5, <1>6, SaveKeeps

LEMMA UpdateKeeps ==
    ASSUME AdminInv, NEW i \in Id, NEW u \in Patch, UpdateProvider(i, u) PROVE AdminInv'
<1>1. profiles[i] \in Profile /\ Homed(profiles[i], entered) /\ Truthful(profiles[i])
  BY DEF UpdateProvider, AdminInv, AdminTypeOK, ProfilesGood
<1>2. made' \in Id /\ DOMAIN profiles \cup {i} \subseteq 1..made'
  BY DEF UpdateProvider, AdminInv, AdminTypeOK
<1>3. Save(i, profiles[i], u) /\ OwnerCalls /\ UNCHANGED primary
  BY DEF UpdateProvider
<1> QED BY <1>1, <1>2, <1>3, SaveKeeps

LEMMA DeleteKeeps ==
    ASSUME AdminInv, NEW i \in Id, DeleteProvider(i) PROVE AdminInv'
<1>1. /\ i # primary
      /\ profiles' = [j \in DOMAIN profiles \ {i} |-> profiles[j]]
      /\ UNCHANGED <<primary, made, entered, allowed, task, sent>>
      /\ edits' \in 0..MaxEdits
  BY AdministrationAssumption DEF DeleteProvider, OwnerCalls, AdminInv, AdminTypeOK
<1>2. /\ DOMAIN profiles' = DOMAIN profiles \ {i}
      /\ \A j \in DOMAIN profiles' : profiles'[j] = profiles[j]
  BY <1>1
<1>3. AdminTypeOK'
  BY <1>1, <1>2 DEF AdminInv, AdminTypeOK
<1>4. ProfilesGood' /\ CopiesGood' /\ SentGood'
  BY <1>1, <1>2 DEF AdminInv, ProfilesGood, CopiesGood, SentGood
<1>5. PrimaryGood'
  BY <1>1, <1>2 DEF AdminInv, PrimaryGood
<1> QED BY <1>3, <1>4, <1>5 DEF AdminInv

LEMMA SetPrimaryKeeps ==
    ASSUME AdminInv, NEW i \in Id, SetPrimary(i) PROVE AdminInv'
<1>1. AdminTypeOK'
  BY AdministrationAssumption DEF AdminInv, AdminTypeOK, SetPrimary, OwnerCalls
<1>2. ProfilesGood' /\ CopiesGood' /\ SentGood'
  BY DEF AdminInv, ProfilesGood, CopiesGood, SentGood, SetPrimary, OwnerCalls
<1>3. PrimaryGood'
  BY DEF PrimaryGood, SetPrimary, Usable
<1> QED BY <1>1, <1>2, <1>3 DEF AdminInv

\* Taking a copy of a homed profile.
LEMMA HoldKeeps ==
    ASSUME AdminInv, NEW c \in Call, NEW i \in DOMAIN profiles,
           NEW does \in {"probe", "send"}, Hold(c, does, i),
           does = "send" => profiles[i].base \in allowed,
           UNCHANGED <<allowed, entered>>
    PROVE  /\ task' \in [Call -> {Idle} \cup Copies]
           /\ CopiesGood'
<1>0. i \in Id
  BY AdministrationAssumption DEF AdminInv, AdminTypeOK, Id
<1>1. profiles[i] \in Profile /\ Homed(profiles[i], entered)
  BY DEF AdminInv, AdminTypeOK, ProfilesGood
<1> DEFINE t == [does |-> does, id |-> i, profile |-> profiles[i]]
<1>2. t \in Copies /\ t.profile = profiles[i] /\ t.does = does
  BY <1>0, <1>1 DEF Copies
<1>3. task' = [task EXCEPT ![c] = t]
  BY DEF Hold
<1>4. task \in [Call -> {Idle} \cup Copies]
  BY DEF AdminInv, AdminTypeOK, Copies
<1> HIDE DEF t
<1>5. task' \in [Call -> {Idle} \cup Copies]
  BY <1>2, <1>3, <1>4
<1>6. CopiesGood'
  BY <1>1, <1>2, <1>3, <1>4 DEF AdminInv, CopiesGood
<1> QED BY <1>5, <1>6

LEMMA ProbeKeeps ==
    ASSUME AdminInv, NEW c \in Call, NEW i \in Id, ProbeProvider(c, i) PROVE AdminInv'
<1>1. i \in DOMAIN profiles /\ Hold(c, "probe", i)
      /\ UNCHANGED <<profiles, primary, made, allowed, entered, edits>>
  BY DEF ProbeProvider
<1>2. task' \in [Call -> {Idle} \cup Copies] /\ CopiesGood'
  BY <1>1, HoldKeeps
<1>3. profiles[i] \in Profile /\ Homed(profiles[i], entered)
  BY <1>1 DEF AdminInv, AdminTypeOK, ProfilesGood
<1> DEFINE s == <<profiles[i].key, profiles[i].base>>
<1>4. sent' = sent \/ (s[2] \in allowed /\ sent' = sent \cup {s})
  BY DEF ProbeProvider, Reach
<1>5. s \in (Key \cup {None}) \X Base /\ (s[1] # None => s \in entered)
  BY <1>3 DEF Profile, Homed
<1> HIDE DEF s
<1>6. AdminTypeOK'
  BY <1>1, <1>2, <1>4, <1>5 DEF AdminInv, AdminTypeOK, Copies
<1>7. SentGood'
  BY <1>1, <1>4, <1>5 DEF AdminInv, SentGood
<1>8. ProfilesGood' /\ PrimaryGood'
  BY <1>1 DEF AdminInv, ProfilesGood, PrimaryGood
<1> QED BY <1>2, <1>6, <1>7, <1>8 DEF AdminInv

\* A call that ends.
LEMMA ReleaseKeeps ==
    ASSUME AdminInv, NEW c \in Call, Release(c), UNCHANGED <<allowed, entered>>
    PROVE  task' \in [Call -> {Idle} \cup Copies] /\ CopiesGood'
BY DEF AdminInv, AdminTypeOK, Release, CopiesGood, Copies

LEMMA SaveDiscoveryKeeps ==
    ASSUME AdminInv, NEW c \in Call, SaveDiscovery(c) PROVE AdminInv'
<1> DEFINE i == task[c].id
           asked == Asked(task[c].profile)
<1>1. /\ Release(c) /\ UNCHANGED <<primary, made, allowed, entered, sent, edits>>
      /\ IF i \in DOMAIN profiles /\ Asked(profiles[i]) = asked
         THEN profiles' = [profiles EXCEPT ![i].seen = {asked}]
         ELSE UNCHANGED profiles
  BY DEF SaveDiscovery
<1>2. task' \in [Call -> {Idle} \cup Copies] /\ CopiesGood'
  BY <1>1, ReleaseKeeps
<1>3. CASE i \in DOMAIN profiles /\ Asked(profiles[i]) = asked
  <2> DEFINE old == profiles[i]
             new == [old EXCEPT !.seen = {Asked(old)}]
  <2>1. old \in Profile /\ Homed(old, entered) /\ Truthful(old)
    BY <1>3 DEF AdminInv, AdminTypeOK, ProfilesGood
  <2>2. /\ new \in Profile /\ new.key = old.key /\ new.base = old.base
        /\ new.kind = old.kind /\ new.model = old.model /\ new.rates = old.rates
        /\ new.enabled = old.enabled /\ new.seen = {Asked(old)}
    BY <2>1 DEF Profile, Asked
  <2>3. Homed(new, entered) /\ Truthful(new)
    BY <2>1, <2>2 DEF Homed, Truthful, Asked
  <2>4. profiles' = [profiles EXCEPT ![i] = new]
    BY <1>1, <1>3
  <2> HIDE DEF new
  <2>5. /\ DOMAIN profiles' = DOMAIN profiles
        /\ \A j \in DOMAIN profiles : profiles'[j] = IF j = i THEN new ELSE profiles[j]
        /\ profiles' \in [DOMAIN profiles -> Profile]
    BY <2>2, <2>4 DEF AdminInv, AdminTypeOK
  <2> HIDE DEF i
  <2>6. AdminTypeOK'
    BY <1>1, <1>2, <2>5 DEF AdminInv, AdminTypeOK, Copies
  <2>7. ProfilesGood'
    BY <1>1, <2>3, <2>5 DEF AdminInv, ProfilesGood
  <2>8. SentGood' /\ PrimaryGood'
    BY <1>1, <2>2, <2>5 DEF AdminInv, SentGood, PrimaryGood
  <2> QED BY <1>2, <2>6, <2>7, <2>8 DEF AdminInv
<1>4. CASE ~ (i \in DOMAIN profiles /\ Asked(profiles[i]) = asked)
  <2>1. UNCHANGED profiles
    BY <1>1, <1>4
  <2> QED
    BY <1>1, <1>2, <2>1 DEF AdminInv, AdminTypeOK, Copies, ProfilesGood, SentGood, PrimaryGood
<1> QED BY <1>3, <1>4

LEMMA SelectKeeps ==
    ASSUME AdminInv, NEW c \in Call, NEW choices, choices \subseteq DOMAIN profiles,
           Select(c, choices)
    PROVE  AdminInv'
<1>1. PICK i \in choices : profiles[i].base \in allowed /\ Hold(c, "send", i)
  BY DEF Select
<1>2. UNCHANGED <<profiles, primary, made, allowed, entered, sent, edits>>
  BY DEF Select
<1>3. task' \in [Call -> {Idle} \cup Copies] /\ CopiesGood'
  BY <1>1, <1>2, HoldKeeps
<1> QED
  BY <1>2, <1>3 DEF AdminInv, AdminTypeOK, Copies, ProfilesGood, SentGood, PrimaryGood

LEMMA SendKeeps ==
    ASSUME AdminInv, NEW c \in Call, Send(c) PROVE AdminInv'
<1>1. /\ Release(c) /\ UNCHANGED <<profiles, primary, made, allowed, entered, edits>>
      /\ task[c].does = "send"
  BY DEF Send
<1>2. task' \in [Call -> {Idle} \cup Copies] /\ CopiesGood'
  BY <1>1, ReleaseKeeps
<1> DEFINE p == task[c].profile
           s == <<p.key, p.base>>
<1>3. p \in Profile /\ Homed(p, entered) /\ p.base \in allowed
  BY <1>1 DEF AdminInv, AdminTypeOK, CopiesGood, Idle
<1>4. sent' = sent \cup {s}
  BY DEF Send, Reach
<1>5. s \in (Key \cup {None}) \X Base /\ (s[1] # None => s \in entered) /\ s[2] \in allowed
  BY <1>3 DEF Profile, Homed
<1> HIDE DEF s
<1>6. AdminTypeOK'
  BY <1>1, <1>2, <1>4, <1>5 DEF AdminInv, AdminTypeOK, Copies
<1>7. SentGood'
  BY <1>1, <1>4, <1>5 DEF AdminInv, SentGood
<1>8. ProfilesGood' /\ PrimaryGood'
  BY <1>1 DEF AdminInv, ProfilesGood, PrimaryGood
<1> QED BY <1>2, <1>6, <1>7, <1>8 DEF AdminInv

LEMMA AbandonKeeps ==
    ASSUME AdminInv, NEW c \in Call, Abandon(c) PROVE AdminInv'
<1>1. Release(c) /\ UNCHANGED <<profiles, primary, made, allowed, entered, sent, edits>>
  BY DEF Abandon
<1>2. task' \in [Call -> {Idle} \cup Copies] /\ CopiesGood'
  BY <1>1, ReleaseKeeps
<1> QED
  BY <1>1, <1>2 DEF AdminInv, AdminTypeOK, Copies, ProfilesGood, SentGood, PrimaryGood

LEMMA RestartKeeps == ASSUME AdminInv, AdminRestart PROVE AdminInv'
<1>1. AdminTypeOK'
  BY DEF AdminInv, AdminTypeOK, AdminRestart
<1>2. ProfilesGood' /\ PrimaryGood'
  BY DEF AdminInv, ProfilesGood, PrimaryGood, AdminRestart
<1>3. CopiesGood' /\ SentGood'
  BY DEF CopiesGood, SentGood, AdminRestart
<1> QED BY <1>1, <1>2, <1>3 DEF AdminInv

LEMMA StepKeeps == AdminInv /\ [AdminNext]_adminVars => AdminInv'
<1> SUFFICES ASSUME AdminInv, [AdminNext]_adminVars PROVE AdminInv'
  OBVIOUS
<1>1. ASSUME NEW u \in Patch, CreateProvider(u) PROVE AdminInv'
  BY <1>1, CreateKeeps
<1>2. ASSUME NEW i \in Id, NEW u \in Patch, UpdateProvider(i, u) PROVE AdminInv'
  BY <1>2, UpdateKeeps
<1>3. ASSUME NEW i \in Id, DeleteProvider(i) PROVE AdminInv'
  BY <1>3, DeleteKeeps
<1>4. ASSUME NEW i \in Id, SetPrimary(i) PROVE AdminInv'
  BY <1>4, SetPrimaryKeeps
<1>5. ASSUME NEW c \in Call, NEW i \in Id, ProbeProvider(c, i) PROVE AdminInv'
  BY <1>5, ProbeKeeps
<1>6. ASSUME NEW c \in Call, SaveDiscovery(c) PROVE AdminInv'
  BY <1>6, SaveDiscoveryKeeps
<1>7. ASSUME NEW c \in Call, NEW p \in Protocol, NEW i \in Id,
             Select(c, Candidates(p) \cap {i})
      PROVE  AdminInv'
  <2>1. Candidates(p) \cap {i} \subseteq DOMAIN profiles
    BY DEF Candidates
  <2> QED BY <1>7, <2>1, SelectKeeps
<1>8. ASSUME NEW c \in Call, NEW p \in Protocol, Select(c, Unnamed(p)) PROVE AdminInv'
  <2>1. Unnamed(p) \subseteq DOMAIN profiles
    BY DEF Candidates, Unnamed
  <2> QED BY <1>8, <2>1, SelectKeeps
<1>9. ASSUME NEW c \in Call, Send(c) PROVE AdminInv'
  BY <1>9, SendKeeps
<1>10. ASSUME NEW c \in Call, Abandon(c) PROVE AdminInv'
  BY <1>10, AbandonKeeps
<1>11. CASE AdminRestart
  BY <1>11, RestartKeeps
<1>12. CASE UNCHANGED adminVars
  BY <1>12 DEF adminVars, AdminInv, AdminTypeOK, ProfilesGood, CopiesGood, SentGood,
               PrimaryGood
<1> QED
  BY <1>1, <1>2, <1>3, <1>4, <1>5, <1>6, <1>7, <1>8, <1>9, <1>10, <1>11, <1>12
     DEF AdminNext

LEMMA InvariantHolds == AdminSpec => []AdminInv
BY InitEstablishes, StepKeeps, PTL DEF AdminSpec

------------------------------------------------------------------------------
(* Results *)

\* Every variable of provider administration holds a value of its type.
THEOREM AdminTypes == AdminSpec => []AdminTypeOK
<1>1. AdminInv => AdminTypeOK
  BY DEF AdminInv
<1> QED BY <1>1, InvariantHolds, PTL

\* Keys are kept for and sent to the base they were entered for only, and
\* nothing goes past the allowlist of the running process (save_provider,
\* probe_json, upstream).
THEOREM KeysStayHome == AdminSpec => []KeysGoHome
<1>1. AdminInv => KeysGoHome
  BY DEF AdminInv, ProfilesGood, SentGood, Homed, KeysGoHome
<1> QED BY <1>1, InvariantHolds, PTL

\* Discovery and rates are about the profile that shows them
\* (save_discovery, save_provider).
THEOREM ProfilesAreTrue == AdminSpec => []ProfileIsTrue
<1>1. AdminInv => ProfileIsTrue
  BY DEF AdminInv, ProfilesGood, Truthful, ProfileIsTrue
<1> QED BY <1>1, InvariantHolds, PTL

\* Chat without a named profile is the primary profile's alone
\* (selected_provider, delete_provider).
THEOREM PrimaryAlwaysServes == AdminSpec => []PrimaryServes
<1>1. AdminInv => PrimaryServes
  BY DEF AdminInv, PrimaryGood, PrimaryServes, Unnamed, Candidates, Speaks
<1> QED BY <1>1, InvariantHolds, PTL

=============================================================================
