------------------------------ MODULE Analytics ------------------------------
(***************************************************************************)
(* Weekly reports: an installation draws and keeps one report per week     *)
(* (analytics.rs), its owner has it sent (http.rs, sender.rs), as often as *)
(* answers are lost, and the collector adds it to the public aggregate     *)
(* once (services/collector).  The noised histograms are one value here:   *)
(* a report's draw tells one randomized output from another.               *)
(***************************************************************************)
EXTENDS Naturals, FiniteSets

CONSTANTS
    Installation,
    OptIn,          \* installations whose configuration opts in by default
    Configured,     \* installations with a collector
    Sender,         \* send_report handlers in flight
    Budget,         \* reports an installation may ever release (4)
    Minimum,        \* reports a published week needs (10000)
    MaxWeek,        \* bound: ISO weeks of the calendar
    MaxChanges      \* bound: changes of consent

ASSUME AnalyticsAssumption ==
    /\ OptIn \subseteq Installation
    /\ Configured \subseteq Installation
    /\ Budget \in Nat
    /\ Minimum \in Nat \ {0}
    /\ MaxWeek \in Nat \ {0}
    /\ MaxChanges \in Nat

Week == 1..MaxWeek

VARIABLES
    week,       \* the current ISO week, everywhere
    consent,    \* settings.analytics_consent: unset, on or off
    ledger,     \* analytics_reports: the kept report of every week
    sending,    \* the send_report handlers
    released,   \* history: reports that left a vault
    late,       \* history: handlers past their check when consent went
    posted,     \* reports on their way, or lost, or arrived
    digests,    \* collector: reports it knows
    aggregate,  \* collector: per week the count and what the sums add up
    changes     \* changes of consent so far

analyticsVars == <<week, consent, ledger, sending, released, late, posted,
                   digests, aggregate, changes>>

------------------------------------------------------------------------------
Report == [from : Installation, week : Week, draw : Nat]

Resting == [at |-> "resting"]

AnalyticsInit ==
    /\ week = 1
    /\ consent = [i \in Installation |-> "unset"]
    /\ ledger = [i \in Installation |-> {}]
    /\ sending = [s \in Sender |-> Resting]
    /\ released = {}
    /\ late = {}
    /\ posted = {}
    /\ digests = {}
    /\ aggregate = [w \in Week |-> [count |-> 0, sum |-> {}, again |-> FALSE]]
    /\ changes = 0

------------------------------------------------------------------------------
(* The installation. *)

Consents(i) == consent[i] = "on" \/ (consent[i] = "unset" /\ i \in OptIn)

Cleared(i) == {s \in Sender : /\ sending[s].at = "cleared"
                              /\ sending[s].report.from = i}

SetConsent(i, to) ==
    /\ changes < MaxChanges
    /\ to = "on" => i \in Configured
    /\ consent' = [consent EXCEPT ![i] = to]
    /\ late' = IF to = "off" THEN late \cup Cleared(i) ELSE late
    /\ changes' = changes + 1
    /\ UNCHANGED <<week, ledger, sending, released, posted, digests, aggregate>>

\* Weeks of an installation are told apart by the reports it keeps.
Kept(i, w) == {r \in ledger[i] : r.week = w}

\* A new randomized output differs from all that left the vault before.
Drawn(i, w) ==
    [from |-> i, week |-> w,
     draw |-> Cardinality({r \in released : r.from = i /\ r.week = w})]

\* prepare_report: a kept report comes back as it is, at any later time; a
\* new one is for this week, within the budget, and is kept in the
\* transaction that draws it, before anyone sees it.
Prepared(i, w) ==
    IF Kept(i, w) # {} THEN Kept(i, w)
    ELSE IF w = week /\ Cardinality(ledger[i]) < Budget THEN {Drawn(i, w)}
    ELSE {}

\* Mutant of Prepare: the report may leave before it is kept.
PrepareUnkept(i, w, r) ==
    /\ i \in Configured
    /\ Consents(i)
    /\ r \in Prepared(i, w)
    /\ \E kept \in {ledger[i], ledger[i] \cup {r}} :
        ledger' = [ledger EXCEPT ![i] = kept]
    /\ released' = released \cup {r}
    /\ UNCHANGED <<week, consent, posted, digests, aggregate, changes>>

Prepare(i, w, r) ==
    /\ i \in Configured
    /\ Consents(i)
    /\ r \in Prepared(i, w)
    /\ ledger' = [ledger EXCEPT ![i] = @ \cup {r}]
    /\ released' = released \cup {r}
    /\ UNCHANGED <<week, consent, posted, digests, aggregate, changes>>

\* The owner only looks at the report.
PrepareReport(i, w) ==
    /\ \E r \in Prepared(i, w) : Prepare(i, w, r)
    /\ UNCHANGED <<sending, late>>

\* send_report prepares under one lock ...
SendReport(s, i, w) ==
    /\ sending[s] = Resting
    /\ \E r \in Prepared(i, w) :
        /\ Prepare(i, w, r)
        /\ sending' = [sending EXCEPT ![s] = [at |-> "prepared", report |-> r]]
    /\ UNCHANGED late

\* Mutant of Recheck: the consent of the preparation is enough.
RecheckSkipped(s) ==
    /\ sending[s].at = "prepared"
    /\ sending' = [sending EXCEPT ![s].at = "cleared"]
    /\ UNCHANGED <<week, consent, ledger, released, late, posted, digests,
                   aggregate, changes>>

\* ... and reads consent once more under another before it sends.
Recheck(s) ==
    /\ sending[s].at = "prepared"
    /\ sending' = [sending EXCEPT ![s] =
                     IF Consents(sending[s].report.from)
                     THEN [sending[s] EXCEPT !.at = "cleared"] ELSE Resting]
    /\ UNCHANGED <<week, consent, ledger, released, late, posted, digests,
                   aggregate, changes>>

Post(s) ==
    /\ sending[s].at = "cleared"
    /\ posted' = posted \cup {sending[s].report}
    /\ sending' = [sending EXCEPT ![s].at = "waiting"]
    /\ late' = late \ {s}
    /\ UNCHANGED <<week, consent, ledger, released, digests, aggregate, changes>>

\* An answer, the timeout, a lost connection, or a caller that goes away.
EndSending(s) ==
    /\ sending[s] # Resting
    /\ sending' = [sending EXCEPT ![s] = Resting]
    /\ late' = late \ {s}
    /\ UNCHANGED <<week, consent, ledger, released, posted, digests, aggregate,
                   changes>>

------------------------------------------------------------------------------
(* The collector. *)

\* store.add: a report it knows, by its random id, changes nothing.
Added(a, r) == [count |-> a.count + 1, sum |-> a.sum \cup {r},
                again |-> a.again \/ r \in a.sum]

\* Mutant of Arrive: known reports are added again.
ArriveAgain(r) ==
    /\ r.week \in {week, week - 1}
    /\ digests' = digests \cup {r}
    /\ aggregate' = [aggregate EXCEPT ![r.week] = Added(@, r)]
    /\ UNCHANGED <<week, consent, ledger, sending, released, late, posted,
                   changes>>

\* A request that was posted arrives, late or more than once; only reports
\* of this week and the last are taken.
Arrive(r) ==
    /\ r.week \in {week, week - 1}
    /\ r \notin digests
    /\ digests' = digests \cup {r}
    /\ aggregate' = [aggregate EXCEPT ![r.week] = Added(@, r)]
    /\ UNCHANGED <<week, consent, ledger, sending, released, late, posted,
                   changes>>

NextWeek ==
    /\ week < MaxWeek
    /\ week' = week + 1
    /\ UNCHANGED <<consent, ledger, sending, released, late, posted, digests,
                   aggregate, changes>>

\* What everybody may see: the newest week with a report, once it has enough.
Newest == {w \in Week : /\ aggregate[w].count > 0
                        /\ \A v \in Week : aggregate[v].count > 0 => v <= w}

Published == {w \in Newest : aggregate[w].count >= Minimum}

AnalyticsNext ==
    \/ \E i \in Installation, to \in {"on", "off"} : SetConsent(i, to)
    \/ \E i \in Installation, w \in Week : PrepareReport(i, w)
    \/ \E s \in Sender, i \in Installation, w \in Week : SendReport(s, i, w)
    \/ \E s \in Sender : Recheck(s)
    \/ \E s \in Sender : Post(s)
    \/ \E s \in Sender : EndSending(s)
    \/ \E r \in posted : Arrive(r)
    \/ NextWeek

AnalyticsSpec == AnalyticsInit /\ [][AnalyticsNext]_analyticsVars

------------------------------------------------------------------------------
(* What must hold. *)

\* Every variable holds a value of its type.
AnalyticsTypeOK ==
    /\ week \in Week
    /\ consent \in [Installation -> {"unset", "on", "off"}]
    /\ ledger \in [Installation -> SUBSET Report]
    /\ sending \in [Sender -> {Resting} \cup
                      [at : {"prepared", "cleared", "waiting"}, report : Report]]
    /\ released \subseteq Report
    /\ late \subseteq Sender
    /\ posted \subseteq Report
    /\ digests \subseteq Report
    /\ aggregate \in [Week -> [count : Nat, sum : SUBSET Report, again : BOOLEAN]]
    /\ changes \in Nat

\* Of one week of one installation only one randomized output ever leaves
\* the vault, and of an installation at most Budget: retries, lost answers,
\* withdrawn and renewed consent and later weeks draw no second one
\* (prepare_report).
OneRelease ==
    /\ \A r, q \in released : r.from = q.from /\ r.week = q.week => r = q
    /\ \A i \in Installation :
        Cardinality({r \in released : r.from = i}) <= Budget

\* A report goes out without consent only from a handler that had read the
\* consent for the last time before it was withdrawn (send_report).
WithdrawalStops ==
    \A s \in Sender :
        sending[s].at = "cleared" /\ ~ Consents(sending[s].report.from)
            => s \in late

\* The public count of a week is the number of different reports of that
\* week that were released under consent, each in the sums once, however
\* often it was posted; so nothing is published from fewer than Minimum of
\* them (SqliteStore.add, RedisStore.add, snapshot).
CountedOnce ==
    /\ \A w \in Week :
        /\ aggregate[w].count = Cardinality(aggregate[w].sum)
        /\ ~ aggregate[w].again
        /\ aggregate[w].sum \subseteq {r \in released : r.week = w}
    /\ \A w \in Published :
        Cardinality({r \in released : r.week = w}) >= Minimum

\* What the owner of an installation is promised of its reports: drawn once a
\* week, sent under consent, counted once (prepare_report, send_report,
\* store.add).
ReportsAreHonest == OneRelease /\ WithdrawalStops /\ CountedOnce

\* The installations and the collector implement the survey together:
\* whatever owners, senders, lost answers and late requests do, a report is
\* drawn once a week within the budget and under consent, goes out only when
\* consent was read again after that, and is counted once, in time
\* (prepare_report, send_report, store.add).
Reports == INSTANCE Survey WITH
    permitted <- {i \in Installation : Consents(i)},
    drawn <- released,
    spent <- [i \in Installation |-> Cardinality(ledger[i])],
    cleared <- {sending[s].report : s \in {t \in Sender : sending[t].at = "cleared"}},
    sent <- posted,
    public <- [w \in Week |-> [count |-> aggregate[w].count, reports |-> aggregate[w].sum]]

ImplementsSurvey == Reports!SurveySpec

==============================================================================
