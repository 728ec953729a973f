------------------------------- MODULE Survey -------------------------------
(***************************************************************************)
(* What the weekly reports promise their owners and their readers: an      *)
(* installation whose owner permits it draws at most one report a week and *)
(* Budget ever; a report goes out only when the owner permitted it after   *)
(* it was drawn; and the public count of a week is of different reports    *)
(* that went out in time.                                                  *)
(* Abstract specification implemented by module Analytics.                 *)
(***************************************************************************)
EXTENDS Naturals

CONSTANTS
    Installation,
    Week,
    Budget          \* reports an installation may ever draw

VARIABLES
    week,           \* the current week
    permitted,      \* installations whose owner permits reports
    drawn,          \* reports ever drawn: who draws, and for which week
    spent,          \* how many of them every installation drew
    cleared,        \* reports that may go out
    sent,           \* reports that went out
    public          \* per week, how many reports were counted, and which

surveyVars == <<week, permitted, drawn, spent, cleared, sent, public>>

SurveyInit ==
    /\ week = 1
    /\ permitted \subseteq Installation
    /\ drawn = {}
    /\ spent = [i \in Installation |-> 0]
    /\ cleared = {}
    /\ sent = {}
    /\ public = [w \in Week |-> [count |-> 0, reports |-> {}]]

\* Owners change their minds at any time.
Decide ==
    /\ permitted' \subseteq Installation
    /\ UNCHANGED <<week, drawn, spent, cleared, sent, public>>

Draw(r) ==
    /\ r.from \in permitted
    /\ r.week = week
    /\ \A q \in drawn : q.from = r.from => q.week # week
    /\ spent[r.from] < Budget
    /\ drawn' = drawn \cup {r}
    /\ spent' = [spent EXCEPT ![r.from] = @ + 1]
    /\ UNCHANGED <<week, permitted, cleared, sent, public>>

Clear(r) ==
    /\ r.from \in permitted
    /\ cleared' = cleared \cup {r}
    /\ UNCHANGED <<week, permitted, drawn, spent, sent, public>>

\* A report that was cleared goes out, and needs to be cleared again before
\* it goes out again, or another sender cleared it too.
Send(r) ==
    /\ sent' = sent \cup {r}
    /\ cleared' \in {cleared, cleared \ {r}}
    /\ UNCHANGED <<week, permitted, drawn, spent, public>>

Withdraw(r) ==
    /\ cleared' = cleared \ {r}
    /\ UNCHANGED <<week, permitted, drawn, spent, sent, public>>

Count(r) ==
    /\ r.week \in {week, week - 1}
    /\ r \notin public[r.week].reports
    /\ public' = [public EXCEPT ![r.week] =
                    [count |-> @.count + 1, reports |-> @.reports \cup {r}]]
    /\ UNCHANGED <<week, permitted, drawn, spent, cleared, sent>>

WeekPasses ==
    /\ week' = week + 1
    /\ UNCHANGED <<permitted, drawn, spent, cleared, sent, public>>

SurveyNext ==
    \/ Decide
    \/ \E r \in drawn' \ drawn : Draw(r)
    \/ \E r \in drawn : Clear(r)
    \/ \E r \in cleared : Send(r) \/ Withdraw(r)
    \/ \E r \in sent : Count(r)
    \/ WeekPasses

SurveySpec == SurveyInit /\ [][SurveyNext]_surveyVars
==============================================================================
