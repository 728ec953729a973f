----------------------------- MODULE MCServices -----------------------------
(***************************************************************************)
(* Five parts that share no state, checked by one run: the runtime, the    *)
(* pairing code, the provider profiles, the weekly reports and their       *)
(* histograms.  turn, chosen at the start, says which of them moves, the   *)
(* others rest: as no step of one reads or writes what another owns, every *)
(* interleaving of them shows each part exactly the behaviours it has here.*)
(***************************************************************************)
EXTENDS Administration, Analytics, Histogram, Runtime, Pairing

CONSTANTS k1, k2, m1, local, gptHost, claudeHost

VARIABLE turn

\* Updates that leave most fields out, in the combinations that interact.
Keeping == [kind |-> "keep", base |-> Keep, model |-> Keep, enabled |-> "keep",
            key |-> Keep, rates |-> "keep"]

MCPatch ==
    {[Keeping EXCEPT !.base = b, !.key = k, !.model = m] :
        b \in {Keep, local, gptHost}, k \in {Keep, None, k2}, m \in {Keep, m1}}
    \cup {[Keeping EXCEPT !.enabled = e, !.kind = k] :
            e \in Switch \cup {"keep"}, k \in {"keep", "ollama", "anthropic"}}
    \cup {[Keeping EXCEPT !.model = m, !.rates = r] :
            m \in {None, m1, Keep}, r \in {"set", "clear"}}

\* A desktop with a local model, and a phone without a model.
MCConfig ==
    {[base |-> local, key |-> None, model |-> m1, anthropic |-> claudeHost,
      anthropicKey |-> k1, gpt |-> m1, claude |-> m1],
     [base |-> gptHost, key |-> k1, model |-> None, anthropic |-> local,
      anthropicKey |-> None, gpt |-> m1, claude |-> m1]}

MCAllowlist == {Base, {gptHost}}

------------------------------------------------------------------------------
ServicesVars == <<adminVars, analyticsVars, histogramVars, runtimeVars,
                  pairingVars, turn>>

AdminRests == UNCHANGED adminVars
AnalyticsRests == UNCHANGED analyticsVars
HistogramRests == UNCHANGED histogramVars
RuntimeRests == UNCHANGED runtimeVars
PairingRests == UNCHANGED pairingVars

ServicesInit ==
    /\ turn \in {"administration", "analytics", "histogram", "runtime", "pairing"}
    /\ AdminInit /\ AnalyticsInit /\ HistogramInit /\ RuntimeInit /\ PairingInit
    \* One initial state is enough of a part that rests.
    /\ turn # "administration" => made = 3 /\ allowed = Base
    /\ turn # "pairing" => ticket

ServicesNext ==
    /\ UNCHANGED turn
    /\ \/ /\ turn = "administration" /\ AdminNext
          /\ AnalyticsRests /\ HistogramRests /\ RuntimeRests /\ PairingRests
       \/ /\ turn = "analytics" /\ AnalyticsNext
          /\ AdminRests /\ HistogramRests /\ RuntimeRests /\ PairingRests
       \/ /\ turn = "histogram" /\ HistogramNext
          /\ AdminRests /\ AnalyticsRests /\ RuntimeRests /\ PairingRests
       \/ /\ turn = "runtime" /\ RuntimeNext
          /\ AdminRests /\ AnalyticsRests /\ HistogramRests /\ PairingRests
       \/ /\ turn = "pairing" /\ PairingNext
          /\ AdminRests /\ AnalyticsRests /\ HistogramRests /\ RuntimeRests

\* A waiting shutdown ends, and nothing else moves.
ShutdownStep(c) ==
    /\ turn = "runtime" /\ UNCHANGED turn
    /\ EndsWaiting(c)
    /\ AdminRests /\ AnalyticsRests /\ HistogramRests /\ PairingRests

\* Only what shutdown itself does is sure to happen: its timer, and its
\* return.  Requests may hang for ever.
ShutdownRuns(c) == WF_ServicesVars(ShutdownStep(c))

ServicesFair == \A c \in Core : ShutdownRuns(c)

ServicesSpec == ServicesInit /\ [][ServicesNext]_ServicesVars /\ ServicesFair

=============================================================================
