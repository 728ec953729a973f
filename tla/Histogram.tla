------------------------------ MODULE Histogram ------------------------------
(***************************************************************************)
(* The histograms that prepare_report hands to the noise (analytics.rs):   *)
(* interactions are counted in eight bins per measure and the counts are   *)
(* put on a lattice whose units add up to exactly one whole, whatever was  *)
(* counted: the sensitivity that the noise is scaled for rests on that.    *)
(* Rows are counted by bin; two measures, latency and tokens.              *)
(***************************************************************************)
EXTENDS Integers, FiniteSets

CONSTANTS
    Latency,    \* header latencies in milliseconds; Missing: none
    Tokens,     \* token counts a provider reports; Missing: none
    Missing,
    MaxRows     \* bound: interactions of a week

ASSUME HistogramAssumption ==
    /\ Latency \subseteq Nat /\ Tokens \subseteq Nat
    /\ MaxRows \in Nat

VARIABLES
    latency, tokens    \* the week's interactions, counted by bin

histogramVars == <<latency, tokens>>

Bin == 0..7
Whole == 65536

HistogramInit ==
    /\ latency = [b \in Bin |-> 0]
    /\ tokens = [b \in Bin |-> 0]

\* The bin after the last of the limits that are not above x; bin 0 is
\* for a week without interactions, bin 1 for what was not measured.
Bucket(x, limits) == 2 + Cardinality({k \in DOMAIN limits : limits[k] <= x})

LatencyBucket(ms) ==
    IF ms = Missing THEN 1 ELSE Bucket(ms, <<250, 1000, 3000, 10000, 30000>>)

TokenBucket(n) ==
    IF n = Missing THEN 1 ELSE Bucket(n, <<128, 512, 2048, 8192, 32768>>)

Total(counts) ==
    counts[0] + counts[1] + counts[2] + counts[3] +
    counts[4] + counts[5] + counts[6] + counts[7]

\* Vault::interaction: the tokens are not known yet.
Interaction(ms) ==
    /\ Total(latency) < MaxRows
    /\ latency' = [latency EXCEPT ![LatencyBucket(ms)] = @ + 1]
    /\ tokens' = [tokens EXCEPT ![TokenBucket(Missing)] = @ + 1]

\* complete_interaction and update_interaction_tokens: a row changes bins.
SetTokens(from, n) ==
    /\ tokens[from] > 0
    /\ tokens' = [[tokens EXCEPT ![from] = @ - 1]
                    EXCEPT ![TokenBucket(n)] = @ + 1]
    /\ UNCHANGED latency

HistogramNext ==
    \/ \E ms \in Latency \cup {Missing} : Interaction(ms)
    \/ \E from \in Bin, n \in Tokens \cup {Missing} : SetTokens(from, n)

HistogramSpec == HistogramInit /\ [][HistogramNext]_histogramVars

------------------------------------------------------------------------------
\* A bin's share, rounded down.
Share(counts, b) == (counts[b] * Whole) \div Total(counts)
Shares(counts) == [b \in Bin |-> Share(counts, b)]

\* The histogram of a week without interactions.
Empty == [b \in Bin |-> IF b = 0 THEN Whole ELSE 0]

\* Mutant of Quantized: what rounding leaves over is forgotten.
QuantizedDown(counts) ==
    IF Total(counts) = 0 THEN Empty ELSE Shares(counts)

\* What rounding leaves over goes to bin 1.
Quantized(counts) ==
    IF Total(counts) = 0 THEN Empty
    ELSE [Shares(counts) EXCEPT ![1] = @ + Whole - Total(Shares(counts))]

Distance(a, b) == IF a < b THEN b - a ELSE a - b

\* Every histogram is exactly one whole, without negative parts, uses bin 0
\* for nothing but a week without interactions, and is off by less than one
\* unit in every measured bin; both measures count the same rows.
LatticeExact ==
    /\ Total(latency) = Total(tokens)
    /\ \A counts \in {latency, tokens} :
        LET q == Quantized(counts)
        IN  /\ Total(q) = Whole
            /\ q[0] = IF Total(counts) = 0 THEN Whole ELSE 0
            /\ \A b \in Bin \ {0, 1} :
                Distance(q[b] * Total(counts), counts[b] * Whole)
                    <= IF Total(counts) = 0 THEN 0 ELSE Total(counts) - 1
            /\ \A b \in Bin : q[b] >= 0

==============================================================================
