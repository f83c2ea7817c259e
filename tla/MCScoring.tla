----------------------------- MODULE MCScoring ------------------------------
(* A small instance of Scoring: curves that fall with latency and jitter    *)
(* and rise with speed, an ordinary setting and one out of range.           *)
EXTENDS Scoring, TLC

CONSTANTS sane, wild

MCParams  == {sane, wild}
MCDecay   == [p \in MCParams |-> IF p = sane THEN <<1, 2>> ELSE <<0, 1>>]
MCWeights == [p \in MCParams |->
    IF p = sane THEN [latency |-> 70, stability |-> 30, speed |-> 40]
                ELSE [latency |-> 0, stability |-> -5, speed |-> 150]]
MCLatencyCurve   == [p \in MCParams |-> [x \in 0..2 |-> 10 - 5 * x]]
MCStabilityCurve == [p \in MCParams |-> [x \in 0..1 |-> 10 - 10 * x]]
MCSpeedCurve     == [x \in 0..1 |-> 10 * x]
MCResults == {[latency |-> 1, jitter |-> 1, speed |-> -1],
              [latency |-> -1, jitter |-> -1, speed |-> Missing]}

Symmetry == Permutations(Tags) \cup Permutations(Workers)
=============================================================================
