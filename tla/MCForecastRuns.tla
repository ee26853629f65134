--------------------------- MODULE MCForecastRuns ---------------------------
(* Instances of ForecastRuns for TLC.  Adapters are model values: the order of *)
(* their ids plays no role in ForecastRuns.                                    *)
EXTENDS ForecastRuns, TLC

CONSTANTS a1, a2

\* Comparisons only
MCCompared == {{a1, a2}}

MCSymmetry ==
  Permutations(Run) \cup Permutations(Request) \cup Permutations(Adapter)

\* One request that stops, or one lease that runs out
OneFault == faults.stops + faults.lapses <= 1
=============================================================================
