----------------------------- MODULE Recommend ------------------------------
(***************************************************************************)
(* internal/recommend: from a window of usage samples and the thresholds   *)
(* of one resource to a request and a limit, and the change that decides   *)
(* whether a pull request is opened.                                       *)
(*                                                                         *)
(* float64 is modelled by exact fractions: a sample is a number of 1/Unit  *)
(* of the base unit (millicores, bytes), and everything computed from it a *)
(* number of 1/Scale.  Rounding errors of float64 are not modelled.        *)
(*                                                                         *)
(* Samples are a function from observations to numbers.  The code keeps    *)
(* them in a slice, which it sorts before it reads it: their order has no  *)
(* meaning, how often a number occurs has.                                 *)
(***************************************************************************)
EXTENDS Integers, FiniteSets

CONSTANTS Unit,    \* sample parts in a base unit
          Unset    \* a quantity that is empty or does not parse

ASSUME UnitAssumption == Unit \in Nat \ {0}
ASSUME UnsetAssumption == Unset \notin Nat

\* Parts of a base unit in a request: hundredths of the percentile's
\* interpolation times hundredths of the headroom.
Scale == Unit * 10000

\* ResourceThresholds.  The multiplier counts tenths.
Thresholds == [percentile : 0..100, headroom : 0..500, multiplier : Nat \ {0},
               min : Nat \cup {Unset}, max : Nat \cup {Unset}]

Count(samples) == Cardinality(DOMAIN samples)

\* The samples below a number, and those up to it.
Under(samples, v) == {i \in DOMAIN samples : samples[i] < v}
UpTo(samples, v) == {i \in DOMAIN samples : samples[i] <= v}

\* sorted[k - 1]: fewer than k samples are below it, at least k are not above.
Ranked(samples, k) ==
    CHOOSE v \in {samples[i] : i \in DOMAIN samples} :
        /\ Cardinality(Under(samples, v)) < k
        /\ Cardinality(UpTo(samples, v)) >= k

\* Linear interpolation between closest ranks, in hundredths of a sample part.
Percentile(samples, p) ==
    LET rank == p * (Count(samples) - 1)
        low == rank \div 100
        frac == rank % 100
    IN  IF frac = 0 THEN 100 * Ranked(samples, low + 1)
        ELSE Ranked(samples, low + 1) * (100 - frac) + Ranked(samples, low + 2) * frac

\* The zero value of percentile stands for 95.
PercentileOf(thresholds) ==
    IF thresholds.percentile = 0 THEN 95 ELSE thresholds.percentile

\* Mutant: the floor is used only where there is no ceiling.
ClampsOnce(request, thresholds) ==
    LET low == thresholds.min # Unset /\ request < thresholds.min * Scale
        high == thresholds.max # Unset /\ request > thresholds.max * Scale
    IN  IF high THEN thresholds.max * Scale
        ELSE IF low /\ thresholds.max = Unset THEN thresholds.min * Scale ELSE request

\* MinRequest first, MaxRequest last.
Clamped(request, thresholds) ==
    LET floor == thresholds.min
        raised == IF floor # Unset /\ request < floor * Scale THEN floor * Scale ELSE request
        ceiling == thresholds.max
    IN  IF ceiling # Unset /\ raised > ceiling * Scale THEN ceiling * Scale ELSE raised

\* Recommend's Request and Limit, the limit in tenths of the request's parts.
Request(samples, thresholds) ==
    Clamped(Percentile(samples, PercentileOf(thresholds)) * (100 + thresholds.headroom),
            thresholds)

Limit(samples, thresholds) == Request(samples, thresholds) * thresholds.multiplier

\* Mutant: truncation.
Truncate(amount, parts) == amount \div parts

\* roundInt64 of amount / parts.
Round(amount, parts) == (2 * amount + parts) \div (2 * parts)

Distance(a, b) == IF a < b THEN b - a ELSE a - b

\* ChangePercent as a fraction: <<hundreds, wholes>> of the current request.
ChangePercent(current, request) ==
    IF current = 0 THEN <<IF request = 0 THEN 0 ELSE 100, 1>>
    ELSE <<Distance(request, current * Scale) * 100, current * Scale>>

Below(fraction, percent) == fraction[1] < percent * fraction[2]
=============================================================================
