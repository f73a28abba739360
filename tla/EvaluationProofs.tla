-------------------------- MODULE EvaluationProofs --------------------------
(***************************************************************************)
(* One container over time, for any number of pods, any points they        *)
(* report, any specs, windows and lengths of history: what RecommendProofs *)
(* says of samples holds of those that the loop queries.                   *)
(***************************************************************************)
EXTENDS Evaluation, RecommendProofs, SequenceTheorems

-----------------------------------------------------------------------------
(* Types.                                                                  *)

LEMMA ReportTypes == Reports \subseteq [Pods -> Nat \cup {NaN}]
  <1> SUFFICES ASSUME NEW report \in Reports PROVE report \in [Pods -> Nat \cup {NaN}]
      OBVIOUS
  <1>1. DOMAIN report = Pods /\ report = [pod \in Pods |-> report[pod]]
        BY DEF Reports
  <1>2. \A pod \in Pods : report[pod] \in Nat \cup {NaN}
        BY PointsAssumption DEF Reports
  <1> QED  BY <1>1, <1>2

LEMMA SamplesType ==
  ASSUME TypeOK, NEW d \in Dimensions
  PROVE  /\ DOMAIN Samples(d) = Observations(d)
         /\ IsFiniteSet(Observations(d))
         /\ \A o \in Observations(d) :
               /\ o[1] \in DOMAIN history /\ o[2] \in Pods
               /\ Samples(d)[o] = history[o[1]][d][o[2]]
               /\ Samples(d)[o] \in Nat
  <1>1. DOMAIN history = 1..Len(history) /\ Len(history) \in Nat
        BY LenProperties DEF TypeOK
  <1>2. IsFiniteSet(InWindow)
    <2>1. IsFiniteSet(1..Len(history))
          BY <1>1, FS_Interval
    <2> QED  BY <1>1, <2>1, FS_Subset DEF InWindow
  <1>3. IsFiniteSet(Queried)
        BY PodsAssumption, FS_Subset DEF Queried
  <1>4. IsFiniteSet(Observations(d))
    <2>1. IsFiniteSet(InWindow \X Queried)
          BY <1>2, <1>3, FS_Product
    <2> QED  BY <2>1, FS_Subset DEF Observations
  <1>5. ASSUME NEW o \in Observations(d)
        PROVE  /\ o[1] \in DOMAIN history /\ o[2] \in Pods
               /\ Samples(d)[o] = history[o[1]][d][o[2]]
               /\ Samples(d)[o] \in Nat
    <2>1. o[1] \in DOMAIN history /\ o[2] \in Pods
          BY PodsAssumption DEF Observations, InWindow, Queried
    <2>2. history[o[1]] \in [Dimensions -> Reports]
          BY <1>1, <2>1 DEF TypeOK
    <2>3. history[o[1]][d] \in [Pods -> Nat \cup {NaN}]
          BY <2>2, ReportTypes
    <2>4. history[o[1]][d][o[2]] \in Nat \cup {NaN}
          BY <2>1, <2>3
    <2> QED  BY <2>1, <2>4 DEF Samples, Observations
  <1> QED  BY <1>4, <1>5 DEF Samples

\* Where there is enough, the engine has samples to work with.
LEMMA EnoughIsSampled ==
  ASSUME TypeOK, Enough, NEW d \in Dimensions
  PROVE  Sampled(Samples(d)) /\ spec.thresholds[d] \in Thresholds
  <1>1. spec.minSamples \in Nat \ {0} /\ spec.thresholds[d] \in Thresholds
        BY DEF TypeOK, PolicySpec
  <1>2. Cardinality(Observations(d)) >= spec.minSamples
        BY SamplesType DEF Enough, Count
  <1>3. Observations(d) # {}
        BY <1>1, <1>2, FS_EmptySet
  <1> QED  BY <1>1, <1>3, SamplesType DEF Sampled

LEMMA PatchType ==
  ASSUME TypeOK, Enough
  PROVE  Patch \in [requests : Amounts, limits : Amounts]
  <1>1. ASSUME NEW d \in Dimensions
        PROVE  /\ Round(RequestOf(d), Scale) \in Nat
               /\ Round(LimitOf(d), 10 * Scale) \in Nat
        BY EnoughIsSampled, RoundedIsAdmissible DEF RequestOf, LimitOf
  <1> QED  BY <1>1 DEF Patch, Amounts

LEMMA InitType == Init => TypeOK
  <1> SUFFICES ASSUME Init PROVE TypeOK
      OBVIOUS
  <1>1. current \in Amounts
        BY CountsAssumption DEF Init, Amounts
  <1>2. history \in Seq([Dimensions -> Reports]) /\ Len(history) <= Retention
        BY CountsAssumption DEF Init
  <1> QED  BY <1>1, <1>2, SpecsAssumption DEF Init, TypeOK

LEMMA NextType == TypeOK /\ [Next]_vars => TypeOK'
  <1> SUFFICES ASSUME TypeOK, [Next]_vars PROVE TypeOK'
      OBVIOUS
  <1> USE DEF TypeOK
  <1>1. CASE Scrape
    <2> PICK reports \in [Dimensions -> Reports] :
           history' = IF Len(history) < Retention THEN Append(history, reports)
                                                  ELSE Append(Tail(history), reports)
        BY <1>1 DEF Scrape
    <2>1. CASE Len(history) < Retention
          BY <1>1, <2>1, CountsAssumption DEF Scrape
    <2>2. CASE ~(Len(history) < Retention)
      <3>1. history # <<>> /\ Len(history) = Retention
            BY <2>2, CountsAssumption
      <3>2. /\ Tail(history) \in Seq([Dimensions -> Reports])
            /\ Len(Tail(history)) = Len(history) - 1
            BY <3>1
      <3> QED  BY <1>1, <2>2, <3>1, <3>2, CountsAssumption DEF Scrape
    <2> QED  BY <2>1, <2>2
  <1>2. CASE Evaluate
        BY <1>2, PatchType DEF Evaluate
  <1>3. CASE Apply
        BY <1>3 DEF Apply
  <1>4. CASE Reject
        BY <1>4 DEF Reject
  <1>5. CASE UNCHANGED vars
        BY <1>5 DEF vars
  <1> QED  BY <1>1, <1>2, <1>3, <1>4, <1>5 DEF Next

\* The types, for any pods, points, specs and bounds: in particular a patch
\* always has a number for both dimensions (resourcepolicy_controller.go:232).
THEOREM EvaluationTypeCorrect == Spec => []TypeOK
  BY InitType, NextType, PTL DEF Spec

-----------------------------------------------------------------------------
(* Patches.                                                                *)

Admissible(patch) ==
    \A d \in Dimensions :
        LET t == spec.thresholds[d] IN
          /\ t.min # Unset /\ (t.max # Unset => t.min <= t.max) =>
                patch.requests[d] >= t.min
          /\ t.max # Unset => patch.requests[d] <= t.max
          /\ t.multiplier >= 10 => patch.limits[d] >= patch.requests[d]

LEMMA NewPatchIsAdmissible ==
  ASSUME TypeOK, Enough
  PROVE  Admissible(Patch)
  <1> SUFFICES ASSUME NEW d \in Dimensions
               PROVE  LET t == spec.thresholds[d] IN
                        /\ t.min # Unset /\ (t.max # Unset => t.min <= t.max) =>
                              Patch.requests[d] >= t.min
                        /\ t.max # Unset => Patch.requests[d] <= t.max
                        /\ t.multiplier >= 10 => Patch.limits[d] >= Patch.requests[d]
      BY DEF Admissible
  <1>1. /\ Patch.requests[d] = Round(Request(Samples(d), spec.thresholds[d]), Scale)
        /\ Patch.limits[d] = Round(Limit(Samples(d), spec.thresholds[d]), 10 * Scale)
        BY DEF Patch, RequestOf, LimitOf
  <1> QED  BY <1>1, EnoughIsSampled, RoundedIsAdmissible

LEMMA NextAdmissible ==
  TypeOK /\ PatchIsAdmissible /\ [Next]_vars => PatchIsAdmissible'
  <1> SUFFICES ASSUME TypeOK, PatchIsAdmissible, [Next]_vars PROVE PatchIsAdmissible'
      OBVIOUS
  <1>1. CASE proposal' = proposal /\ spec' = spec
        BY <1>1 DEF PatchIsAdmissible
  <1>2. CASE Evaluate
    <2>1. Admissible(Patch) /\ proposal' = Patch /\ spec' = spec
          BY <1>2, NewPatchIsAdmissible DEF Evaluate
    <2> QED  BY <2>1 DEF Admissible, PatchIsAdmissible
  <1>3. CASE proposal' = NoPatch
        BY <1>3 DEF PatchIsAdmissible
  <1> QED  BY <1>1, <1>2, <1>3 DEF Next, Scrape, Apply, Reject, vars

\* A patch that is open asks for what its policy allows (engine.go:115,
\* resourcepolicy_controller.go:244), however long ago it was computed.
THEOREM OpenPatchIsAdmissible == Spec => []PatchIsAdmissible
  <1>1. Init => PatchIsAdmissible
        BY DEF Init, PatchIsAdmissible
  <1> QED  BY <1>1, NextAdmissible, EvaluationTypeCorrect, PTL DEF Spec

-----------------------------------------------------------------------------
(* Requests.                                                               *)

\* A point that passes the rounded request by half a unit or more passes the
\* request itself.
LEMMA PassesRounded ==
  ASSUME NEW request \in Nat, NEW point \in Nat,
         2 * point >= (2 * Round(request, Scale) + 1) * Unit
  PROVE  point * 10000 > request
  <1> DEFINE rounded == Round(request, Scale)
  <1>1. Unit \in Nat \ {0} /\ Scale = Unit * 10000 /\ Scale \in Nat \ {0}
        BY UnitAssumption, ScaleType DEF Scale
  <1>2. rounded \in Nat /\ 2 * request + Scale < 2 * Scale * (rounded + 1)
        BY <1>1, Rounding
  <1>3. 2 * point >= (2 * rounded + 1) * Unit
        OBVIOUS
  <1> HIDE DEF rounded
  <1>4. 2 * Scale * (rounded + 1) = 10000 * ((2 * rounded + 1) * Unit) + Scale
        BY <1>1, <1>2
  <1>5. (2 * rounded + 1) * Unit \in Nat
        BY <1>1, <1>2
  <1>6. 2 * request < 10000 * ((2 * rounded + 1) * Unit)
        BY <1>1, <1>2, <1>4, <1>5
  <1> QED  BY <1>3, <1>5, <1>6

LEMMA CoversUsage == TypeOK => RequestCovers
  <1> SUFFICES ASSUME TypeOK, Enough, NEW d \in Dimensions, spec.thresholds[d].max = Unset
               PROVE  LET t == spec.thresholds[d]
                          request == Round(RequestOf(d), Scale)
                          usage == Usage(d)
                          above == {u \in usage :
                                      2 * history[u[1]][d][u[2]] >= (2 * request + 1) * Unit}
                      IN  100 * Cardinality(above)
                             <= (100 - PercentileOf(t)) * (Cardinality(usage) - 1) + 99
      BY DEF RequestCovers
  <1>1. Usage(d) = Observations(d)
    <2>1. Len(history) \in Nat /\ DOMAIN history = 1..Len(history)
          BY LenProperties DEF TypeOK
    <2>2. ParseWindow(spec.window) \in Int
      <3>1. spec.window.number \in Int /\ spec.window.days \in BOOLEAN
            BY DEF TypeOK, PolicySpec
      <3> QED  BY <3>1, CountsAssumption DEF ParseWindow
    <2>3. \A step \in DOMAIN history :
             step + ParseWindow(spec.window) >= Len(history) <=> step \in InWindow
          BY <2>1, <2>2 DEF InWindow
    <2>4. InWindow \subseteq DOMAIN history
          BY DEF InWindow
    <2> QED  BY <2>3, <2>4 DEF Usage, Observations, Queried
  <1>2. \A o \in Observations(d) :
           Samples(d)[o] = history[o[1]][d][o[2]] /\ Samples(d)[o] \in Nat
        BY SamplesType
  <1>3. /\ DOMAIN Samples(d) = Observations(d) /\ IsFiniteSet(Observations(d))
        /\ Count(Samples(d)) = Cardinality(Usage(d))
        BY <1>1, SamplesType DEF Count
  <1>4. Sampled(Samples(d)) /\ spec.thresholds[d] \in Thresholds
        BY EnoughIsSampled
  <1>5. RequestOf(d) \in Nat /\ RequestOf(d) = Request(Samples(d), spec.thresholds[d])
        BY <1>4, RequestBounds DEF RequestOf
  <1> DEFINE above == {u \in Usage(d) : 2 * history[u[1]][d][u[2]]
                                          >= (2 * Round(RequestOf(d), Scale) + 1) * Unit}
             over == {i \in DOMAIN Samples(d) :
                        Samples(d)[i] * 10000 > Request(Samples(d), spec.thresholds[d])}
             left == 100 - PercentileOf(spec.thresholds[d])
  <1>6. above \subseteq over
        BY <1>1, <1>2, <1>3, <1>5, PassesRounded
  <1>7. /\ Cardinality(above) \in Nat /\ Cardinality(over) \in Nat
        /\ Cardinality(above) <= Cardinality(over)
    <2>1. IsFiniteSet(over)
          BY <1>3, FS_Subset
    <2>2. IsFiniteSet(above) /\ Cardinality(above) <= Cardinality(over)
          BY <1>6, <2>1, FS_Subset
    <2> QED  BY <2>1, <2>2, FS_CardinalityType
  <1>8. 100 * Cardinality(over) <= left * (Count(Samples(d)) - 1) + 99
        BY <1>4, RequestIsEnough
  <1>9. left \in Nat /\ Count(Samples(d)) \in Nat
        BY <1>4, WantedType, Counts
  <1>10. 100 * Cardinality(above) <= left * (Cardinality(Usage(d)) - 1) + 99
    <2> HIDE DEF above, over, left
    <2>1. left * (Count(Samples(d)) - 1) + 99 \in Int
          BY <1>9
    <2> QED  BY <1>3, <1>7, <1>8, <2>1
  <1> QED  BY <1>10

\* The proposed request covers what the pods that the query matches used
\* (prometheus.go:45, controller.go:234), the Deployment's own among them.
THEOREM RequestsCoverUsage == Spec => []RequestCovers
  BY CoversUsage, EvaluationTypeCorrect, PTL

-----------------------------------------------------------------------------
(* Decisions.                                                              *)

LEMMA ChangeOfType ==
  ASSUME TypeOK, Enough, NEW d \in Dimensions
  PROVE  /\ RequestOf(d) \in Nat /\ current[d] \in Nat
         /\ ChangeOf(d)[1] \in Nat /\ ChangeOf(d)[2] \in Nat \ {0}
  <1>1. RequestOf(d) \in Nat
        BY EnoughIsSampled, RequestBounds DEF RequestOf
  <1>2. current[d] \in Nat
        BY DEF TypeOK, Amounts
  <1> QED  BY <1>1, <1>2, ChangeType DEF ChangeOf

LEMMA QuietAboveFive == TypeOK => StableIsQuietAboveFive
  <1> SUFFICES ASSUME TypeOK, spec.percent >= 10, Enough, current = Patch.requests,
                      \A d \in Dimensions : current[d] > 5, NEW d \in Dimensions
               PROVE  Below(ChangeOf(d), spec.percent)
      BY DEF StableIsQuietAboveFive, Changed
  <1>1. current[d] = Round(RequestOf(d), Scale)
        BY DEF Patch
  <1>2. spec.percent \in Nat
        BY DEF TypeOK, PolicySpec
  <1> QED  BY <1>1, <1>2, ChangeOfType, RoundingIsQuiet DEF ChangeOf

\* A workload that is stable is left alone (README.md, How it works, 4), with
\* the default threshold and requests of six units and more.
THEOREM StableIsLeftAlone == Spec => []StableIsQuietAboveFive
  BY QuietAboveFive, EvaluationTypeCorrect, PTL

-----------------------------------------------------------------------------
(* Reports.                                                                *)

Rounded(d) == Round(ChangeOf(d)[1], ChangeOf(d)[2])

\* The largest of the rounded changes is one of them.
LEMMA LargestRounded ==
  ASSUME TypeOK, Enough
  PROVE  /\ \E d \in Dimensions : Max(RoundedChanges) = Rounded(d)
         /\ \A d \in Dimensions : Rounded(d) \in Nat /\ Rounded(d) <= Max(RoundedChanges)
  <1>1. \A d \in Dimensions : Rounded(d) \in Nat
        BY ChangeOfType, Rounding DEF Rounded
  <1> DEFINE f == [d \in Dimensions |-> Rounded(d)]
  <1>2. PICK e \in Dimensions : \A d \in Dimensions : f[d] <= f[e]
    <2>1. \A d \in Dimensions : f[d] \in Nat
          BY <1>1
    <2> HIDE DEF f
    <2> QED  BY <2>1, DimensionsAssumption, LargestValue
  <1>3. RoundedChanges = {Rounded(d) : d \in Dimensions}
        BY DEF RoundedChanges, Rounded
  <1>4. \E x \in RoundedChanges : \A y \in RoundedChanges : x >= y
    <2>1. \A d \in Dimensions : Rounded(d) <= Rounded(e)
          BY <1>2
    <2>2. \A y \in RoundedChanges : Rounded(e) >= y
          BY <1>1, <1>3, <2>1
    <2> QED  BY <1>3, <2>2
  <1>5. /\ Max(RoundedChanges) \in RoundedChanges
        /\ \A y \in RoundedChanges : Max(RoundedChanges) >= y
        BY <1>4 DEF Max
  <1> QED  BY <1>1, <1>3, <1>5

\* int32 keeps a number that fits.
LEMMA FittingIsKept ==
  ASSUME NEW n \in Nat, n < IntLimit
  PROVE  Int32(n) = n
  <1>1. IntLimit \in Nat \ {0}
        BY CountsAssumption
  <1>2. n + IntLimit \in Nat /\ n + IntLimit < 2 * IntLimit /\ 2 * IntLimit \in Nat \ {0}
        BY <1>1
  <1>3. (n + IntLimit) % (2 * IntLimit) = n + IntLimit
    <2>1. \A a \in Nat, b \in Nat \ {0} : a < b => a % b = a
          OBVIOUS
    <2> QED  BY <1>2, <2>1
  <1> QED  BY <1>1, <1>3 DEF Int32

LEMMA ReportMatches == TypeOK => ReportMatchesDecision
  <1> SUFFICES ASSUME TypeOK, Enough, \A d \in Dimensions : Below(ChangeOf(d), IntLimit - 1)
               PROVE  /\ \A d \in Dimensions :
                            2 * ChangeOf(d)[1] <= (2 * ReportedChange + 1) * ChangeOf(d)[2]
                      /\ IF Changed THEN ReportedChange >= spec.percent
                                    ELSE ReportedChange <= spec.percent
      BY DEF ReportMatchesDecision
  <1> DEFINE largest == Max(RoundedChanges)
             percent == spec.percent
  <1>1. percent \in Nat \ {0} /\ IntLimit \in Nat \ {0}
        BY CountsAssumption DEF TypeOK, PolicySpec
  <1>2. PICK e \in Dimensions : largest = Rounded(e)
        BY LargestRounded
  <1>3. \A d \in Dimensions : Rounded(d) \in Nat /\ Rounded(d) <= largest
        BY LargestRounded
  <1>4. largest \in Nat
        BY <1>2, <1>3
  <1> HIDE DEF largest, percent
  <1>5. ASSUME NEW d \in Dimensions, NEW a, NEW b,
               a = ChangeOf(d)[1], b = ChangeOf(d)[2]
        PROVE  /\ a \in Nat /\ b \in Nat \ {0}
               /\ 2 * b * Rounded(d) <= 2 * a + b /\ 2 * a + b < 2 * b * (Rounded(d) + 1)
               /\ \A q \in Nat : a < q * b => Rounded(d) <= q
               /\ \A q \in Nat : ~(a < q * b) => Rounded(d) >= q
    <2>1. /\ a \in Nat /\ b \in Nat \ {0} /\ Rounded(d) = Round(a, b)
          /\ 2 * b * Rounded(d) <= 2 * a + b /\ 2 * a + b < 2 * b * (Rounded(d) + 1)
          BY <1>5, ChangeOfType, Rounding DEF Rounded
    <2>2. ASSUME NEW q \in Nat, a < q * b PROVE Rounded(d) <= q
      <3>1. 2 * b * (q + 1) = 2 * (q * b) + 2 * b /\ q * b \in Nat
            BY <2>1
      <3>2. 2 * a + b < 2 * b * (q + 1)
            BY <2>1, <2>2, <3>1
      <3> QED  BY <2>1, <3>2, RoundAtMost
    <2>3. ASSUME NEW q \in Nat, ~(a < q * b) PROVE Rounded(d) >= q
      <3>1. 2 * b * q = 2 * (q * b) /\ q * b \in Nat
            BY <2>1
      <3>2. 2 * b * q <= 2 * a + b
            BY <2>1, <2>3, <3>1
      <3> QED  BY <2>1, <3>2, RoundAtLeast
    <2> QED  BY <2>1, <2>2, <2>3
  <1>6. ReportedChange = largest
    <2>1. PICK a, b : a = ChangeOf(e)[1] /\ b = ChangeOf(e)[2]
          OBVIOUS
    <2>2. a < (IntLimit - 1) * b /\ IntLimit - 1 \in Nat
          BY <1>1, <2>1 DEF Below
    <2>3. Rounded(e) <= IntLimit - 1
          BY <1>5, <2>1, <2>2
    <2>4. largest < IntLimit
          BY <1>1, <1>2, <1>4, <2>3
    <2> QED  BY <1>4, <2>4, FittingIsKept DEF ReportedChange, largest
  <1>7. ASSUME NEW d \in Dimensions
        PROVE  2 * ChangeOf(d)[1] <= (2 * largest + 1) * ChangeOf(d)[2]
    <2>1. PICK a, b : a = ChangeOf(d)[1] /\ b = ChangeOf(d)[2]
          OBVIOUS
    <2>2. /\ a \in Nat /\ b \in Nat \ {0} /\ Rounded(d) \in Nat
          /\ 2 * a + b < 2 * b * (Rounded(d) + 1)
          BY <1>3, <1>5, <2>1
    <2>3. 2 * Rounded(d) + 1 <= 2 * largest + 1
          BY <1>3, <1>4
    <2>4. (2 * Rounded(d) + 1) * b <= (2 * largest + 1) * b
          BY <1>4, <2>2, <2>3, Product
    <2>5. 2 * b * (Rounded(d) + 1) = (2 * Rounded(d) + 1) * b + b
          BY <2>2
    <2>6. (2 * Rounded(d) + 1) * b \in Nat /\ (2 * largest + 1) * b \in Nat
          BY <1>4, <2>2
    <2>7. 2 * a <= (2 * largest + 1) * b
          BY <2>2, <2>4, <2>5, <2>6
    <2> QED  BY <2>1, <2>7
  <1>8. CASE Changed
    <2>1. PICK d \in Dimensions : ~Below(ChangeOf(d), percent)
          BY <1>8 DEF Changed, percent
    <2>2. PICK a, b : a = ChangeOf(d)[1] /\ b = ChangeOf(d)[2]
          OBVIOUS
    <2>3. ~(a < percent * b)
          BY <2>1, <2>2 DEF Below
    <2>4. Rounded(d) >= percent
          BY <1>1, <1>5, <2>2, <2>3
    <2>5. largest >= percent
          BY <1>1, <1>3, <1>4, <2>4
    <2> QED  BY <1>6, <1>7, <1>8, <2>5 DEF percent
  <1>9. CASE ~Changed
    <2>1. Below(ChangeOf(e), percent)
          BY <1>9 DEF Changed, percent
    <2>2. PICK a, b : a = ChangeOf(e)[1] /\ b = ChangeOf(e)[2]
          OBVIOUS
    <2>3. a < percent * b
          BY <2>1, <2>2 DEF Below
    <2>4. largest <= percent
          BY <1>1, <1>2, <1>5, <2>2, <2>3
    <2> QED  BY <1>6, <1>7, <1>9, <2>4 DEF percent
  <1> QED  BY <1>8, <1>9

\* The change in the status agrees with the decision
\* (resourcepolicy_controller.go:225 and 228) whenever it fits an int32.
THEOREM ReportsMatchDecisions == Spec => []ReportMatchesDecision
  BY ReportMatches, EvaluationTypeCorrect, PTL

=============================================================================
