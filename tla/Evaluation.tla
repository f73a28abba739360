----------------------------- MODULE Evaluation -----------------------------
(***************************************************************************)
(* One container over time: the usage history Prometheus keeps of its pods *)
(* (internal/metrics), evaluateContainer applied to the part of it that    *)
(* spec.window asks for, and the pull requests that feed back into the     *)
(* request it is compared with next time.                                  *)
(*                                                                         *)
(* History moves on, the request is raised or lowered by what was          *)
(* recommended from an older history, and the container is evaluated again *)
(* every interval: the properties are about what the loop settles on.      *)
(***************************************************************************)
EXTENDS Recommend, Sequences, FiniteSetsExt

CONSTANTS Dimensions,      \* cpu and memory
          Specs,           \* what policies may ask for
          Pods,            \* those of the namespace
          Matrix,          \* those whose names continue the Deployment's with a dash
          Points,          \* what a pod may report, in parts; NaN if stale or gone
          NaN,
          InitialRequests, \* the request in the manifest at the start
          StepsPerDay,     \* 24 hours over the query's step
          IntLimit,        \* 2^31: the first number int32 does not have
          Retention        \* bound: steps of history that are kept

\* spec.window is a number of days or of steps.
PolicySpec == [thresholds : [Dimensions -> Thresholds], percent : Nat \ {0},
               minSamples : Nat \ {0}, window : [days : BOOLEAN, number : Int]]

ASSUME DimensionsAssumption == IsFiniteSet(Dimensions) /\ Dimensions # {}
ASSUME PodsAssumption == IsFiniteSet(Pods) /\ Matrix \subseteq Pods
ASSUME PointsAssumption ==
    /\ NaN \notin Nat
    /\ Points \in [Pods -> SUBSET (Nat \cup {NaN})]
ASSUME SpecsAssumption == Specs \subseteq PolicySpec
ASSUME CountsAssumption ==
    /\ {StepsPerDay, IntLimit, Retention} \subseteq Nat \ {0}
    /\ InitialRequests \subseteq Nat

VARIABLES spec,      \* of the policy
          history,   \* what was reported at each step, the last one now
          current,   \* resources.requests of the live container
          proposal   \* the open ContainerPatch: its requests and limits

vars == <<spec, history, current, proposal>>

Amounts == [Dimensions -> Nat]
NoPatch == [requests |-> <<>>, limits |-> <<>>]

Init ==
    /\ spec \in Specs
    /\ history = <<>>
    /\ current \in [Dimensions -> InitialRequests]
    /\ proposal = NoPatch

-----------------------------------------------------------------------------
(* The queries.                                                            *)

ParseWindow(window) == IF window.days THEN window.number * StepsPerDay ELSE window.number

\* The steps from now - window to now, both included.
InWindow ==
    {step \in DOMAIN history : step >= Len(history) - ParseWindow(spec.window)}

\* Mutant: the pods' names are not looked at.
EveryPod == Pods

\* podNameRegex: the name of the Deployment, a dash and anything.
Queried == Matrix

\* queryRange: the points of all series that are numbers.
Observations(d) == {o \in InWindow \X Queried : history[o[1]][d][o[2]] # NaN}

Samples(d) == [o \in Observations(d) |-> history[o[1]][d][o[2]]]

-----------------------------------------------------------------------------
(* evaluateContainer.                                                      *)

\* Neither ErrNoData nor ErrInsufficientSamples, for both queries.
Enough == \A d \in Dimensions : Count(Samples(d)) >= spec.minSamples

RequestOf(d) == Request(Samples(d), spec.thresholds[d])
LimitOf(d) == Limit(Samples(d), spec.thresholds[d])
ChangeOf(d) == ChangePercent(current[d], RequestOf(d))

\* maxChangePct < changeThresholdPercent is the one case without a patch.
Changed == \E d \in Dimensions : ~Below(ChangeOf(d), spec.percent)

RoundedChanges ==
    LET Rounded(change) == Round(change[1], change[2])
    IN  {Rounded(ChangeOf(d)) : d \in Dimensions}

\* int32(n) keeps the low bits.
Int32(n) == ((n + IntLimit) % (2 * IntLimit)) - IntLimit

\* Mutant: the smaller change is reported.
SmallerChange == Int32(Min(RoundedChanges))

\* The status's changePercent.  Rounding is monotone: the larger one rounded
\* is the largest of the rounded ones.
ReportedChange == Int32(Max(RoundedChanges))

\* Mutant: the limits are left out.
OnlyRequests == [requests |-> [d \in Dimensions |-> Round(RequestOf(d), Scale)],
                 limits |-> <<>>]

\* The ContainerPatch: both dimensions, whichever changed.
Patch == [requests |-> [d \in Dimensions |-> Round(RequestOf(d), Scale)],
          limits |-> [d \in Dimensions |-> Round(LimitOf(d), 10 * Scale)]]

-----------------------------------------------------------------------------
\* What the pods may report at one step, of one dimension.
Reports == {report \in [Pods -> UNION {Points[pod] : pod \in Pods}] :
               \A pod \in Pods : report[pod] \in Points[pod]}

Scrape ==
    \E reports \in [Dimensions -> Reports] :
        /\ history' = IF Len(history) < Retention THEN Append(history, reports)
                                                 ELSE Append(Tail(history), reports)
        /\ UNCHANGED <<spec, current, proposal>>

\* The container is evaluated and its pull request opened, or nothing is done.
Evaluate ==
    /\ proposal = NoPatch
    /\ Enough
    /\ Changed
    /\ proposal' = Patch
    /\ UNCHANGED <<spec, history, current>>

\* The pull request is merged and synced, at any later time.
Apply ==
    /\ proposal # NoPatch
    /\ current' = proposal.requests
    /\ proposal' = NoPatch
    /\ UNCHANGED <<spec, history>>

Reject ==
    /\ proposal # NoPatch
    /\ proposal' = NoPatch
    /\ UNCHANGED <<spec, history, current>>

Next == Scrape \/ Evaluate \/ Apply \/ Reject

Spec == Init /\ [][Next]_vars

-----------------------------------------------------------------------------
(* Properties.                                                             *)

\* The types of the variables.
TypeOK ==
    /\ spec \in PolicySpec
    /\ history \in Seq([Dimensions -> Reports]) /\ Len(history) <= Retention
    /\ current \in Amounts
    /\ proposal \in [requests : Amounts, limits : Amounts] \cup {NoPatch}

\* What the pods named after the Deployment used at the steps of the window.
Usage(d) ==
    {u \in (DOMAIN history) \X Matrix :
        /\ u[1] + ParseWindow(spec.window) >= Len(history)
        /\ history[u[1]][d][u[2]] # NaN}

\* The request that is proposed, rounded as it is (controller.go:234), covers
\* what the pods named after the Deployment used in the window: the points
\* that pass it by half a unit or more are no more than the percentile leaves
\* out, unless the ceiling keeps it down -- however many pods there were,
\* whatever pods of other names use, and however the percentile is
\* interpolated (prometheus.go:45, engine.go:64).  The Deployment's own pods
\* are among these; so are those of one whose name goes on with a dash.
RequestCovers ==
    Enough => \A d \in Dimensions :
        LET t == spec.thresholds[d]
            request == Round(RequestOf(d), Scale)
            usage == Usage(d)
            above == {u \in usage :
                        2 * history[u[1]][d][u[2]] >= (2 * request + 1) * Unit}
        IN  t.max = Unset =>
                100 * Cardinality(above)
                    <= (100 - PercentileOf(t)) * (Cardinality(usage) - 1) + 99

\* A patch that is open for review asks of the scheduler what the policy
\* allows: every request between its floor and its ceiling where these are in
\* order, and no limit under its request for a multiplier of one or more,
\* though request and limit are rounded one by one.
PatchIsAdmissible ==
    proposal # NoPatch =>
        \A d \in Dimensions :
            LET t == spec.thresholds[d] IN
              /\ t.min # Unset /\ (t.max # Unset => t.min <= t.max) =>
                    proposal.requests[d] >= t.min
              /\ t.max # Unset => proposal.requests[d] <= t.max
              /\ t.multiplier >= 10 => proposal.limits[d] >= proposal.requests[d]

\* The changePercent in the status agrees with the decision, which is taken
\* from other numbers: no dimension changed by more than half a percent above
\* it, it reaches the threshold if a pull request is due and does not pass
\* it if none is -- as long as the change fits an int32, which that from a
\* request of a byte may not (resourcepolicy_controller.go:225).
ReportMatchesDecision ==
    LET change == [d \in Dimensions |-> ChangeOf(d)]
        reported == ReportedChange
    IN  Enough /\ (\A d \in Dimensions : Below(change[d], IntLimit - 1)) =>
            /\ \A d \in Dimensions :
                  2 * change[d][1] <= (2 * reported + 1) * change[d][2]
            /\ IF Changed THEN reported >= spec.percent ELSE reported <= spec.percent

\* "A stable workload doesn't generate PR noise every reconcile" (README.md,
\* How it works, 4): a container whose requests are what would be recommended
\* is not proposed again.
StableIsQuiet == Enough /\ current = Patch.requests => ~Changed

\* The part of it that holds: with the default threshold and requests of six
\* units and more, rounding never amounts to a change.
StableIsQuietAboveFive ==
    /\ spec.percent >= 10 /\ \A d \in Dimensions : current[d] > 5
    /\ Enough /\ current = Patch.requests
    => ~Changed
=============================================================================
