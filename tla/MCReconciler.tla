---------------------------- MODULE MCReconciler ----------------------------
(***************************************************************************)
(* Instances of Reconciler for TLC: one container to a Deployment, so that *)
(* the interleavings of runs, calls, edits and people stay in reach.       *)
(***************************************************************************)
EXTENDS Reconciler, TLC

CONSTANTS app, Low, Mid, High, A, B, p1, p2, shop, pay

OneWorkload == {<<shop, 1>>}

\* Two of the Deployments have the same name.
ThreeWorkloads == {<<shop, 1>>, <<shop, 2>>, <<pay, 1>>}

\* Both policies in one namespace, or each in its own.
OneNamespace == [p \in Policies |-> shop]
TwoNamespaces == p1 :> shop @@ p2 :> pay

MCBranches == Names \X Generations

MCCalls == Call

\* Mid is a marginal change from Low, and from High.
MCMaterial == {<<Low, High>>, <<High, Low>>}

AllDifferent == {pair \in Values \X Values : pair[1] # pair[2]}

ManifestOf(value) == [canonical |-> TRUE, res |-> app :> value]

\* A person lays the manifest out in another way.
Reformatted == {[canonical |-> FALSE, res |-> app :> Low]}

TreeOf(value) == {[w \in Workloads |-> ManifestOf(value)]}
LowTree == TreeOf(Low)
HighTree == TreeOf(High)
LiveLow == {[w \in Workloads |-> app :> Low]}

\* One manifest is missing.
TornTree == {[w \in Workloads |-> IF w[2] = 1 THEN NoFile ELSE ManifestOf(Low)]} \cup LowTree

Base == [suspend |-> FALSE, valid |-> TRUE, labels |-> FALSE,
         gitOps |-> "repo", exclusions |-> {}]

Publishing == {Base}
DryRun == {[Base EXCEPT !.gitOps = "none"]}

\* The specs people switch between while the loop runs.
ExcludingSpecs == {Base, [Base EXCEPT !.exclusions = {<<1, app>>, <<2, "">>}]}

RivalSpecs ==
    {Base, [Base EXCEPT !.suspend = TRUE], [Base EXCEPT !.gitOps = "malformed"],
     [Base EXCEPT !.exclusions = {<<1, app>>}]}

AdoptingSpecs ==
    {Base, [Base EXCEPT !.gitOps = "none"], [Base EXCEPT !.suspend = TRUE],
     [Base EXCEPT !.valid = FALSE]}
=============================================================================
