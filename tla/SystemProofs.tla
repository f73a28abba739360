---------------------------- MODULE SystemProofs ----------------------------
(***************************************************************************)
(* The whole system, for any number of processes, policies, namespaces,    *)
(* workloads, containers, generations and faults: its types, that every    *)
(* step of it is a step of GitOps or leaves GitOps alone, so that what     *)
(* GitOpsProofs proves of a call holds of the calls the loop makes, and    *)
(* that no branch is published that a policy did not ask for.              *)
(***************************************************************************)
EXTENDS GitOpsProofs, ReconcilerProofs, WellFoundedInduction, NaturalsInduction

-----------------------------------------------------------------------------
(* The inductive invariant.                                                *)

ClusterOK ==
    /\ \A p \in Policies : specs[p] \in Seq(PolicySpec) /\ Generation(p) \in Generations
    /\ deleted \subseteq Policies
    /\ status \in [Policies ->
          [observed : Nat, recommendations : SUBSET Recommendation, url : Nat, ready : BOOLEAN]]
    /\ live \in [Workloads -> PartialResources]
    /\ usage \in [Pod -> Values \cup {NoData}]

\* A cached copy is of a generation there is.
SeenOK ==
    \A m \in Managers, p \in Policies : seen[m][p] \in 0..Generation(p)

\* The spec lets the policy change the container.
MayTouch(p, spec, pod) ==
    /\ pod[1][1] = Namespace[p]
    /\ ~Forbids(spec, pod[1][2], pod[2])

\* What a run that works from a spec holds: what that spec lets it recommend,
\* one recommendation for a container, and workloads that have a change.
GoodRun(r, spec) ==
    /\ r \in Runs
    /\ Active(spec)
    /\ \A pod \in r.todo : MayTouch(r.policy, spec, pod)
    /\ \A rec \in r.recommendations :
          rec.pod \notin r.todo /\ MayTouch(r.policy, spec, rec.pod)
    /\ \A r1, r2 \in r.recommendations : r1.pod = r2.pod => r1 = r2
    /\ r.changes \subseteq r.recommendations
    /\ \A w \in r.pending : \E rec \in r.changes : rec.pod[1] = w
    /\ r.pending # {} => spec.gitOps = "repo"
    /\ r.phase = "evaluate" => r.pending = {}

\* It works from a spec that its policy has or had.
RunOK(r) ==
    /\ r.policy \in Policies
    /\ r.generation \in 1..Generation(r.policy)
    /\ GoodRun(r, SpecOf(r))

\* A call is under way exactly while its run waits for it, and it is a call
\* for a workload of that run.
CallOK(m) ==
    /\ run[m].phase = "call" <=> step[m] # "idle"
    /\ run[m].phase = "call" =>
          /\ call[m].file \in run[m].pending
          /\ call[m].branch = <<call[m].file[2], run[m].generation>>
          /\ \A c \in DOMAIN call[m].patch :
                MayTouch(run[m].policy, SpecOf(run[m]), <<call[m].file, c>>)

ProcessOK(m) == (run[m] = Idle \/ RunOK(run[m])) /\ CallOK(m)

SystemInv ==
    IndInv /\ LoopInv /\ ClusterOK /\ SeenOK /\ \A m \in Managers : ProcessOK(m)

LEMMA SystemInvTypes == SystemInv => SystemTypeOK
  <1> SUFFICES ASSUME SystemInv PROVE SystemTypeOK
      OBVIOUS
  <1>1. TypeOK
        BY TypeParts DEF SystemInv, IndInv
  <1>2. seen \in [Managers -> [Policies -> 0..MaxGenerations]]
        BY GenerationsAssumption DEF SystemInv, LoopInv, LoopOK, SeenOK, ClusterOK, Generations
  <1>3. run \in [Managers -> Runs \cup {Idle}]
        BY DEF SystemInv, ProcessOK, RunOK, GoodRun, LoopInv, LoopOK
  <1> QED
        BY <1>1, <1>2, <1>3 DEF SystemInv, SystemTypeOK, ClusterOK, ProcessOK, CallOK,
           LoopInv, LoopOK

\* A nonempty set of workloads has a first one by name, so Turn is one of them.
LessNames == {pair \in Nat \X Nat : pair[1] < pair[2]}

LEMMA NamesAreOrdered == IsWellFoundedOn(LessNames, Nat)
  BY NatLessThanWellFounded DEF OpToRel, LessNames

LEMMA TurnIsPending ==
  ASSUME NEW m \in Managers, run[m].pending \subseteq Workloads, run[m].pending # {}
  PROVE  Turn(m) \in run[m].pending
  <1> DEFINE names == {w[2] : w \in run[m].pending}
  <1>1. names \subseteq Nat /\ names # {}
        BY NamesAssumption
  <1>2. PICK n \in names : \A k \in names : <<k, n>> \notin LessNames
        BY <1>1, WFMin, NamesAreOrdered
  <1>3. ASSUME NEW k \in names PROVE n <= k
    <2>1. k \in Nat /\ n \in Nat
          BY <1>1
    <2>2. ~(k < n)
      <3> HIDE DEF names
      <3> QED  BY <1>2, <2>1 DEF LessNames
    <2> QED  BY <2>1, <2>2
  <1>4. \E w \in run[m].pending : \A v \in run[m].pending : w[2] <= v[2]
        BY <1>3
  <1> QED  BY <1>4 DEF Turn

-----------------------------------------------------------------------------
(* The beginning.                                                          *)

LEMMA InitSystemInv == SystemInit => SystemInv
  <1> SUFFICES ASSUME SystemInit PROVE SystemInv
      OBVIOUS
  <1>1. IndInv
        BY InitInv DEF SystemInit
  <1>2. LoopInv
        BY InitLoopInv
  <1>3. ClusterOK
    <2>1. \A p \in Policies : specs[p] \in Seq(PolicySpec) /\ Generation(p) = 1
      <3> TAKE p \in Policies
      <3>1. PICK s \in Specs : specs[p] = <<s>>
            BY DEF SystemInit
      <3> QED  BY <3>1, SpecsAssumption DEF Generation
    <2>2. NoStatus \in [observed : Nat, recommendations : SUBSET Recommendation,
                        url : Nat, ready : BOOLEAN]
          BY DEF NoStatus
    <2> QED
        BY <2>1, <2>2, SpecsAssumption, GenerationsAssumption
           DEF SystemInit, ClusterOK, Generations
  <1>4. SeenOK
    <2>1. \A p \in Policies : Generation(p) = 1
      <3> TAKE p \in Policies
      <3>1. PICK s \in Specs : specs[p] = <<s>>
            BY DEF SystemInit
      <3> QED  BY <3>1 DEF Generation
    <2> QED  BY <2>1 DEF SystemInit, SeenOK
  <1>5. \A m \in Managers : ProcessOK(m)
        BY DEF SystemInit, Init, ProcessOK, CallOK, Idle
  <1> QED  BY <1>1, <1>2, <1>3, <1>4, <1>5 DEF SystemInv

-----------------------------------------------------------------------------
(* Runs.                                                                   *)

\* A run does not notice that its copy became old.
LEMMA OldCopyIsGood ==
  ASSUME NEW r, NEW spec, GoodRun(r, spec)
  PROVE  GoodRun([r EXCEPT !.current = FALSE], spec)
  BY DEF GoodRun, Runs

\* Specs are only added, so what a generation says stays.
SpecsGrow ==
    \A p \in Policies :
        /\ Len(specs'[p]) >= Len(specs[p])
        /\ \A g \in 1..Len(specs[p]) : specs'[p][g] = specs[p][g]

\* How most steps leave a run: as it was, or with an old copy.
Kept(m) ==
    run'[m] = run[m] \/ (run[m] # Idle /\ run'[m] = [run[m] EXCEPT !.current = FALSE])

LEMMA KeptIsOK ==
  ASSUME NEW m \in Managers, RunOK(run[m]), Kept(m), SpecsGrow, ClusterOK, ClusterOK'
  PROVE  /\ RunOK(run[m])'
         /\ run'[m].policy = run[m].policy /\ run'[m].generation = run[m].generation
         /\ run'[m].phase = run[m].phase /\ run'[m].pending = run[m].pending
         /\ SpecOf(run[m])' = SpecOf(run[m])
  <1>1. run[m] \in Runs
        BY DEF RunOK, GoodRun
  <1>2. /\ run'[m].policy = run[m].policy /\ run'[m].generation = run[m].generation
        /\ run'[m].phase = run[m].phase /\ run'[m].pending = run[m].pending
        BY <1>1 DEF Kept, Runs
  <1>3. run[m].policy \in Policies /\ run[m].generation \in 1..Len(specs[run[m].policy])
        BY DEF RunOK, Generation
  <1>4. SpecOf(run[m])' = SpecOf(run[m])
        BY <1>2, <1>3 DEF SpecsGrow, SpecOf
  <1>5. GoodRun(run'[m], SpecOf(run[m]))
        BY OldCopyIsGood DEF RunOK, Kept
  <1>6. run[m].generation \in 1..Len(specs'[run[m].policy])
    <2>1. Len(specs[run[m].policy]) \in Nat /\ Len(specs'[run[m].policy]) \in Nat
          BY <1>3 DEF ClusterOK, Generations, Generation
    <2>2. Len(specs'[run[m].policy]) >= Len(specs[run[m].policy])
          BY <1>3 DEF SpecsGrow
    <2> QED  BY <1>3, <2>1, <2>2
  <1>7. RunOK(run[m])'
        BY <1>2, <1>3, <1>4, <1>5, <1>6 DEF RunOK, Generation
  <1> QED  BY <1>2, <1>4, <1>7

\* How it leaves its call: under way or not, and with the same arguments.
CallKept(m) == call'[m] = call[m] /\ (step'[m] = "idle" <=> step[m] = "idle")

\* A process whose run and call are left so is as it should be.
LEMMA KeptProcess ==
  ASSUME NEW m \in Managers, ProcessOK(m), Kept(m), CallKept(m),
         SpecsGrow, ClusterOK, ClusterOK'
  PROVE  ProcessOK(m)'
  <1>1. CASE run[m] = Idle
        BY <1>1 DEF ProcessOK, CallOK, Kept, CallKept, Idle
  <1>2. CASE run[m] # Idle
    <2>1. /\ RunOK(run[m])'
          /\ run'[m].policy = run[m].policy /\ run'[m].generation = run[m].generation
          /\ run'[m].phase = run[m].phase /\ run'[m].pending = run[m].pending
          /\ SpecOf(run[m])' = SpecOf(run[m])
          BY <1>2, KeptIsOK DEF ProcessOK
    <2>2. CallOK(m)'
          BY <2>1 DEF ProcessOK, CallOK, CallKept
    <2> QED  BY <2>1, <2>2 DEF ProcessOK
  <1> QED  BY <1>1, <1>2

\* So is one with no run and no call.
LEMMA StoppedProcess ==
  ASSUME NEW m \in Managers, run'[m] = Idle, step'[m] = "idle"
  PROVE  ProcessOK(m)'
  BY DEF ProcessOK, CallOK, Idle

-----------------------------------------------------------------------------
(* The steps of one run.                                                   *)

\* Every spec a policy had is a spec.
LEMMA SpecsAreSpecs ==
  ASSUME ClusterOK, NEW p \in Policies, NEW g \in 1..Generation(p)
  PROVE  specs[p][g] \in PolicySpec
  BY ElementOfSeq DEF ClusterOK, Generation

LEMMA Pairs ==
  ASSUME NEW S, NEW T, NEW pair \in S \X T
  PROVE  pair = <<pair[1], pair[2]>>
  OBVIOUS

\* buildExclusionSet looks up what the spec forbids.
LEMMA ExcludedIsForbidden ==
  ASSUME NEW spec \in PolicySpec, NEW pod \in Pod
  PROVE  Excluded(spec, pod) <=> Forbids(spec, pod[1][2], pod[2])
  <1>1. spec.exclusions \subseteq Names \X (Containers \cup {""})
        BY DEF PolicySpec
  <1>2. \A e \in spec.exclusions : e = <<e[1], e[2]>>
        BY <1>1, Pairs
  <1> QED  BY <1>2 DEF Excluded, Forbids

\* A run begins with an active spec and the containers it allows.
LEMMA StartsOK ==
  ASSUME SystemInv, NEW m \in Managers, NEW p \in Policies, ReconcileStart(m, p)
  PROVE  ProcessOK(m)'
  <1> DEFINE spec == CachedSpec(m, p)
             r == [phase |-> "evaluate", policy |-> p, generation |-> seen[m][p],
                   current |-> p \in fresh[m], deployments |-> live,
                   todo |-> Selected(p, spec),
                   recommendations |-> {}, changes |-> {}, pending |-> {}, url |-> 0]
  <1>1. /\ run[m].phase = "idle" /\ run'[m] = r
        /\ ~NothingToDo(m, p) /\ spec.valid
        /\ UNCHANGED <<vars, specs>>
        BY DEF ReconcileStart, Dequeue, clusterVars, SystemInv, LoopInv, LoopOK
  <1>2. seen[m][p] \in 1..Generation(p) /\ Active(spec)
        BY <1>1 DEF NothingToDo, SystemInv, SeenOK, Active, ClusterOK, Generations
  <1>3. spec \in PolicySpec
        BY <1>2, SpecsAreSpecs DEF CachedSpec, SystemInv
  <1>4. \A pod \in r.todo : pod \in Pod /\ MayTouch(p, spec, pod)
        BY <1>3, ExcludedIsForbidden DEF Selected, MayTouch
  <1>5. r \in Runs
        BY <1>2, <1>4, GenerationsAssumption DEF Runs, SystemInv, ClusterOK, Generations
  <1>6. GoodRun(r, spec)
        BY <1>2, <1>4, <1>5 DEF GoodRun
  <1>7. RunOK(run[m])'
    <2>1. SpecOf(run[m])' = spec
          BY <1>1 DEF SpecOf, CachedSpec
    <2> QED  BY <1>1, <1>2, <1>6, <2>1 DEF RunOK, Generation
  <1>8. CallOK(m)'
        BY <1>1 DEF CallOK, SystemInv, ProcessOK, vars
  <1> QED  BY <1>7, <1>8 DEF ProcessOK

\* A step inside a run that keeps it good, and its call as it is.
LEMMA OneRunIsOK ==
  ASSUME SystemInv, NEW m \in Managers, run[m] # Idle,
         run'[m].policy = run[m].policy, run'[m].generation = run[m].generation,
         GoodRun(run'[m], SpecOf(run[m])), UNCHANGED specs
  PROVE  RunOK(run[m])' /\ SpecOf(run[m])' = SpecOf(run[m])
  BY DEF SystemInv, ProcessOK, RunOK, SpecOf, Generation

\* What a run recommends for a container it has still to do is its only
\* recommendation for it.
LEMMA EvaluatesOK ==
  ASSUME SystemInv, NEW m \in Managers, NEW pod \in Pod, EvaluateContainer(m, pod)
  PROVE  ProcessOK(m)'
  <1> DEFINE r == run[m]
             spec == SpecOf(r)
             rec == [pod |-> pod, value |-> usage[pod]]
             material == <<r.deployments[pod[1]][pod[2]], usage[pod]>> \in Material
             recs == IF usage[pod] = NoData THEN r.recommendations
                     ELSE r.recommendations \cup {rec}
             changes == IF usage[pod] = NoData \/ ~material THEN r.changes
                        ELSE r.changes \cup {rec}
             next == [r EXCEPT !.todo = @ \ {pod}, !.recommendations = recs,
                               !.changes = changes]
  <1>1. /\ r.phase = "evaluate" /\ pod \in r.todo /\ UNCHANGED <<vars, specs>>
        BY DEF EvaluateContainer, clusterVars
  <1>2. run'[m] = next
        BY DEF EvaluateContainer, SystemInv, LoopInv, LoopOK
  <1>3. r # Idle /\ GoodRun(r, spec) /\ r \in Runs
        BY <1>1 DEF Idle, SystemInv, ProcessOK, RunOK, GoodRun
  <1>4. usage[pod] # NoData => rec \in Recommendation
        BY DEF SystemInv, ClusterOK, Recommendation
  <1>5. recs \subseteq Recommendation /\ changes \subseteq Recommendation
        BY <1>3, <1>4 DEF Runs
  <1>6. /\ next \in Runs
        /\ next.policy = r.policy /\ next.generation = r.generation /\ next.phase = r.phase
        /\ next.todo = r.todo \ {pod} /\ next.recommendations = recs
        /\ next.changes = changes /\ next.pending = r.pending
        BY <1>3, <1>5 DEF Runs
  <1>7. GoodRun(next, spec)
    <2>1. \A x \in recs : x.pod \notin next.todo /\ MayTouch(r.policy, spec, x.pod)
          BY <1>1, <1>3, <1>6 DEF GoodRun
    <2>2. \A r1, r2 \in recs : r1.pod = r2.pod => r1 = r2
          BY <1>1, <1>3 DEF GoodRun
    <2>3. changes \subseteq recs
          BY <1>3 DEF GoodRun
    <2>4. r.pending = {}
          BY <1>1, <1>3 DEF GoodRun
    <2> HIDE DEF next, recs, changes
    <2> QED  BY <1>1, <1>3, <1>6, <2>1, <2>2, <2>3, <2>4 DEF GoodRun
  <1>8. RunOK(run[m])'
        BY <1>2, <1>3, <1>6, <1>7, <1>1, OneRunIsOK
  <1>9. CallOK(m)'
        BY <1>1, <1>2, <1>6 DEF CallOK, SystemInv, ProcessOK, vars
  <1> QED  BY <1>8, <1>9 DEF ProcessOK

\* Only a spec with a repository has workloads to propose for.
LEMMA OpensOK ==
  ASSUME SystemInv, NEW m \in Managers, OpenPullRequests(m)
  PROVE  ProcessOK(m)'
  <1> DEFINE r == run[m]
             pending == IF Proposes(m) THEN {rec.pod[1] : rec \in r.changes} ELSE {}
             next == [r EXCEPT !.phase = "open", !.pending = pending]
  <1>1. /\ r.phase = "evaluate" /\ UNCHANGED <<vars, specs>>
        /\ Proposes(m) => SpecOf(r).gitOps = "repo"
        BY DEF OpenPullRequests, clusterVars
  <1>2. run'[m] = next
        BY DEF OpenPullRequests, SystemInv, LoopInv, LoopOK
  <1>3. r # Idle /\ GoodRun(r, SpecOf(r)) /\ r \in Runs
        BY <1>1 DEF Idle, SystemInv, ProcessOK, RunOK, GoodRun
  <1>4. \A rec \in r.changes : rec.pod \in Pod /\ rec.pod[1] \in Workloads
        BY <1>3 DEF Runs, Recommendation, Pod
  <1>5. pending \subseteq Workloads
        BY <1>4
  <1>6. /\ next \in Runs
        /\ next.policy = r.policy /\ next.generation = r.generation
        /\ next.phase = "open" /\ next.todo = r.todo
        /\ next.recommendations = r.recommendations
        /\ next.changes = r.changes /\ next.pending = pending
        BY <1>3, <1>5 DEF Runs
  <1>7. GoodRun(next, SpecOf(r))
    <2>1. \A w \in pending : \E rec \in r.changes : rec.pod[1] = w
          OBVIOUS
    <2>2. pending # {} => SpecOf(r).gitOps = "repo"
          BY <1>1
    <2> HIDE DEF next, pending
    <2> QED  BY <1>3, <1>6, <2>1, <2>2 DEF GoodRun
  <1>8. RunOK(run[m])'
        BY <1>1, <1>2, <1>3, <1>6, <1>7, OneRunIsOK
  <1>9. CallOK(m)'
        BY <1>1, <1>2, <1>6 DEF CallOK, SystemInv, ProcessOK, vars
  <1> QED  BY <1>8, <1>9 DEF ProcessOK

-----------------------------------------------------------------------------
(* Calls.                                                                  *)

\* What a run with workloads to propose for asks of the Manager.
Asked(m) == [branch |-> BranchName(m), file |-> Turn(m),
             patch |-> PatchOf(m), labels |-> SpecOf(run[m]).labels]

\* It is a call, for a pending workload, and names containers of it that the
\* run's spec lets it touch.
LEMMA AskedIsCall ==
  ASSUME SystemInv, NEW m \in Managers, run[m].phase = "open", run[m].pending # {}
  PROVE  /\ Asked(m) \in Call
         /\ Asked(m).file \in run[m].pending
         /\ \A c \in DOMAIN Asked(m).patch :
               MayTouch(run[m].policy, SpecOf(run[m]), <<Asked(m).file, c>>)
  <1> DEFINE r == run[m]
             w == Turn(m)
             changes == {rec \in r.changes : rec.pod[1] = w}
             D == {rec.pod[2] : rec \in changes}
  <1>1. RunOK(r) /\ GoodRun(r, SpecOf(r)) /\ r \in Runs
        BY DEF Idle, SystemInv, ProcessOK, RunOK, GoodRun
  <1>2. w \in r.pending /\ w \in Workloads
        BY <1>1, TurnIsPending DEF Runs
  <1>3. \A rec \in r.changes :
           /\ rec.pod \in Workloads \X Containers /\ rec.value \in Values
           /\ rec.pod[2] \in Containers /\ rec.pod = <<rec.pod[1], rec.pod[2]>>
    <2> TAKE rec \in r.changes
    <2>1. rec \in Recommendation
          BY <1>1 DEF Runs
    <2>2. rec.pod \in Workloads \X Containers /\ rec.value \in Values
          BY <2>1 DEF Recommendation, Pod
    <2> QED  BY <2>2, Pairs
  <1>4. D \subseteq Containers /\ D # {}
        BY <1>1, <1>2, <1>3 DEF GoodRun
  <1>5. PatchOf(m) \in [D -> Values]
    <2>1. PatchOf(m) = [c \in D |-> (CHOOSE rec \in changes : rec.pod[2] = c).value]
          BY DEF PatchOf
    <2>2. \A c \in D : \E rec \in changes : rec.pod[2] = c
          OBVIOUS
    <2>3. \A c \in D : (CHOOSE rec \in changes : rec.pod[2] = c) \in changes
          BY <2>2
    <2>4. \A rec \in changes : rec.value \in Values
          BY <1>3
    <2> HIDE DEF changes, D
    <2> QED  BY <2>1, <2>3, <2>4
  <1>6. PatchOf(m) \in Patch /\ DOMAIN PatchOf(m) = D
    <2> HIDE DEF D
    <2> QED  BY <1>4, <1>5 DEF Patch, PartialResources
  <1>7. BranchName(m) \in Branches /\ w \in Files
    <2>1. w[2] \in Names
          BY <1>2 DEF Names
    <2>2. r.generation \in Generations
          BY <1>1 DEF Runs
    <2> QED  BY <1>2, <2>1, <2>2, NamesAssumption DEF BranchName
  <1>8. SpecOf(r).labels \in BOOLEAN
    <2>1. SpecOf(r) \in PolicySpec
          BY <1>1, SpecsAreSpecs DEF RunOK, SpecOf, SystemInv
    <2> QED  BY <2>1 DEF PolicySpec
  <1>9. \A c \in D : MayTouch(r.policy, SpecOf(r), <<w, c>>)
    <2> TAKE c \in D
    <2>1. PICK rec \in changes : rec.pod[2] = c
          OBVIOUS
    <2>2. rec \in r.recommendations /\ rec.pod = <<w, c>>
          BY <1>1, <1>3, <2>1 DEF GoodRun
    <2> QED  BY <1>1, <2>2 DEF GoodRun
  <1> QED
    <2> HIDE DEF D, w, r
    <2>1. Asked(m) \in Call
          BY <1>6, <1>7, <1>8 DEF Asked, Call, w, r
    <2>2. Asked(m).file = w /\ Asked(m).patch = PatchOf(m)
          BY DEF Asked, w
    <2> QED  BY <1>2, <1>6, <1>9, <2>1, <2>2 DEF r

LEMMA CallsOK ==
  ASSUME SystemInv, NEW m \in Managers, CallManager(m)
  PROVE  ProcessOK(m)'
  <1> DEFINE r == run[m]
             next == [r EXCEPT !.phase = "call"]
  <1>1. /\ r.phase = "open" /\ r.pending # {} /\ UNCHANGED specs
        /\ OpenRecommendationPR(m, Asked(m))
        BY DEF CallManager, Asked, clusterVars
  <1>2. run'[m] = next
        BY DEF CallManager, SystemInv, LoopInv, LoopOK
  <1>3. r # Idle /\ GoodRun(r, SpecOf(r)) /\ r \in Runs
        BY <1>1 DEF Idle, SystemInv, ProcessOK, RunOK, GoodRun
  <1>4. /\ next \in Runs
        /\ next.policy = r.policy /\ next.generation = r.generation
        /\ next.phase = "call" /\ next.todo = r.todo
        /\ next.recommendations = r.recommendations
        /\ next.changes = r.changes /\ next.pending = r.pending
        BY <1>3 DEF Runs
  <1>5. GoodRun(next, SpecOf(r))
    <2> HIDE DEF next
    <2> QED  BY <1>3, <1>4 DEF GoodRun
  <1>6. RunOK(run[m])' /\ SpecOf(run[m])' = SpecOf(r)
        BY <1>1, <1>2, <1>3, <1>4, <1>5, OneRunIsOK
  <1>7. step'[m] \in {"prepare", "returned"} /\ call'[m] = Asked(m)
        BY <1>1 DEF OpenRecommendationPR, SystemInv, IndInv, ManagersOK
  <1>8. CallOK(m)'
    <2>1. Asked(m).branch = <<Asked(m).file[2], r.generation>>
          BY DEF Asked, BranchName
    <2> HIDE DEF next
    <2> QED  BY <1>1, <1>2, <1>4, <1>6, <1>7, <2>1, AskedIsCall DEF CallOK
  <1> QED  BY <1>6, <1>8 DEF ProcessOK

\* A call that returns leaves its run with one workload less, or ends it.
LEMMA ReturnsOK ==
  ASSUME SystemInv, NEW m \in Managers, CallReturns(m)
  PROVE  ProcessOK(m)'
  <1> DEFINE r == run[m]
             err == result[m].err
             lastURL == IF err = nil THEN result[m].number ELSE r.url
             next == [r EXCEPT !.phase = "open", !.pending = @ \ {Turn(m)}, !.url = lastURL]
  <1>1. r.phase = "call" /\ step'[m] = "idle" /\ m \in DOMAIN run
        BY DEF CallReturns, Resume, Forget, SystemInv, IndInv, ManagersOK, LoopInv, LoopOK
  <1>2. r # Idle /\ GoodRun(r, SpecOf(r)) /\ r \in Runs
        BY <1>1 DEF Idle, SystemInv, ProcessOK, RunOK, GoodRun
  <1>3. CASE run'[m] = Idle
        BY <1>1, <1>3, StoppedProcess
  <1>4. CASE run'[m] = next /\ UNCHANGED specs
    <2>1. lastURL \in Nat
          BY <1>2 DEF Runs, SystemInv, IndInv, ManagersOK, Outcome
    <2>2. /\ next \in Runs
          /\ next.policy = r.policy /\ next.generation = r.generation
          /\ next.phase = "open" /\ next.todo = r.todo
          /\ next.recommendations = r.recommendations
          /\ next.changes = r.changes /\ next.pending \subseteq r.pending
      <3> HIDE DEF lastURL
      <3> QED  BY <1>2, <2>1 DEF Runs
    <2>3. GoodRun(next, SpecOf(r))
      <3> HIDE DEF next
      <3> QED  BY <1>2, <2>2 DEF GoodRun
    <2>4. RunOK(run[m])'
          BY <1>2, <1>4, <2>2, <2>3, OneRunIsOK
    <2>5. CallOK(m)'
          BY <1>1, <1>4, <2>2 DEF CallOK
    <2> QED  BY <2>4, <2>5 DEF ProcessOK
  <1> QED
    <2>1. \/ run' = [run EXCEPT ![m] = next] /\ UNCHANGED specs
          \/ run' = [run EXCEPT ![m] = Idle]
          BY DEF CallReturns, Fail, clusterVars
    <2> QED  BY <1>1, <1>3, <1>4, <2>1

-----------------------------------------------------------------------------
(* The cluster, and the cached copies.                                     *)

LEMMA SpecsStay == ClusterOK /\ UNCHANGED specs => SpecsGrow
  BY DEF ClusterOK, SpecsGrow, Generation, Generations

\* An edit adds a generation.
LEMMA EditGrows ==
  ASSUME ClusterOK, NEW p \in Policies, NEW s \in Specs, EditPolicy(p, s)
  PROVE  /\ SpecsGrow
         /\ \A q \in Policies : specs'[q] \in Seq(PolicySpec) /\ Len(specs'[q]) \in Generations
  <1>1. specs' = [specs EXCEPT ![p] = Append(@, s)] /\ Len(specs[p]) < MaxGenerations
        BY DEF EditPolicy, Generation
  <1>2. s \in PolicySpec
        BY SpecsAssumption
  <1> SUFFICES ASSUME NEW q \in Policies
      PROVE  /\ specs'[q] \in Seq(PolicySpec) /\ Len(specs'[q]) \in Generations
             /\ Len(specs'[q]) >= Len(specs[q])
             /\ \A g \in 1..Len(specs[q]) : specs'[q][g] = specs[q][g]
      BY DEF SpecsGrow
  <1>3. specs[q] \in Seq(PolicySpec) /\ Len(specs[q]) \in Generations
        BY DEF ClusterOK, Generation
  <1>4. CASE q # p
        BY <1>1, <1>3, <1>4 DEF Generations
  <1>5. CASE q = p
    <2>1. specs'[p] = IF p \in DOMAIN specs THEN Append(specs[p], s) ELSE specs[p]
          BY <1>1
    <2>2. CASE p \in DOMAIN specs
          BY <1>1, <1>2, <1>3, <1>5, <2>1, <2>2, AppendProperties, GenerationsAssumption
             DEF Generations
    <2>3. CASE p \notin DOMAIN specs
          BY <1>3, <1>5, <1>1, <2>1, <2>3 DEF Generations
    <2> QED  BY <2>2, <2>3
  <1> QED  BY <1>4, <1>5

\* A status a run writes has its type.
LEMMA NewStatusType ==
  ASSUME SystemInv, NEW m \in Managers, run[m].phase # "idle"
  PROVE  /\ run[m].policy \in Policies
         /\ NewStatus(run[m]) \in
               [observed : Nat, recommendations : SUBSET Recommendation, url : Nat, ready : BOOLEAN]
  <1>1. run[m] \in Runs
        BY DEF Idle, SystemInv, ProcessOK, RunOK, GoodRun
  <1>2. run[m].policy \in Policies /\ run[m].generation \in Nat
        BY <1>1, GenerationsAssumption DEF Runs, Generations
  <1> QED  BY <1>1, <1>2 DEF NewStatus, Runs, SystemInv, ClusterOK

\* What continuous delivery applies are resources.
LEMMA SyncedType ==
  ASSUME SystemInv, NEW w \in Workloads, Sync(w)
  PROVE  main[w].res \in PartialResources
  <1>1. main[w] \in Manifest
        BY NamesAssumption DEF Sync, SystemInv, IndInv, RemoteOK, Tree
  <1> QED  BY <1>1 DEF Manifest

LEMMA ClusterStepOK ==
  ASSUME SystemInv, [SystemNext]_allVars
  PROVE  ClusterOK' /\ SpecsGrow
  <1> USE DEF SystemInv
  <1>1. CASE UNCHANGED clusterVars
        BY <1>1, SpecsStay DEF clusterVars, ClusterOK, Generation
  <1>2. ASSUME NEW m \in Managers, WriteStatus(m), run[m].phase # "idle",
               UNCHANGED <<specs, deleted, live, usage>>
        PROVE  ClusterOK' /\ SpecsGrow
        BY <1>2, NewStatusType, SpecsStay DEF WriteStatus, ClusterOK, Generation
  <1>3. ASSUME NEW m \in Managers, LoopStep(m)
        PROVE  \/ UNCHANGED clusterVars
               \/ /\ WriteStatus(m) /\ run[m].phase # "idle"
                  /\ UNCHANGED <<specs, deleted, live, usage>>
    <2>1. CASE UpdateStatus(m) \/ UpdateReplyLost(m)
          BY <2>1 DEF UpdateStatus, UpdateReplyLost, Updating
    <2>2. CASE ~(UpdateStatus(m) \/ UpdateReplyLost(m))
          BY <1>3, <2>2 DEF LoopStep, ReconcileNothing, ReconcileInvalid, ReconcileStart,
             Dequeue, EvaluateContainer, QueryFails, OpenPullRequests, BuildManagerFails,
             CallManager, CallReturns, UpdateConflicts, Fail
    <2> QED  BY <2>1, <2>2
  <1>4. ASSUME NEW m \in Managers,
               \/ GitStep(m) \/ Restart(m)
               \/ \E p \in Policies : Deliver(m, p) \/ TimerFires(m, p)
        PROVE  UNCHANGED clusterVars
        BY <1>4 DEF GitStep, Restart, Deliver, TimerFires
  <1>5. ASSUME NEW p \in Policies, DeletePolicy(p) PROVE ClusterOK' /\ SpecsGrow
        BY <1>5, SpecsStay DEF DeletePolicy, ClusterOK, Generation
  <1>6. ASSUME NEW p \in Policies, NEW s \in Specs, EditPolicy(p, s)
        PROVE  ClusterOK' /\ SpecsGrow
        BY <1>6, EditGrows DEF EditPolicy, ClusterOK, Generation
  <1>7. ASSUME NEW pod \in Pod, NEW value \in Drifts, UsageDrifts(pod, value)
        PROVE  ClusterOK' /\ SpecsGrow
    <2>1. value \in Values \cup {NoData}
          BY SpecsAssumption
    <2> QED  BY <1>7, <2>1, SpecsStay DEF UsageDrifts, ClusterOK, Generation
  <1>8. ASSUME NEW w \in Workloads, Sync(w) PROVE ClusterOK' /\ SpecsGrow
        BY <1>8, SyncedType, SpecsStay DEF Sync, ClusterOK, Generation
  <1>9. CASE ClusterStep
        BY <1>1, <1>5, <1>6, <1>7, <1>8, <1>9 DEF ClusterStep
  <1>10. CASE UNCHANGED allVars
        BY <1>1, <1>10 DEF allVars
  <1> QED  BY <1>1, <1>2, <1>3, <1>4, <1>9, <1>10 DEF SystemNext

\* What a cached copy may change to is a generation there is.
LEMMA SeenStepOK ==
  ASSUME SystemInv, [SystemNext]_allVars
  PROVE  SeenOK'
  <1> USE DEF SystemInv
  <1>1. ClusterOK' /\ SpecsGrow
        BY ClusterStepOK
  <1>2. \A p \in Policies : Generation(p) \in Nat /\ Len(specs'[p]) \in Nat
        BY <1>1 DEF ClusterOK, Generation, Generations
  <1>3. CASE UNCHANGED seen
        BY <1>1, <1>2, <1>3 DEF SeenOK, SpecsGrow, Generation
  <1>4. ASSUME NEW m \in Managers, NEW p \in Policies, Deliver(m, p) PROVE SeenOK'
    <2>1. /\ seen' = [seen EXCEPT ![m][p] = IF p \in deleted THEN 0 ELSE Generation(p)]
          /\ UNCHANGED specs
          BY <1>4 DEF Deliver, clusterVars
    <2> QED  BY <1>2, <2>1 DEF SeenOK, Generation, LoopInv, LoopOK
  <1>5. ASSUME NEW m \in Managers, Restart(m) PROVE SeenOK'
    <2>1. /\ seen' = [seen EXCEPT ![m] =
                         [p \in Policies |-> IF p \in deleted THEN 0 ELSE Generation(p)]]
          /\ UNCHANGED specs
          BY <1>5 DEF Restart, clusterVars
    <2> QED  BY <1>2, <2>1 DEF SeenOK, Generation, LoopInv, LoopOK
  <1>6. ASSUME NEW m \in Managers, LoopStep(m) PROVE UNCHANGED seen
        BY <1>6 DEF LoopStep, ReconcileNothing, ReconcileInvalid, ReconcileStart, Dequeue,
           EvaluateContainer, QueryFails, OpenPullRequests, BuildManagerFails, CallManager,
           CallReturns, UpdateStatus, UpdateReplyLost, UpdateConflicts, Fail
  <1>7. CASE ClusterStep
        BY <1>3, <1>7 DEF ClusterStep, DeletePolicy, EditPolicy, UsageDrifts, Sync, loopVars
  <1> QED  BY <1>3, <1>4, <1>5, <1>6, <1>7
           DEF SystemNext, GitStep, TimerFires, loopVars, allVars

-----------------------------------------------------------------------------
(* The system and GitOps.                                                  *)

\* Every step of the system is a step of GitOps or leaves its state alone: a
\* run calls with arguments a call may have, takes what is returned, and its
\* restart is the end of its call.
LEMMA StepsAreGitOps ==
  ASSUME SystemInv, [SystemNext]_allVars
  PROVE  [Next]_vars
  <1>1. ASSUME NEW m \in Managers, CallManager(m) PROVE Next
    <2>1. OpenRecommendationPR(m, Asked(m)) /\ Asked(m) \in Calls
          BY <1>1, AskedIsCall, RunsCallsAssumption DEF CallManager, Asked
    <2> QED  BY <2>1 DEF Next, Begin
  <1>2. ASSUME NEW m \in Managers, LoopStep(m) PROVE [Next]_vars
    <2>1. CASE CallManager(m)
          BY <1>1, <2>1
    <2>2. CASE CallReturns(m)
          BY <2>2 DEF CallReturns, Next
    <2>3. CASE ~(CallManager(m) \/ CallReturns(m))
          BY <1>2, <2>3 DEF LoopStep, ReconcileNothing, ReconcileInvalid, ReconcileStart,
             Dequeue, EvaluateContainer, QueryFails, OpenPullRequests, BuildManagerFails,
             UpdateStatus, UpdateReplyLost, UpdateConflicts
    <2> QED  BY <2>1, <2>2, <2>3
  <1>3. ASSUME NEW m \in Managers, GitStep(m) \/ Restart(m) PROVE [Next]_vars
        BY <1>3 DEF GitStep, Restart, Next
  <1>4. CASE ClusterStep
        BY <1>4 DEF ClusterStep, DeletePolicy, EditPolicy, UsageDrifts, Sync, Next
  <1>5. CASE UNCHANGED allVars
        BY <1>5 DEF allVars
  <1> QED  BY <1>2, <1>3, <1>4, <1>5 DEF SystemNext, Deliver, TimerFires

\* A step of a call under way leaves it under way, with its arguments, and
\* the other calls alone.
LEMMA CallStepKeeps ==
  ASSUME IndInv, NEW m \in Managers, CallStep(m), NEW n \in Managers
  PROVE  CallKept(n)
  <1> USE DEF IndInv, ManagersOK
  <1>1. ASSUME NEW err, NEW number, Ends(m, err, number), step[m] # "idle"
        PROVE  CallKept(n)
        BY <1>1 DEF Ends, CallKept
  <1>2. ASSUME NEW next \in {"create"}, Proceed(m, next), step[m] # "idle"
        PROVE  CallKept(n)
        BY <1>2 DEF Proceed, CallKept
  <1>3. ASSUME NEW next \in {"push", "label"}, step' = [step EXCEPT ![m] = next],
               UNCHANGED call, step[m] # "idle"
        PROVE  CallKept(n)
        BY <1>3 DEF CallKept
  <1>4. step[m] # "idle"
        BY DEF CallStep, CloneFails, PatchFails, NothingToCommit, PrepareBranch, Push,
           PushUpToDate, PushFails, PushReplyLost, OpenPullRequest, CreateFails,
           CreateReplyLost, AddLabels, LabelFails
  <1> QED
        BY <1>1, <1>2, <1>3, <1>4
           DEF CallStep, CloneFails, PatchFails, NothingToCommit, PrepareBranch, Push,
           PushUpToDate, PushFails, PushReplyLost, OpenPullRequest, CreateFails,
           CreateReplyLost, AddLabels, LabelFails, PrepareFails, Return

\* People leave the calls alone.
LEMMA PersonStepKeeps ==
  ASSUME PersonStep, NEW n \in Managers
  PROVE  CallKept(n)
  BY DEF PersonStep, MergePull, ClosePull, DeleteBranch, CommitToMain, managerVars, CallKept

-----------------------------------------------------------------------------
(* Every process.                                                          *)

\* A write to a policy makes the copies that runs hold old, and nothing else.
LEMMA StaleRunsKept ==
  ASSUME NEW runs, runs = [n \in Managers |-> runs[n]], NEW p, run' = StaleRuns(p, runs),
         NEW n \in Managers, runs[n] = run[n], run[n] = Idle \/ run[n].phase # "idle"
  PROVE  Kept(n)
  BY DEF StaleRuns, Kept, Idle

\* A loop step is of one process: it leaves the runs and calls of the others.
LEMMA OthersKept ==
  ASSUME SystemInv, NEW m \in Managers, LoopStep(m), NEW n \in Managers, n # m
  PROVE  Kept(n) /\ CallKept(n)
  <1> USE DEF SystemInv, LoopInv, LoopOK, IndInv, ManagersOK
  <1>1. CallKept(n)
    <2>1. CASE CallManager(m)
          BY <2>1 DEF CallManager, OpenRecommendationPR, CallKept
    <2>2. CASE CallReturns(m)
          BY <2>2 DEF CallReturns, Resume, Forget, CallKept
    <2>3. CASE ~(CallManager(m) \/ CallReturns(m))
          BY <2>3 DEF LoopStep, ReconcileNothing, ReconcileInvalid, ReconcileStart,
             Dequeue, EvaluateContainer, QueryFails, OpenPullRequests, BuildManagerFails,
             UpdateStatus, UpdateReplyLost, UpdateConflicts, vars, CallKept
    <2> QED  BY <2>1, <2>2, <2>3
  <1>2. CASE run'[n] = run[n]
        BY <1>1, <1>2 DEF Kept
  <1>3. CASE WriteStatus(m)
    <2> DEFINE ended == [run EXCEPT ![m] = Idle]
    <2>1. ended = [k \in Managers |-> ended[k]] /\ ended[n] = run[n]
          OBVIOUS
    <2>2. run' = StaleRuns(run[m].policy, ended) \/ run' = ended
          BY <1>3 DEF WriteStatus
    <2>3. run[n] = Idle \/ run[n].phase # "idle"
          BY DEF IsRun
    <2> HIDE DEF ended
    <2>4. CASE run' = ended
          BY <1>1, <2>1, <2>4 DEF Kept
    <2>5. CASE run' = StaleRuns(run[m].policy, ended)
          BY <1>1, <2>1, <2>3, <2>5, StaleRunsKept
    <2> QED  BY <2>2, <2>4, <2>5
  <1>4. CASE ~(UpdateStatus(m) \/ UpdateReplyLost(m))
    <2>1. run'[n] = run[n]
          BY <1>4 DEF LoopStep, ReconcileNothing, ReconcileInvalid, ReconcileStart,
             Dequeue, EvaluateContainer, QueryFails, OpenPullRequests, BuildManagerFails,
             CallManager, CallReturns, UpdateConflicts, Fail
    <2> QED  BY <1>2, <2>1
  <1> QED  BY <1>3, <1>4 DEF UpdateStatus, UpdateReplyLost

\* The process itself.
LEMMA OwnStepOK ==
  ASSUME SystemInv, NEW m \in Managers, LoopStep(m), SpecsGrow, ClusterOK'
  PROVE  ProcessOK(m)'
  <1> USE DEF SystemInv, LoopInv, LoopOK
  <1>1. CASE \E p \in Policies : ReconcileNothing(m, p) \/ ReconcileInvalid(m, p)
    <2>1. Kept(m) /\ CallKept(m)
          BY <1>1 DEF ReconcileNothing, ReconcileInvalid, Dequeue, vars, Kept, CallKept
    <2> QED  BY <2>1, KeptProcess
  <1>2. ASSUME run[m].phase \in {"evaluate", "open"}, run'[m] = Idle, UNCHANGED vars
        PROVE  ProcessOK(m)'
        BY <1>2, StoppedProcess DEF ProcessOK, CallOK, vars
  <1>3. CASE QueryFails(m) \/ BuildManagerFails(m) \/ UpdateConflicts(m)
        BY <1>2, <1>3 DEF QueryFails, BuildManagerFails, UpdateConflicts, Updating, Fail
  <1>4. CASE UpdateStatus(m) \/ UpdateReplyLost(m)
    <2>1. run[m].phase = "open" /\ UNCHANGED vars /\ WriteStatus(m)
          BY <1>4 DEF UpdateStatus, UpdateReplyLost, Updating
    <2>2. run'[m] = Idle
          BY <2>1 DEF WriteStatus, StaleRuns, Idle
    <2> QED  BY <1>2, <2>1, <2>2
  <1> QED  BY <1>1, <1>3, <1>4, StartsOK, EvaluatesOK, OpensOK, CallsOK, ReturnsOK
           DEF LoopStep

LEMMA ProcessesOK ==
  ASSUME SystemInv, [SystemNext]_allVars, NEW n \in Managers
  PROVE  ProcessOK(n)'
  <1> USE DEF SystemInv, LoopInv, LoopOK
  <1>1. ClusterOK' /\ SpecsGrow
        BY ClusterStepOK
  <1>2. ASSUME Kept(n), CallKept(n) PROVE ProcessOK(n)'
        BY <1>1, <1>2, KeptProcess
  <1>3. ASSUME NEW m \in Managers, LoopStep(m) PROVE ProcessOK(n)'
        BY <1>1, <1>2, <1>3, OthersKept, OwnStepOK
  <1>4. ASSUME NEW m \in Managers, GitStep(m) PROVE ProcessOK(n)'
        BY <1>2, <1>4, CallStepKeeps DEF GitStep, loopVars, Kept
  <1>5. ASSUME NEW m \in Managers, Restart(m) PROVE ProcessOK(n)'
    <2>1. CASE n = m
      <3>1. run'[m] = Idle /\ step'[m] = "idle"
            BY <1>5 DEF Restart, Crash, Forget, vars, IndInv, ManagersOK
      <3> QED  BY <2>1, <3>1, StoppedProcess
    <2>2. CASE n # m
      <3>1. Kept(n) /\ CallKept(n)
            BY <1>5, <2>2 DEF Restart, Crash, Forget, vars, IndInv, ManagersOK, Kept, CallKept
      <3> QED  BY <1>2, <3>1
    <2> QED  BY <2>1, <2>2
  <1>6. ASSUME UNCHANGED <<vars, run>> PROVE ProcessOK(n)'
        BY <1>2, <1>6 DEF vars, Kept, CallKept
  <1>7. ASSUME NEW p \in Policies, DeletePolicy(p) \/ \E s \in Specs : EditPolicy(p, s)
        PROVE  ProcessOK(n)'
    <2>1. run' = StaleRuns(p, run) /\ UNCHANGED vars
          BY <1>7 DEF DeletePolicy, EditPolicy
    <2>2. Kept(n)
          BY <2>1, StaleRunsKept DEF IsRun
    <2> QED  BY <1>2, <2>1, <2>2 DEF vars, CallKept
  <1>8. CASE ClusterStep
    <2>1. CASE PersonStep /\ UNCHANGED <<clusterVars, loopVars>>
          BY <1>2, <2>1, PersonStepKeeps DEF loopVars, Kept
    <2> QED  BY <1>6, <1>7, <1>8, <2>1 DEF ClusterStep, UsageDrifts, Sync, loopVars
  <1> QED  BY <1>3, <1>4, <1>5, <1>6, <1>8
           DEF SystemNext, Deliver, TimerFires, allVars, loopVars

-----------------------------------------------------------------------------
LEMMA NextSystemInv == SystemInv /\ [SystemNext]_allVars => SystemInv'
  <1> SUFFICES ASSUME SystemInv, [SystemNext]_allVars PROVE SystemInv'
      OBVIOUS
  <1>1. IndInv'
        BY StepsAreGitOps, InvStep DEF SystemInv
  <1>2. LoopInv'
        BY NextLoopInv DEF SystemInv
  <1>3. ClusterOK' /\ SeenOK'
        BY ClusterStepOK, SeenStepOK
  <1>4. \A n \in Managers : ProcessOK(n)'
        BY ProcessesOK
  <1> QED  BY <1>1, <1>2, <1>3, <1>4 DEF SystemInv

LEMMA SystemInvariance == SystemSpec => []SystemInv
  BY InitSystemInv, NextSystemInv, PTL DEF SystemSpec

\* Every variable of the system has its type, and a call is under way exactly
\* while its run waits for it, in whatever process.
THEOREM SystemTypeCorrect == SystemSpec => []SystemTypeOK
  BY SystemInvariance, SystemInvTypes, PTL

\* The loop makes only calls that GitOps models: every behaviour of the system
\* is one of GitOps with its state, so what GitOpsProofs proves of
\* OpenRecommendationPR holds when Reconcile calls it.
THEOREM SystemImplementsGitOps == SystemSpec => Spec
  <1>1. SystemInit => Init
        BY DEF SystemInit
  <1> QED  BY <1>1, SystemInvariance, StepsAreGitOps, PTL DEF SystemSpec, Spec

\* For one: nothing reaches the manifests but through review, whatever the
\* loop does (manager.go:20, resourcepolicy_controller.go:299).
THEOREM SystemChangesOnlyThroughReview == SystemSpec => ChangesOnlyThroughReview
  BY SystemImplementsGitOps, ImplementsReviewGate, PTL

-----------------------------------------------------------------------------
(* No branch is published that a policy did not ask for, whatever is      *)
(* edited or deleted between the moment a run reads its policy and the     *)
(* push.                                                                   *)

\* The commit in a worktree is the one its call asks for.
CommitOK(m) ==
    worktree[m] # NoCommit =>
        worktree[m].file = call[m].file /\ Does(worktree[m], call[m].patch)

LEMMA CommitStep ==
  ASSUME IndInv, [Next]_vars, NEW m \in Managers, CommitOK(m)
  PROVE  CommitOK(m)'
  <1> USE DEF IndInv, ManagersOK
  <1>1. CASE worktree'[m] = NoCommit
        BY <1>1 DEF CommitOK
  <1>2. CASE worktree'[m] = worktree[m] /\ call'[m] = call[m]
        BY <1>2 DEF CommitOK
  <1>3. ASSUME PrepareBranch(m) PROVE CommitOK(m)'
    <2>1. /\ call'[m] = call[m] /\ worktree'[m] = Prepared(call[m])
          /\ Patchable(call[m])
          BY <1>3 DEF PrepareBranch
    <2>2. Does(Prepared(call[m]), call[m].patch) /\ Prepared(call[m]).file = call[m].file
          BY <2>1 DEF Does, Prepared, Patchable, ContainerNotFound
    <2> QED  BY <2>1, <2>2 DEF CommitOK
  <1>4. ASSUME NEW c \in Calls, OpenRecommendationPR(m, c) PROVE worktree'[m] = NoCommit
        BY <1>4 DEF OpenRecommendationPR, CommitHeld
  <1>5. ASSUME NEW n \in Managers, n # m,
               \/ Begin(n) \/ CallStep(n) \/ Resume(n) \/ Crash(n)
        PROVE  worktree'[m] = worktree[m] /\ call'[m] = call[m]
        BY <1>5 DEF Begin, OpenRecommendationPR, CallStep, CloneFails, PatchFails,
           NothingToCommit, PrepareBranch, Push, PushUpToDate, PushFails, PushReplyLost,
           OpenPullRequest, CreateFails, CreateReplyLost, AddLabels, LabelFails,
           PrepareFails, Return, Ends, Proceed, Resume, Crash, Forget
  <1>6. ASSUME CallStep(m), ~PrepareBranch(m)
        PROVE  worktree'[m] = NoCommit \/ (worktree'[m] = worktree[m] /\ call'[m] = call[m])
        BY <1>6 DEF CallStep, CloneFails, PatchFails,
           NothingToCommit, Push, PushUpToDate, PushFails, PushReplyLost,
           OpenPullRequest, CreateFails, CreateReplyLost, AddLabels, LabelFails,
           PrepareFails, Return, Ends, Proceed
  <1>7. ASSUME Resume(m) \/ Crash(m) PROVE worktree'[m] = NoCommit
        BY <1>7 DEF Resume, Crash, Forget
  <1>8. ASSUME PersonStep PROVE worktree'[m] = worktree[m] /\ call'[m] = call[m]
        BY <1>8 DEF PersonStep, MergePull, ClosePull, DeleteBranch, CommitToMain, managerVars
  <1>9. CASE UNCHANGED vars
        BY <1>2, <1>9 DEF vars
  <1> QED  BY <1>1, <1>2, <1>3, <1>4, <1>5, <1>6, <1>7, <1>8, <1>9 DEF Next, Begin

-----------------------------------------------------------------------------
\* The commit is one that a policy asks for with the spec of the generation in
\* the branch's name; it neither adds nor drops containers.
Asks(b, commit, ss) ==
    /\ DOMAIN commit.to.res = DOMAIN commit.from.res
    /\ \E p \in Policies :
          /\ Namespace[p] = commit.file[1]
          /\ b[2] <= Len(ss[p])
          /\ LET spec == ss[p][b[2]]
                 before == commit.from.res
                 after == commit.to.res
             IN  /\ Active(spec) /\ spec.gitOps = "repo"
                 /\ \A c \in DOMAIN before :
                       before[c] # after[c] => ~Forbids(spec, b[1], c)

\* It stays one when specs are added.
LEMMA AskedForGood ==
  ASSUME NEW b \in Branches, NEW commit, Asks(b, commit, specs),
         SpecsGrow, ClusterOK, ClusterOK'
  PROVE  Asks(b, commit, specs')
  <1>1. b[2] \in Nat \ {0}
        BY NamesAssumption, GenerationsAssumption DEF Generations
  <1>2. \A p \in Policies : /\ Len(specs[p]) \in Nat /\ Len(specs'[p]) \in Nat
                            /\ Len(specs'[p]) >= Len(specs[p])
        BY GenerationsAssumption DEF ClusterOK, Generation, Generations, SpecsGrow
  <1>3. \A p \in Policies : b[2] <= Len(specs[p]) =>
            b[2] <= Len(specs'[p]) /\ specs'[p][b[2]] = specs[p][b[2]]
        BY <1>1, <1>2 DEF SpecsGrow
  <1> QED  BY <1>3 DEF Asks

\* What a call pushes is what its run's policy asks for.
LEMMA CallsAreAskedFor ==
  ASSUME SystemInv, NEW m \in Managers, CommitOK(m), step[m] = "push"
  PROVE  Asks(call[m].branch, worktree[m], specs)
  <1> DEFINE r == run[m]
             c == call[m]
             commit == worktree[m]
  <1>1. /\ RunOK(r) /\ GoodRun(r, SpecOf(r))
        /\ c.file \in r.pending /\ c.branch = <<c.file[2], r.generation>>
        /\ \A k \in DOMAIN c.patch : MayTouch(r.policy, SpecOf(r), <<c.file, k>>)
        BY DEF SystemInv, ProcessOK, CallOK, RunOK, Idle
  <1>2. /\ commit \in Commit /\ c.patch \in Patch
        /\ commit.file = c.file /\ Does(commit, c.patch)
        BY UnderWay DEF SystemInv, CommitOK, IndInv, CommitHeld
  <1>3. Namespace[r.policy] = commit.file[1]
    <2>1. DOMAIN c.patch # {}
          BY <1>2 DEF Patch
    <2> QED  BY <1>1, <1>2, <2>1 DEF MayTouch
  <1>4. Active(SpecOf(r)) /\ SpecOf(r).gitOps = "repo"
        BY <1>1 DEF GoodRun
  <1>5. \A k \in DOMAIN commit.from.res :
           commit.from.res[k] # commit.to.res[k] => ~Forbids(SpecOf(r), c.branch[1], k)
    <2> SUFFICES ASSUME NEW k \in DOMAIN commit.from.res,
                        commit.from.res[k] # commit.to.res[k]
                 PROVE  ~Forbids(SpecOf(r), c.branch[1], k)
        OBVIOUS
    <2>1. k \in DOMAIN c.patch
          BY <1>2 DEF Does, ApplyDeploymentPatches
    <2> QED  BY <1>1, <2>1 DEF MayTouch
  <1>6. /\ r.policy \in Policies /\ c.branch[2] <= Len(specs[r.policy])
        /\ SpecOf(r) = specs[r.policy][c.branch[2]]
        BY <1>1 DEF RunOK, Generation, SpecOf
  <1>7. DOMAIN commit.to.res = DOMAIN commit.from.res
        BY <1>2 DEF Does, ApplyDeploymentPatches
  <1> HIDE DEF r, c, commit
  <1> QED  BY <1>3, <1>4, <1>5, <1>6, <1>7 DEF Asks, c, commit

-----------------------------------------------------------------------------
\* The tip of a branch changes by a push, or because the branch is deleted.
LEMMA TipsChange ==
  ASSUME IndInv, [Next]_vars, NEW b \in Branches
  PROVE  \/ branches'[b] \in {branches[b], NoCommit}
         \/ \E m \in Managers : /\ step[m] = "push" /\ b = call[m].branch
                                /\ branches'[b] = worktree[m]
  <1> USE DEF IndInv, RemoteOK
  <1>1. CASE UNCHANGED branches
        BY <1>1
  <1>2. ASSUME NEW m \in Managers, step[m] = "push", UpdateRef(m)
        PROVE  \/ branches'[b] = branches[b]
               \/ b = call[m].branch /\ branches'[b] = worktree[m]
        BY <1>2 DEF UpdateRef
  <1>3. ASSUME NEW m \in Managers, Push(m) \/ PushReplyLost(m)
        PROVE  step[m] = "push" /\ UpdateRef(m)
        BY <1>3 DEF Push, PushReplyLost
  <1>4. ASSUME NEW d \in Branches, DeleteBranch(d)
        PROVE  branches'[b] \in {branches[b], NoCommit}
        BY <1>4 DEF DeleteBranch
  <1>5. CASE UNCHANGED vars
        BY <1>1, <1>5 DEF vars
  <1> QED
        BY <1>1, <1>2, <1>3, <1>4, <1>5
           DEF Next, Begin, CallStep, PersonStep, OpenRecommendationPR, CloneFails,
           PatchFails, NothingToCommit, PrepareBranch, PushUpToDate, PushFails,
           OpenPullRequest, CreateFails, CreateReplyLost, AddLabels, LabelFails, Resume,
           Crash, Forget, MergePull, ClosePull, CommitToMain, remoteVars

ProposalInv ==
    /\ \A m \in Managers : CommitOK(m)
    /\ \A b \in Branches : branches[b] # NoCommit => Asks(b, branches[b], specs)

LEMMA NextProposalInv ==
  SystemInv /\ SystemInv' /\ ProposalInv /\ [SystemNext]_allVars => ProposalInv'
  <1> SUFFICES ASSUME SystemInv, SystemInv', ProposalInv, [SystemNext]_allVars
               PROVE  ProposalInv'
      OBVIOUS
  <1> USE DEF ProposalInv
  <1>1. [Next]_vars /\ IndInv
        BY StepsAreGitOps DEF SystemInv
  <1>2. \A m \in Managers : CommitOK(m)'
        BY <1>1, CommitStep
  <1>3. SpecsGrow /\ ClusterOK /\ ClusterOK'
        BY ClusterStepOK DEF SystemInv
  <1>4. ASSUME NEW b \in Branches, branches'[b] # NoCommit
        PROVE  Asks(b, branches'[b], specs')
    <2>1. CASE branches'[b] = branches[b]
          BY <1>3, <1>4, <2>1, AskedForGood
    <2>2. CASE \E m \in Managers : /\ step[m] = "push" /\ b = call[m].branch
                                   /\ branches'[b] = worktree[m]
      <3> PICK m \in Managers : /\ step[m] = "push" /\ b = call[m].branch
                                /\ branches'[b] = worktree[m]
          BY <2>2
      <3>1. Asks(b, branches'[b], specs)
            BY CallsAreAskedFor
      <3> QED  BY <1>3, <3>1, AskedForGood
    <2> QED  BY <1>1, <1>4, <2>1, <2>2, TipsChange
  <1> QED  BY <1>2, <1>4

LEMMA ProposalInvariance == SystemSpec => []ProposalInv
  <1>1. SystemInit => ProposalInv
        BY DEF SystemInit, Init, ProposalInv, CommitOK
  <1> QED  BY <1>1, SystemInvariance, NextProposalInv, PTL DEF SystemSpec

\* A published branch is one that the spec of the generation in its name asks
\* for (resourcepolicy_controller.go:287 names it, from the copy that line 78
\* read), for any number of processes, policies and namespaces.
THEOREM OnlyAskedForIsPublished == SystemSpec => []ProposalsJustified
  <1>1. ProposalInv => ProposalsJustified
        BY DEF ProposalInv, ProposalsJustified, Asks, Generation
  <1> QED  BY <1>1, ProposalInvariance, PTL

\* And so is what reaches the base branch, though it may have moved on since
\* the commit was made: a merge changes no container that is excluded
\* (resourcepolicy_types.go:109).
THEOREM MergesRespectExclusions == SystemSpec => MergesSkipExclusions
  <1> DEFINE Merges(n) == pulls[n].state = "open" /\ pulls'[n].state = "merged"
             SkipsExcluded(n) ==
                LET b == pulls[n].head
                    file == branches[b].file
                    before == main[file].res
                    after == main'[file].res
                IN  /\ \A other \in Workloads \ {file} : main'[other] = main[other]
                    /\ DOMAIN after = DOMAIN before
                    /\ \E p \in Policies :
                          /\ Namespace[p] = file[1]
                          /\ b[2] <= Generation(p)
                          /\ LET spec == specs[p][b[2]] IN
                               /\ Active(spec) /\ spec.gitOps = "repo"
                               /\ \A c \in DOMAIN after :
                                     after[c] # before[c] => ~Forbids(spec, b[1], c)
  <1>1. ASSUME SystemInv, ProposalInv, NEW n \in DOMAIN pulls, MergePull(n)
        PROVE  SkipsExcluded(n)
    <2> DEFINE b == pulls[n].head
               commit == branches[b]
    <2>1. b \in Branches /\ commit \in Commit /\ Asks(b, commit, specs)
          BY <1>1, PullTypes
             DEF MergePull, SystemInv, IndInv, RemoteOK, OnePullPerBranch, ProposalInv
    <2>2. commit.file \in Files /\ main \in Tree
          BY <1>1, <2>1 DEF Commit, SystemInv, IndInv, RemoteOK
    <2>3. MergesCleanly(main, commit) /\ main' = Merged(main, commit)
          BY <1>1 DEF MergePull
    <2> HIDE DEF commit
    <2>4. /\ DOMAIN main'[commit.file].res = DOMAIN main[commit.file].res
          /\ \A c \in DOMAIN main'[commit.file].res \ ChangedBy(commit) :
                main'[commit.file].res[c] = main[commit.file].res[c]
          /\ \A other \in Files \ {commit.file} : main'[other] = main[other]
          BY <2>1, <2>2, <2>3, MergeKeepsTheRest
    <2>5. \A other \in Workloads \ {commit.file} : main'[other] = main[other]
          BY <2>4, NamesAssumption
    <2>6. PICK p \in Policies :
             /\ Namespace[p] = commit.file[1]
             /\ b[2] <= Generation(p)
             /\ Active(specs[p][b[2]]) /\ specs[p][b[2]].gitOps = "repo"
             /\ \A c \in DOMAIN commit.from.res :
                   commit.from.res[c] # commit.to.res[c] => ~Forbids(specs[p][b[2]], b[1], c)
          BY <2>1 DEF Asks, Generation
    <2>7. \A c \in DOMAIN main'[commit.file].res :
             main'[commit.file].res[c] # main[commit.file].res[c]
                => ~Forbids(specs[p][b[2]], b[1], c)
          BY <2>4, <2>6 DEF ChangedBy
    <2> QED  BY <2>4, <2>5, <2>6, <2>7 DEF commit
  <1>2. SystemInv /\ ProposalInv /\ [SystemNext]_allVars
           => [\A n \in DOMAIN pulls : Merges(n) => SkipsExcluded(n)]_allVars
    <2> SUFFICES ASSUME SystemInv, ProposalInv, [SystemNext]_allVars,
                        NEW n \in DOMAIN pulls, Merges(n)
                 PROVE  SkipsExcluded(n)
        OBVIOUS
    <2>1. [Next]_vars /\ IndInv
          BY StepsAreGitOps DEF SystemInv
    <2>2. Next
          BY <2>1 DEF vars
    <2>3. MergePull(n)
          BY <2>1, <2>2, PeopleMerge
    <2> QED  BY <2>3, <1>1
  <1> QED  BY <1>2, SystemInvariance, ProposalInvariance, PTL
              DEF SystemSpec, MergesSkipExclusions

\* What a merge does is what the pull request's table says, whichever process
\* opened it, if there is one process or nobody deletes branches.
THEOREM SystemMergesApplyBodies ==
  ASSUME Undisturbed
  PROVE  SystemSpec => MergeAppliesBody
  BY SystemImplementsGitOps, MergesApplyBodies, PTL

=============================================================================
