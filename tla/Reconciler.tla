----------------------------- MODULE Reconciler -----------------------------
(***************************************************************************)
(* internal/controller: the ResourcePolicy reconcile loop as cmd/manager   *)
(* runs it -- an informer cache, a work queue with one worker, and the     *)
(* Reconcile handler, which reads a cached policy, queries usage container *)
(* by container, opens one pull request per workload through GitOps and    *)
(* writes the status last.                                                 *)
(*                                                                         *)
(* Between the read and the write the policy can be edited or deleted,     *)
(* usage can drift, the live Deployments can be synced from the base       *)
(* branch and people can act on the pull requests: Reconcile never looks   *)
(* again.  The recommendation engine is abstracted to its result: the      *)
(* value a container's usage calls for, and which changes are material.    *)
(***************************************************************************)
EXTENDS GitOps

CONSTANTS Policies,
          Namespace,        \* the namespace of each policy
          Workloads,        \* Deployments, <<namespace, name>>; names are numbers
                            \* in their sort order
          Specs,            \* the specs people may write
          Material,         \* pairs <<current, recommended>> at or over the threshold
          InitialLive,      \* the resources Deployments may have at the start
          InitialUsage,     \* the values usage may call for at the start
          Drifts,           \* the values usage may come to call for
          NoData,           \* no series, or fewer samples than minSamples
          QueryFaults,      \* {"metrics"} when Prometheus may fail
          MaxGenerations    \* bound: edits of a policy, the first one included

Names == {w[2] : w \in Workloads}

\* What the loop reads of a ResourcePolicySpec.  "valid" is FALSE when
\* spec.window or spec.workloadSelector does not parse.
PolicySpec == [suspend : BOOLEAN, valid : BOOLEAN, labels : BOOLEAN,
          gitOps : {"none", "repo", "malformed"},
          exclusions : SUBSET (Names \X (Containers \cup {""}))]

Generations == 1..MaxGenerations
Pod == Workloads \X Containers
Recommendation == [pod : Pod, value : Values]
\* A policy is queued for its own status, or for any other reason.
Reasons == {"due", "status"}

ASSUME SpecsAssumption ==
    /\ Specs \subseteq PolicySpec
    /\ InitialLive \subseteq [Workloads -> PartialResources]
    /\ InitialUsage \cup Drifts \subseteq Values \cup {NoData}
    /\ NoData \notin Values
ASSUME GenerationsAssumption == MaxGenerations \in Nat \ {0}
ASSUME NamesAssumption ==
    /\ \A w \in Workloads : w = <<w[1], w[2]>> /\ w[2] \in Nat
    /\ Files = Workloads
    /\ Branches = Names \X Generations
    /\ Material \subseteq Values \X Values
\* A run may ask for any call.
ASSUME RunsCallsAssumption == Calls = Call

VARIABLES specs,     \* specs[p]: every spec of a policy, by generation
          deleted,   \* the policies that are gone
          status,    \* the status subresource
          live,      \* the Deployments' resources, by container
          usage,     \* the value each container's usage calls for, or NoData
          seen,      \* the generation in a process's informer cache, 0 if gone
          fresh,     \* the policies whose cached object is the server's
          queue,     \* why a policy is in the work queue; not in it when {}
          delayed,   \* policies to be queued again later
          run        \* the Reconcile call under way

clusterVars == <<specs, deleted, status, live, usage>>
loopVars == <<seen, fresh, queue, delayed, run>>
gitVars == <<remoteVars, managerVars>>
allVars == <<vars, clusterVars, loopVars>>

Idle == [phase |-> "idle"]

Generation(p) == Len(specs[p])
Latest(p) == specs[p][Generation(p)]

\* The spec a run works from: its own copy, of the generation it read.
SpecOf(r) == specs[r.policy][r.generation]

\* Mutant: an exclusion without a container is not looked up.
ExcludesContainers(spec, pod) == <<pod[1][2], pod[2]>> \in spec.exclusions

\* buildExclusionSet and its two lookups: the container, or the workload.
Excluded(spec, pod) ==
    \E c \in {pod[2], ""} : <<pod[1][2], c>> \in spec.exclusions

NoStatus == [observed |-> 0, recommendations |-> {}, url |-> 0, ready |-> FALSE]

SystemInit ==
    /\ Init
    /\ specs \in [Policies -> {<<s>> : s \in Specs}]
    /\ deleted = {}
    /\ status = [p \in Policies |-> NoStatus]
    /\ live \in InitialLive
    /\ usage \in [Pod -> InitialUsage]
    /\ seen = [m \in Managers |-> [p \in Policies |-> 1]]
    /\ fresh = [m \in Managers |-> Policies]
    /\ queue = [m \in Managers |-> [p \in Policies |-> {"due"}]]
    /\ delayed = [m \in Managers |-> {}]
    /\ run = [m \in Managers |-> Idle]

-----------------------------------------------------------------------------
(* Cache and queue (controller-runtime).                                   *)

\* A write to the policy makes every cached copy of it old, those that runs
\* hold included.
Written(p) == fresh' = [m \in Managers |-> fresh[m] \ {p}]

StaleRuns(p, runs) ==
    [m \in Managers |->
        IF runs[m].phase # "idle" /\ runs[m].policy = p
        THEN [runs[m] EXCEPT !.current = FALSE] ELSE runs[m]]

\* The watch brings the newest object.  There is no generation predicate, so
\* a status write queues the policy as well as an edit of its spec.
Deliver(m, p) ==
    LET now == IF p \in deleted THEN 0 ELSE Generation(p)
        reason == IF now # seen[m][p] THEN "due" ELSE "status"
    IN  /\ p \notin fresh[m]
        /\ seen' = [seen EXCEPT ![m][p] = now]
        /\ fresh' = [fresh EXCEPT ![m] = @ \cup {p}]
        /\ queue' = [queue EXCEPT ![m][p] = @ \cup {reason}]
        /\ UNCHANGED <<vars, clusterVars, delayed, run>>

\* defaultRequeueInterval or the rate limiter's back-off is over.
TimerFires(m, p) ==
    /\ p \in delayed[m]
    /\ delayed' = [delayed EXCEPT ![m] = @ \ {p}]
    /\ queue' = [queue EXCEPT ![m][p] = @ \cup {"due"}]
    /\ UNCHANGED <<vars, clusterVars, seen, fresh, run>>

\* Mutant: a run that succeeds returns Result{}.
NeverAgain(m, p) == UNCHANGED delayed

\* The end of a Reconcile call.  Result{RequeueAfter}: added again after the
\* interval; Result{}: not added; an error: added again after a back-off,
\* however often it has failed.
Requeued(m, p) == delayed' = [delayed EXCEPT ![m] = @ \cup {p}]

NotRequeued(m, p) == UNCHANGED delayed

RateLimited(m, p) == delayed' = [delayed EXCEPT ![m] = @ \cup {p}]

\* Mutant: an error is logged, and the run does not end.
OnlyLogs(m) ==
    /\ RateLimited(m, run[m].policy)
    /\ UNCHANGED <<clusterVars, run, seen, fresh, queue>>

\* Mutant: an error is logged and the run returns nil.
Drops(m) ==
    /\ NotRequeued(m, run[m].policy)
    /\ run' = [run EXCEPT ![m] = Idle]
    /\ UNCHANGED <<clusterVars, seen, fresh, queue>>

\* A run returns an error: nothing else is written.
Fail(m) ==
    /\ RateLimited(m, run[m].policy)
    /\ run' = [run EXCEPT ![m] = Idle]
    /\ UNCHANGED <<clusterVars, seen, fresh, queue>>

-----------------------------------------------------------------------------
(* Reconcile.                                                              *)

Dequeue(m, p) ==
    /\ run[m].phase = "idle"
    /\ queue[m][p] # {}
    /\ queue' = [queue EXCEPT ![m][p] = {}]
    /\ UNCHANGED <<vars, clusterVars, seen, fresh>>

CachedSpec(m, p) == specs[p][seen[m][p]]

\* The policy is gone from the cache, or suspended: no requeue.
NothingToDo(m, p) == seen[m][p] # 0 => CachedSpec(m, p).suspend

ReconcileNothing(m, p) ==
    /\ Dequeue(m, p)
    /\ NothingToDo(m, p)
    /\ NotRequeued(m, p)
    /\ UNCHANGED run

ReconcileInvalid(m, p) ==
    /\ Dequeue(m, p)
    /\ ~NothingToDo(m, p)
    /\ ~CachedSpec(m, p).valid
    /\ RateLimited(m, p)
    /\ UNCHANGED run

\* The containers of the listed Deployments, those of the policy's namespace,
\* that are to be evaluated.
Selected(p, spec) ==
    {pod \in Pod : /\ pod[1][1] = Namespace[p]
                   /\ pod[2] \in DOMAIN live[pod[1]]
                   /\ ~Excluded(spec, pod)}

\* Get and List both read the cache; what they return is kept for the run.
ReconcileStart(m, p) ==
    /\ Dequeue(m, p)
    /\ ~NothingToDo(m, p)
    /\ CachedSpec(m, p).valid
    /\ run' = [run EXCEPT ![m] =
          [phase |-> "evaluate", policy |-> p, generation |-> seen[m][p],
           current |-> p \in fresh[m], deployments |-> live,
           todo |-> Selected(p, CachedSpec(m, p)),
           recommendations |-> {}, changes |-> {}, pending |-> {}, url |-> 0]]
    /\ UNCHANGED delayed

\* evaluateContainer.  The list has no order.  ErrNoData and
\* ErrInsufficientSamples skip the container; a change under the threshold is
\* recommended but not proposed.
EvaluateContainer(m, pod) ==
    LET r == run[m]
        rec == [pod |-> pod, value |-> usage[pod]]
        material == <<r.deployments[pod[1]][pod[2]], usage[pod]>> \in Material
    IN  /\ r.phase = "evaluate"
        /\ pod \in r.todo
        /\ run' = [run EXCEPT ![m] =
              [r EXCEPT !.todo = @ \ {pod},
                        !.recommendations = IF usage[pod] = NoData THEN @ ELSE @ \cup {rec},
                        !.changes = IF usage[pod] = NoData \/ ~material THEN @ ELSE @ \cup {rec}]]
        /\ UNCHANGED <<vars, clusterVars, seen, fresh, queue, delayed>>

\* Any other error of a query ends the run, and what it computed is dropped.
QueryFails(m) ==
    /\ run[m].phase = "evaluate"
    /\ run[m].todo # {}
    /\ "metrics" \in QueryFaults
    /\ Fail(m)
    /\ UNCHANGED vars

\* Mutant: what the status recommends already is not proposed.
ProposesNews(m) ==
    /\ SpecOf(run[m]).gitOps # "none" /\ run[m].changes # {}
    /\ run[m].recommendations # status[run[m].policy].recommendations

\* spec.gitOps is set and some change is material.
Proposes(m) == SpecOf(run[m]).gitOps # "none" /\ run[m].changes # {}

\* openPullRequests up to its loop.  pending is changesByWorkload's keys.
OpenPullRequests(m) ==
    /\ run[m].phase = "evaluate"
    /\ run[m].todo = {}
    /\ Proposes(m) => SpecOf(run[m]).gitOps = "repo"
    /\ run' = [run EXCEPT
          ![m].phase = "open",
          ![m].pending = IF Proposes(m) THEN {rec.pod[1] : rec \in run[m].changes} ELSE {}]
    /\ UNCHANGED <<vars, clusterVars, seen, fresh, queue, delayed>>

\* NewPRManager refuses a repo that is not owner/name, or an empty token.
BuildManagerFails(m) ==
    /\ run[m].phase = "evaluate"
    /\ run[m].todo = {}
    /\ Proposes(m)
    /\ SpecOf(run[m]).gitOps = "malformed"
    /\ Fail(m)
    /\ UNCHANGED vars

\* The workload whose turn it is: sort.Strings(workloads).
Turn(m) == CHOOSE w \in run[m].pending : \A v \in run[m].pending : w[2] <= v[2]

\* Mutant: the branch is named by the generation the policy has by now.
NamedByLatest(m) == <<Turn(m)[2], Generation(run[m].policy)>>

\* The Deployment's name and the policy's generation, without the namespace.
BranchName(m) == <<Turn(m)[2], run[m].generation>>

PatchOf(m) ==
    LET changes == {rec \in run[m].changes : rec.pod[1] = Turn(m)}
    IN  [c \in {rec.pod[2] : rec \in changes} |->
            (CHOOSE rec \in changes : rec.pod[2] = c).value]

CallManager(m) ==
    /\ run[m].phase = "open"
    /\ run[m].pending # {}
    /\ OpenRecommendationPR(m, [branch |-> BranchName(m), file |-> Turn(m),
                                patch |-> PatchOf(m), labels |-> SpecOf(run[m]).labels])
    /\ run' = [run EXCEPT ![m].phase = "call"]
    /\ UNCHANGED <<clusterVars, seen, fresh, queue, delayed>>

\* err == gitops.ErrNoChanges compares the outermost error only.
Skips(err) == err = ErrNoChanges

CallReturns(m) ==
    /\ run[m].phase = "call"
    /\ Resume(m)
    /\ LET err == result[m].err
           lastURL == IF err = nil THEN result[m].number ELSE run[m].url
       IN  \/ /\ err = nil \/ Skips(err)
              /\ run' = [run EXCEPT ![m].phase = "open", ![m].pending = @ \ {Turn(m)},
                                    ![m].url = lastURL]
              /\ UNCHANGED <<clusterVars, seen, fresh, queue, delayed>>
           \/ /\ err # nil /\ ~Skips(err)
              /\ Fail(m)

\* The status a run writes.  LastPullRequestURL stays when it opened nothing.
NewStatus(r) ==
    [observed |-> r.generation, recommendations |-> r.recommendations,
     url |-> IF r.url # 0 THEN r.url ELSE status[r.policy].url, ready |-> TRUE]

Updating(m) == run[m].phase = "open" /\ run[m].pending = {}

\* Mutant: a patch without a resourceVersion.
AcceptsStale(m) == run[m].policy \notin deleted

\* Status().Update sends the resourceVersion of the copy it read.
Accepts(m) == run[m].current /\ run[m].policy \notin deleted

\* lastReconcileTime has seconds: a write within the second of the last one
\* that says the same is no write.
WriteStatus(m) ==
    LET p == run[m].policy
        ended == [run EXCEPT ![m] = Idle]
    IN  \/ /\ status' = [status EXCEPT ![p] = NewStatus(run[m])]
           /\ Written(p)
           /\ run' = StaleRuns(p, ended)
        \/ /\ NewStatus(run[m]) = status[p]
           /\ run' = ended
           /\ UNCHANGED <<status, fresh>>

UpdateStatus(m) ==
    /\ Updating(m)
    /\ Accepts(m)
    /\ WriteStatus(m)
    /\ Requeued(m, run[m].policy)
    /\ UNCHANGED <<vars, specs, deleted, live, usage, seen, queue>>

\* The write is made but the call fails.
UpdateReplyLost(m) ==
    /\ Updating(m)
    /\ Accepts(m)
    /\ "lost reply" \in Faults
    /\ WriteStatus(m)
    /\ RateLimited(m, run[m].policy)
    /\ UNCHANGED <<vars, specs, deleted, live, usage, seen, queue>>

UpdateConflicts(m) ==
    /\ Updating(m)
    /\ ~Accepts(m)
    /\ Fail(m)
    /\ UNCHANGED vars

\* The process ends and starts again: it lists every policy and queues it.
Restart(m) ==
    /\ "crash" \in Faults
    /\ IF step[m] = "idle" THEN UNCHANGED vars ELSE Crash(m)
    /\ seen' = [seen EXCEPT ![m] =
                   [p \in Policies |-> IF p \in deleted THEN 0 ELSE Generation(p)]]
    /\ fresh' = [fresh EXCEPT ![m] = Policies]
    /\ queue' = [queue EXCEPT ![m] =
                   [p \in Policies |-> IF p \in deleted THEN {} ELSE {"due"}]]
    /\ delayed' = [delayed EXCEPT ![m] = {}]
    /\ run' = [run EXCEPT ![m] = Idle]
    /\ UNCHANGED clusterVars

-----------------------------------------------------------------------------
(* The cluster.                                                            *)

EditPolicy(p, spec) ==
    /\ p \notin deleted
    /\ Generation(p) < MaxGenerations
    /\ spec # Latest(p)
    /\ specs' = [specs EXCEPT ![p] = Append(@, spec)]
    /\ Written(p)
    /\ run' = StaleRuns(p, run)
    /\ UNCHANGED <<vars, deleted, status, live, usage, seen, queue, delayed>>

DeletePolicy(p) ==
    /\ p \notin deleted
    /\ deleted' = deleted \cup {p}
    /\ Written(p)
    /\ run' = StaleRuns(p, run)
    /\ UNCHANGED <<vars, specs, status, live, usage, seen, queue, delayed>>

UsageDrifts(pod, value) ==
    /\ usage[pod] # value
    /\ usage' = [usage EXCEPT ![pod] = value]
    /\ UNCHANGED <<vars, specs, deleted, status, live, loopVars>>

\* Continuous delivery applies the base branch to the cluster.
Sync(w) ==
    /\ main[w] # NoFile
    /\ live[w] # main[w].res
    /\ live' = [live EXCEPT ![w] = main[w].res]
    /\ UNCHANGED <<vars, specs, deleted, status, usage, loopVars>>

-----------------------------------------------------------------------------
\* Everything the process does by itself.
LoopStep(m) ==
    \/ \E p \in Policies :
          ReconcileNothing(m, p) \/ ReconcileInvalid(m, p) \/ ReconcileStart(m, p)
    \/ \E pod \in Pod : EvaluateContainer(m, pod)
    \/ QueryFails(m)
    \/ OpenPullRequests(m) \/ BuildManagerFails(m)
    \/ CallManager(m) \/ CallReturns(m)
    \/ UpdateStatus(m) \/ UpdateReplyLost(m) \/ UpdateConflicts(m)

GitStep(m) == CallStep(m) /\ UNCHANGED <<clusterVars, loopVars>>

ClusterStep ==
    \/ \E p \in Policies : DeletePolicy(p) \/ \E s \in Specs : EditPolicy(p, s)
    \/ \E pod \in Pod, value \in Drifts : UsageDrifts(pod, value)
    \/ \E w \in Workloads : Sync(w)
    \/ PersonStep /\ UNCHANGED <<clusterVars, loopVars>>

SystemNext ==
    \/ \E m \in Managers :
          \/ LoopStep(m) \/ GitStep(m) \/ Restart(m)
          \/ \E p \in Policies : Deliver(m, p) \/ TimerFires(m, p)
    \/ ClusterStep

SystemSpec == SystemInit /\ [][SystemNext]_allVars

Works(m, p) == run[m].phase # "idle" /\ run[m].policy = p

\* The process keeps running, its timers fire, its watch delivers and its
\* queue is first in, first out; a query or a clone made again and again for a
\* policy does not fail every time.
SystemFairness ==
    \A m \in Managers :
        /\ WF_allVars(LoopStep(m))
        /\ WF_allVars(GitStep(m))
        /\ \A p \in Policies :
              /\ WF_allVars(Deliver(m, p))
              /\ WF_allVars(TimerFires(m, p))
              /\ SF_allVars(ReconcileStart(m, p))
              /\ \A pod \in Pod : SF_allVars(Works(m, p) /\ EvaluateContainer(m, pod))
              /\ SF_allVars(Works(m, p) /\ PrepareBranch(m) /\ UNCHANGED <<clusterVars, loopVars>>)

FairSystemSpec == SystemSpec /\ SystemFairness

-----------------------------------------------------------------------------
(* Properties.                                                             *)

Runs == [phase : {"evaluate", "open", "call"}, policy : Policies, generation : Generations,
         current : BOOLEAN, deployments : [Workloads -> PartialResources],
         todo : SUBSET Pod, recommendations : SUBSET Recommendation,
         changes : SUBSET Recommendation, pending : SUBSET Workloads, url : Nat]

\* The types of the loop's state, and what ties it to GitOps's: a call is
\* under way exactly while its run waits for it.
SystemTypeOK ==
    /\ TypeOK
    /\ \A p \in Policies : specs[p] \in Seq(PolicySpec) /\ Generation(p) \in Generations
    /\ deleted \subseteq Policies
    /\ status \in [Policies ->
          [observed : Nat, recommendations : SUBSET Recommendation, url : Nat, ready : BOOLEAN]]
    /\ live \in [Workloads -> PartialResources]
    /\ usage \in [Pod -> Values \cup {NoData}]
    /\ seen \in [Managers -> [Policies -> 0..MaxGenerations]]
    /\ fresh \in [Managers -> SUBSET Policies]
    /\ queue \in [Managers -> [Policies -> SUBSET Reasons]]
    /\ delayed \in [Managers -> SUBSET Policies]
    /\ run \in [Managers -> Runs \cup {Idle}]
    /\ \A m \in Managers : run[m].phase = "call" <=> step[m] # "idle"

\* The spec forbids changes of a container of a Deployment of that name.
Forbids(spec, name, container) ==
    \E e \in spec.exclusions : e[1] = name /\ e[2] \in {container, ""}

\* A policy with this spec is to be reconciled.
Active(spec) == spec.valid /\ ~spec.suspend

\* The spec of a policy lets it recommend something for the container.
Allowed(p, spec, rec) ==
    /\ rec.pod[1][1] = Namespace[p]
    /\ ~Forbids(spec, rec.pod[1][2], rec.pod[2])

\* A published branch is one that the spec of the generation in its name asks
\* for, of some policy of the namespace whose manifest it changes: that spec is
\* not suspended and publishes, and no container it excludes is changed --
\* though the policy may have been edited or deleted at any moment between the
\* read and the push, and another policy may want the same name.
ProposalsJustified ==
    \A b \in Branches : branches[b] # NoCommit =>
        \E p \in Policies :
            /\ Namespace[p] = branches[b].file[1]
            /\ b[2] <= Generation(p)
            /\ LET spec == specs[p][b[2]]
                   before == branches[b].from.res
                   after == branches[b].to.res
               IN  /\ Active(spec) /\ spec.gitOps = "repo"
                   /\ \A c \in DOMAIN before :
                         before[c] # after[c] => ~Forbids(spec, b[1], c)

\* "Exclusions lists workload/container pairs to skip entirely"
\* (resourcepolicy_types.go:109), to the end of the way: when a pull request is
\* merged, whoever opened it and however long it has waited, one manifest
\* changes, in the resources of containers that it has and keeps, and those are
\* none that the spec of the generation in the branch's name excludes.
MergesSkipExclusions ==
    [][\A n \in DOMAIN pulls : pulls[n].state = "open" /\ pulls'[n].state = "merged" =>
          LET b == pulls[n].head
              file == branches[b].file
              before == main[file].res
              after == main'[file].res
          IN  /\ \A other \in Workloads \ {file} : main'[other] = main[other]
              /\ DOMAIN after = DOMAIN before
              /\ \E p \in Policies :
                    /\ Namespace[p] = file[1]
                    /\ b[2] <= Generation(p)
                    /\ LET spec == specs[p][b[2]] IN
                         /\ Active(spec) /\ spec.gitOps = "repo"
                         /\ \A c \in DOMAIN after :
                               after[c] # before[c] => ~Forbids(spec, b[1], c)]_allVars

\* The status is one run's view: its recommendations are those the observed
\* generation allows, one for a container of the policy's namespace, and the
\* pull request it names is one of that generation or an earlier one, changes
\* a manifest of that namespace and no container that generation excludes --
\* though a Deployment and a policy of another namespace may well have led to
\* the same branch name.  Nobody deletes branches.
StatusIsOneView ==
    \A p \in Policies : status[p].observed # 0 =>
        LET spec == specs[p][status[p].observed]
            recs == status[p].recommendations
        IN  /\ Active(spec)
            /\ \A rec \in recs : Allowed(p, spec, rec)
            /\ \A r1, r2 \in recs : r1.pod = r2.pod => r1 = r2
            /\ status[p].url # 0 =>
                  LET pull == pulls[status[p].url] IN
                    /\ pull.head[2] <= status[p].observed
                    /\ branches[pull.head].file[1] = Namespace[p]
                    /\ \A c \in DOMAIN pull.body :
                          ~Forbids(specs[p][pull.head[2]], pull.head[1], c)

\* The loop never loses a policy that is to be reconciled: it is queued, due
\* later, under way, or about to be delivered by the watch.  Suspended ones
\* are dropped on purpose and come back only through the watch.
NeverForgotten ==
    \A m \in Managers, p \in Policies \ deleted :
        \/ Latest(p).suspend
        \/ queue[m][p] # {}
        \/ p \in delayed[m]
        \/ p \notin fresh[m]
        \/ run[m].phase # "idle" /\ run[m].policy = p

\* The promise of PolicyStatus.tla: a status write is one report on the policy
\* as it is at that moment, although the run behind it read a cached copy long
\* before, a deposed leader may still be inside its own, and the policy was
\* edited, suspended or deleted meanwhile.
Serial == INSTANCE PolicyStatus WITH Reconciled <- Active, Allows <- Allowed

StatusIsSerial == Serial!Spec

\* A dry-run policy that is not suspended is observed at its generation,
\* unless it is edited again or deleted: no failure, edit, suspension or
\* conflict takes it out of the loop for good.
SpecObserved ==
    \A p \in Policies, g \in Generations :
        (/\ p \notin deleted /\ Generation(p) = g
         /\ Active(Latest(p)) /\ Latest(p).gitOps = "none")
            ~> (p \in deleted \/ Generation(p) # g \/ status[p].observed = g)

\* A policy at generation g asks for a pull request for a container.
Wants(p, g, pod) ==
    /\ p \notin deleted
    /\ Namespace[p] = pod[1][1]
    /\ Generation(p) = g
    /\ LET spec == specs[p][g] IN
         /\ Active(spec) /\ spec.gitOps = "repo"
         /\ ~Forbids(spec, pod[1][2], pod[2])
    /\ usage[pod] # NoData
    /\ <<live[pod[1]][pod[2]], usage[pod]>> \in Material

\* Some pull request has been made whose branch changes the workload's
\* manifest, and that sets the container to the value.
Proposed(pod, value) ==
    \E n \in DOMAIN pulls : /\ branches[pulls[n].head] # NoCommit
                            /\ branches[pulls[n].head].file = pod[1]
                            /\ pod[2] \in DOMAIN pulls[n].body
                            /\ pulls[n].body[pod[2]] = value

\* "Opens one PR per workload that had a material recommendation change"
\* (resourcepolicy_controller.go:248), and "if the same workload changes again
\* before the previous PR merges, a new branch is opened" (README.md): a
\* change that stays material gets its pull request.
MaterialChangeProposed ==
    \A p \in Policies, g \in Generations, pod \in Pod, value \in Values :
        (Wants(p, g, pod) /\ usage[pod] = value)
            ~> (Proposed(pod, value) \/ ~Wants(p, g, pod) \/ usage[pod] # value)

\* "Recommendations holds the most recently computed per-container
\* recommendations, regardless of whether a PR was opened for them"
\* (resourcepolicy_types.go:150): a run that got as far as proposing ends with
\* what it computed in the status.
ComputedReachesStatus ==
    [][\A m \in Managers :
          run[m].phase \in {"open", "call"} /\ run'[m].phase = "idle" =>
              status'[run[m].policy].recommendations = run[m].recommendations]_allVars

\* "Re-evaluation on a fixed interval ... is what picks up drifting usage"
\* (resourcepolicy_controller.go:393): a run of a policy that nobody edited
\* begins when its timer fires, and not for the status it wrote itself.
ReevaluatedByTimer ==
    [][\A m \in Managers, p \in Policies :
          queue[m][p] # {} /\ queue'[m][p] = {} => queue[m][p] # {"status"}]_allVars
=============================================================================
