# Verification of kube-rightsizer

TLA+ models of the kube-rightsizer controller, model-checked with TLC on small
instances, and theorems about them checked by TLAPS for every value of the
constants. All paths below are relative to the repository.

## The system

kube-rightsizer watches `ResourcePolicy` objects, reads the usage history of the
Deployments they select, computes recommended requests and limits, and proposes
them as pull requests against a repository of manifests. It never changes a live
workload.

| part | state it keeps | operations | what makes it correct |
|---|---|---|---|
| reconcile loop, `internal/controller` | none of its own; a cached policy, the work queue (controller-runtime), the status it writes | `Reconcile`: read, list, evaluate each container, open pull requests, write the status | no policy is lost from the loop; the status is one run's view of the newest spec; a material change is proposed |
| container evaluation, `evaluateContainer` | none | two queries, two recommendations, threshold | a patch is admissible; the reported change agrees with the decision; the loop of evaluate, merge and evaluate again settles |
| `internal/gitops` Manager and Repository | a temporary clone per call | `OpenRecommendationPR`: clone, patch, commit, push, open, label, clean up | no return of a call leaves its clone; nil means a pull request that matches; nothing under review is replaced |
| `internal/gitops` GitHub opener | none | create, then label | the number returned is the one created |
| `internal/patch` | none | `ApplyDeploymentPatches` | all containers or none; exactly the named containers' resources change; a second time changes nothing |
| `internal/recommend` | none | percentile, headroom, clamps, limit, relative change | the request covers the percentile and respects its bounds |
| `internal/metrics` | none | range query to samples | the points of all pods that the regex matches, inside the window, and no others reach the percentile |
| `cmd/manager` | leader lease (external) | start, end | at most one active loop, if leader election is on |
| `api/v1alpha1` | the stored object | - | - |
| remote repository and forge (external) | base branch, branches, pull requests | push, create, label, merge, close, delete | - |

Interactions: the work queue calls `Reconcile`, one call at a time
(`MaxConcurrentReconciles` is 1); `Reconcile` calls Prometheus, then
`OpenRecommendationPR` once per workload in name order, then the API server; the
API server's watch calls back into the queue, also for the status that
`Reconcile` itself wrote; people and continuous delivery close the loop by
merging and syncing.

What is hard: a call is four remote operations without a transaction, each of
which may fail or lose its answer; the policy is read once at the start and used
to the end while it may be edited, suspended or deleted; errors are retried from
the beginning; a restarted or deposed process may be inside the same call;
recommendation and manifest are rounded and compared in different units. The
file `PROJECT.json` lists these hazards line by line, with the property for each.

## Modules

    Manifest            a manifest file and ApplyDeploymentPatches
      GitOps            OpenRecommendationPR against remote, forge and people
        MCGitOps          instances
        GitOpsProofs      theorems
        Reconciler        the loop, around GitOps's calls
          MCReconciler      instances
          ReconcilerProofs  a theorem about the loop by itself
          SystemProofs      the loop and GitOps together: types, GitOps's theorems, and
                            that what is published was asked for
            StatusProofs      Reconciler implements PolicyStatus
              OneViewProofs     what a status shows
      ManifestTree      the same operation on the nodes of a YAML stream
        MCManifestTree    instances
        ManifestTreeProofs  theorems, among them that it implements Manifest
    ReviewGate          what GitOps promises the owner of the manifests
    PolicyStatus        what Reconciler promises the reader of a status
    Recommend           the recommendation engine, as operators
      RecommendProofs   theorems for all samples and thresholds
      Evaluation        one container over time
        MCEvaluation      instances
        EvaluationProofs  theorems (uses RecommendProofs)

### Manifest

A manifest is a function from the containers it declares to a resource setting,
plus one bit: whether its bytes are what yaml.v3 re-encodes. The patcher decodes
and re-encodes the whole file, so for a hand-formatted file a patch that changes
no value still changes the file. Requests and limits of both dimensions are one
value: the patcher writes all four or (for a name it does not find) fails.

### ManifestTree

The patcher on the tree of YAML nodes. A document is a function from places to nodes: a
place is the sequence of keys that leads to the node, with an index for the item of a
sequence. A node has a kind, a value and an anchor. `Visited` is `walkContainers`, the
set of places it calls back for; `ByPlace` is the lookup `byName[name]` for each of them;
`EnsureChildMapping` and `SetScalar` are the functions of these names, for all of their
places at once: the containers' subtrees are disjoint, and the order in which
they are patched cannot be told from the result. Inside a container the order of the
code is kept: `resources`, then the sections, then the quantities. A child that is there
is changed whatever its kind is, and the encoder then writes only what belongs to
that kind; hence `Addable`, and hence a `null` or an alias swallows a patch. The
state is a stream that is patched again and again; a stream in which an alias has lost its
anchor does not parse (`decodeAll`).

Left out: the order of a mapping's keys, a key that is there twice (yaml.v3 decodes it
into nodes, the API server refuses it), a sequence where the API wants a mapping,
comments and styles. An alias is a leaf: what it stands for is not looked up, by the walk
(patch.go:121 has no case for it) as by `MapValue`. `IsDeployment` therefore asks for
lists that are there themselves: one that is an alias is not walked by the code either, and
its containers are reported as not found.

`PatchesAsPromised` relates it to Manifest: for a Deployment whose resources are
mappings, or absent, the resources that the API server reads afterwards are those
that `Manifest!ApplyDeploymentPatches` gives. So GitOps, which knows a manifest as a
function, stands for real manifests of that form. `StaysParsable` is about the rest
of the file: what is patched has the anchors it had, so aliases elsewhere keep
their meaning, except that a quantity which is an alias itself is renamed.

### GitOps

One manager's call is `step`, `call`, `clones`, `worktree`, `result`:

| step | code | leaves by |
|---|---|---|
| `idle` | not called | `OpenRecommendationPR`, which makes the temporary directory (gitops.go:90) or returns because it cannot |
| `prepare` | `PrepareBranch`, gitops.go:85 | `CloneFails`, `PatchFails`, `NothingToCommit`, `PrepareBranch` |
| `push` | `Push`, gitops.go:187 | `Push`, `PushUpToDate`, `PushFails`, `PushReplyLost` |
| `create` | `PullRequests.Create`, github.go:26 | `OpenPullRequest`, `CreateFails`, `CreateReplyLost` |
| `label` | `AddLabelsToIssue`, github.go:36 | `AddLabels`, `LabelFails` |
| `returned` | the caller has not looked yet | `Resume` |

`clones` is what is on disk: the directory of the call that is `"running"`, and whether
one is left of calls that have `"ended"`. Two defers clean up, PrepareBranch's own
(`Discard`, gitops.go:94, whenever it fails) and Manager's (`Cleanup`, manager.go:26, at
every later return); `PrepareFails` and `Return` say which of them a return runs.
`worktree` is the commit in the clone, which is made late in it.

`Crash` ends the process at any step: no defer runs, so the directory stays. In a
container without a volume at `/tmp` it goes with the container; with `go run`
(src/README.md:93), or with the volume that the chart's read-only root
(deployment.yaml:59) needs, it stays for good. Errors are sequences of wrapping layers, so
that comparing an error with `==` and unwrapping it are different things. People
merge, close, delete branches and commit (`PersonStep`); these, the ref update
and the forge's rules are external.

The clone is read in one step with the commit: `PrepareBranch` takes a snapshot
of the base branch at the time of the clone, and nothing outside can tell
when, between the clone and the push, the local work is done.

A merge goes by hunks, as git's does: the base branch may have changed in the same file
since the commit was made, as long as each container that the commit changes is there and
is as it was, or as the commit has it (`MergesCleanly`, `Merged`). So a merge can be
clean and still leave a row of the pull request's table unapplied: a row that agreed
with the base when the commit was made is not part of the commit, and a person may have
changed that container since. `MergeAppliesBody` says that these are the only ones, and
that nothing else changes.

Assumptions about the outside:

- nobody but kube-rightsizer pushes to `rightsizer/*` branches;
- a push without force onto an existing branch is refused, since the commit
  stands on the base branch. It would be accepted if the base branch had been
  fast-forwarded to exactly the pushed tip, which GitHub's merge button never
  does;
- GitHub refuses a second open pull request for a head, and closes the pull
  request of a deleted branch. Reopening is not modelled.

### ReviewGate

The abstract specification: every commit on the base branch is a person's edit or
an accepted proposal, accepting merges what was published into the base as it is by
then, and what is published is replaced by nobody. `GitOps!ChangesOnlyThroughReview` instantiates it
with branches as proposals and branches with an open pull request as submitted.

### PolicyStatus

The second abstract specification: specs and statuses only, no caches, queues, runs or
processes. A status write is one report on the policy as it is at that moment: the
policy exists and is active, the observed generation is the newest, every
recommendation is allowed by the newest spec, one for a container, and the pull
request named is none older than before. `Reconciler!StatusIsSerial` is this
specification, with `Active` and `Allowed` for its operator parameters.

### Reconciler

A workload is `<<namespace, name>>`, a policy selects from its own namespace, and a
branch is named by a workload's name and a generation: the code leaves the namespace
out. Each namespace has a manifest of its own (a `manifestPath` of its own; with one
for both, the file's path has no namespace either, controller.go:286).

Extends GitOps: a manager's call is now made by a run, `run[m]`, whose phases are
`evaluate` (line 116), `open` (line 149 on) and `call` (inside
`OpenRecommendationPR`). A run carries copies of what the code holds in local
variables: the policy's generation, the listed Deployments, what has been
recommended. `current` says whether its resourceVersion is still the server's.

The queue is what controller-runtime does with the three ways `Reconcile` returns:
`Result{RequeueAfter}` (`Requeued`), `Result{}` (`NotRequeued`), an error
(`RateLimited`). A policy can be queued for its own status only, which is what
separates a run that begins by timer from one that begins because the last one
ended. Ordinary events (`EditPolicy`, `DeletePolicy`, `UsageDrifts`, `Sync`) happen
between any two steps.

Abstracted: the engine is its result, a value the usage of a container calls for
and a relation `Material` (which is what Evaluation.tla is about); the selector and
the window are one bit, `valid`; a container's evaluation, two queries, is one
step, since only one value of it is used. `lastReconcileTime` has seconds, so a
second write inside one second may be no write at all: `WriteStatus` has both
outcomes. A policy that is deleted does not come back under its name.

### Recommend and Evaluation

Recommend translates engine.go in exact fractions: samples count 1/Unit, requests
1/Scale. float64 rounding is not modelled, so what holds at a boundary here is
about the algorithm and not about its last bit. Samples are a function from
observations to numbers: the code sorts its slice twice, by time (prometheus.go:108)
and then by value (engine.go:73), so no order outlives the query, and the model has
none. `Ranked` says what the k-th of the sorted numbers is by counting.

Evaluation follows one container. `Pods` are those of the namespace, `Matrix` those
whose names begin with the Deployment's name and a dash, which is what the regex asks
for: the Deployment's own and, if there is one, those of a Deployment whose name goes on
with a dash. Nothing is assumed of the difference. At each step of time every pod of the namespace
reports a point of each dimension, or none (`Scrape`). `InWindow` is the range that
`queryRange` asks for, both ends included; `Queried` are the series the pod regex
selects, `Samples` their points without the stale ones. `Evaluate`
is `evaluateContainer`: both dimensions have enough samples, the larger change
reaches the threshold, and both are proposed. The pull request is merged at any
later time, or rejected, and its requests are the next ones it is compared with.
`ReportedChange` is what the status says of the change, rounded and cast to `int32`
(here with 2^10 values).

## Runs

Every configuration is deliberately small; a bound that matters is named here.
`CHECK_DEADLOCK FALSE` is said only in Reconciler's runs: with the only policy
deleted or suspended and the bounds used up, the loop rests.

| run | question | bounds |
|---|---|---|
| `gitops_one` | one process, every fault and people: `TypeOK`, `WorktreeReclaimed`, `OkMeansProposed`, `MergeAppliesBody` | 2 branches, 1 file with 2 containers, 2 values, 2 commits on the base branch, 1 decision; the containers may disappear from the file, one that a commit leaves alone may change before the merge, the formatting may be canonical or not |
| `gitops_two` | two processes: `OkMeansProposed`, `ChangesOnlyThroughReview` | as above with 1 branch, which both want; processes are symmetric |
| `reconcile_safety` | `SystemTypeOK`, `ProposalsJustified`, `StatusIsOneView`, `NeverForgotten` | 1 process that may restart, 2 policies in 2 namespaces, 3 Deployments of which two share their name, 2 specs (with and without exclusions), 2 generations, a missing manifest, failing queries, refused creations |
| `reconcile_leaders` | `StatusIsSerial`, `MergesSkipExclusions` | 2 processes, 1 policy, 1 workload, 2 generations of 4 specs (publishing, suspended, malformed, excluding), lost answers, 1 merge or close |
| `reconcile_live` | `MaterialChangeProposed`, `SpecObserved` | 1 process, 1 workload, 2 generations of 4 specs, failing clones and queries, a person who reformats the manifest, 1 merge or close |
| `evaluation_all` | `TypeOK`, `RequestCovers`, `PatchIsAdmissible`, `ReportMatchesDecision`, `StableIsQuietAboveFive` | 2 specs (default, median, clamped and with clamps crossed; windows of two steps and of one), 3 steps of history, 2 pods of the Deployment of which one comes and goes, a pod of `web-admin`, which the regex matches, and 2 pods of other names |
| `patch_tree` | `TypeOK`, `TyposAreReported`, `AgainIsClean`, `PatchesAsPromised`, `StaysParsable` | 14 streams of one or two documents, 7 forms of a container and its resources, init containers, a list below a container, a second kind, anchors and aliases; 8 sets of patches, complete and partial, with and without a typo, in any order |

Two of each actor are enough for the races looked for, since every one is between
a run and one other: another process, a person, or the policy's next generation.
Two pods at two or three steps are enough for the percentile to interpolate, for a
sample to lie above it, and for a pod to be gone within the window.

### Disagreements the runs show

Each of these runs checks one sentence of the repository and TLC finds a
behaviour of the code that contradicts it:

- `reconcile_orphan` (`MaterialChangeProposed`, controller.go:248): the forge
  refuses the pull request once. The branch is there already, every later push of
  the generation is refused, and the change is never proposed. Closing needs an
  edit of the policy or somebody who deletes the branch. (A retry within the same
  second makes the same commit, whose push is up to date, and succeeds; the first
  back-off is short enough for that, and in the run's counterexample it does not happen.)
- `reconcile_again` (`MaterialChangeProposed`, README.md:163): usage changes
  again. The branch name has the policy's generation in it, which usage does not
  change, so the second change meets the first branch; nothing else has to fail.
- `reconcile_merged` (`ComputedReachesStatus`, types.go:150): the manifest needs
  no change (for instance between merge and sync). `ErrNoChanges` arrives wrapped and
  is compared with `==`, so the run fails and its recommendations are dropped.
- `reconcile_selftrigger` (`ReevaluatedByTimer`, controller.go:33 and 393): a run
  begins because the last one wrote its status. It goes on for as long as runs take a
  second or more: two writes within one second are the same, and no event comes of the
  second.
- `evaluation_noise` (`StableIsQuiet`, README.md:63): below half a unit the request
  rounds to 0, which differs from the unrounded recommendation by 100 % for ever.

The same models show more that has no run of its own:

- one failed clone for the second of two workloads leaves it without a pull
  request: in every later run the first workload's push is refused before its turn
  comes (controller.go:299). No run has two workloads that publish;
- a status update that meets a conflict after pull requests were opened is retried from
  the beginning, where the push is refused: no status for that generation
  (controller.go:166; `SpecObserved` is about policies that open none). The same holds
  after a restart between the two;
- a merge can be clean and leave a row of the table as a person has set it meanwhile, where
  the body says "review and merge to apply" (controller.go:314; `MergeAppliesBody` says
  which rows);
- the end of a process inside a call leaves its clone on disk, where manager.go:19 says
  that it is always cleaned up (`WorktreeReclaimed` says that nothing else does);
- under the chart as it is there is nowhere to make the clone: the root file system is
  read-only (deployment.yaml:59) and no volume is mounted, so every call fails at
  gitops.go:90 and nothing is ever proposed;
- a pull request whose labels could not be added is not recorded in
  `lastPullRequestURL` (github.go:37 returns no pull request);
- `Ready` is only ever written as True (controller.go:348), so it outlives the
  runs that no longer succeed;
- a change of exactly the threshold is proposed (controller.go:228), where the
  README and the comment at line 174 say "more than";
- a `maxRequest` under `minRequest` wins (engine.go:123), where types.go:32 says the
  recommendation is never lowered below the floor;
- Deployments of one name in two namespaces, under policies at the same generation,
  have one branch name (controller.go:287): the second is refused, in every later run
  too, and never proposed (`MaterialChangeProposed` of an instance with two namespaces
  is violated although nothing fails). What is under
  review stays what one of the two asked for (`ProposalsJustified`), and no status
  names the other's pull request (`StatusIsOneView`);
- an exclusion does not withdraw a pull request that is open: one of an earlier generation
  can still be merged and changes the container that is now excluded
  (controller.go:287; `MergesSkipExclusions` is about the generation in the branch's name);
- `resources: null` or an alias in its place swallows a patch without an error
  (patch.go:182), where patch.go:46 says a patch can never silently no-op, and a
  quantity that is an alias becomes an alias of nothing (patch.go:203), after
  which the file does not parse;
- any `containers` list of any document is patched (patch.go:130), also a Job's in the same
  file, where patch.go:115 says those under `spec.template.spec`;
- the pod regex `^web-.*` (prometheus.go:45) also matches the pods of a Deployment
  `web-admin` with a container of the same name. Their points count as `web`'s:
  `RequestCovers` holds of all that the regex matches, and of `web`'s own pods only as far
  as their share of these; a small `web` beside a large, idle `web-admin` gets a request
  that its own pods pass most of the time;
- with several pods there are several samples at each step (prometheus.go:96), where
  client.go:31 says one, so `minSamples` is reached sooner with more replicas;
- a negative window is accepted (window.go:25), and asks for a range that ends before
  it starts;
- `changePercent` wraps when the change does not fit an `int32` (controller.go:225),
  as from a memory request of one byte, which `512m` is rounded to;
- `spec.namespaceSelector` (types.go:76) is never read: a policy selects from its own
  namespace only (controller.go:322).

### Why the faults differ from run to run

`MaterialChangeProposed` holds when what may fail is a clone or a query
(`reconcile_live`): these leave nothing behind. It fails as soon as creation may fail
(`reconcile_orphan`) or usage may change again (`reconcile_again`). So the
pair says where the boundary is: the loop recovers from every failure before its
first push and from none after it.

`reconcile_safety` has no labels, merges or lost answers: what these do to a call is
`gitops_one`'s question; what a merge means for the policy, and a status write whose
answer is lost, are `reconcile_leaders`'s.

## Fairness

`Reconciler!FairSystemSpec` has weak fairness of a call's own steps: a remote operation
that is under way ends, with success or with an error. The code has no deadlines of its
own, so this is an assumption about the network: with one that hangs for ever,
nothing holds. It has weak fairness of the loop (the process is
running), of the watch (`Deliver`) and of the timers, and strong fairness in
two places. `ReconcileStart` for each policy: the queue is first in, first out, so
a policy that is queued again and again gets its turn. `EvaluateContainer` and
`PrepareBranch` for each policy: a query or a clone that is made again and again
does not fail every time, which needs a place for the clone: under the shipped chart, with
its read-only root and no volume at `/tmp`, it is not met, and `MaterialChangeProposed` says
nothing of that deployment. Nothing is assumed of people, of drifting usage, or of
restarts.

## What is proved

`GitOpsProofs.tla` proves for any sets of processes, branches, files, containers,
values and faults, from the assumptions named in `GitOps.tla` (null values are
distinct from the values they stand beside; initial trees, edits and arguments
have their types; faults are among those listed):

| theorem | statement |
|---|---|
| `TypeCorrect` | `Spec => []TypeOK` |
| `WorktreesAreReclaimed` | `Spec => []WorktreeReclaimed` |
| `SuccessIsProposed` | `Spec => []OkMeansProposed` |
| `ImplementsReviewGate` | `Spec => ChangesOnlyThroughReview`, the refinement |
| `MergesApplyBodies` | `Spec => MergeAppliesBody`, where there is at most one process or nobody deletes branches |

The argument. `OkMeansProposed` is not inductive: to know at the last step that the
pull request has the call's table, one must know in the label step that the number
the call holds is its own pull request (`LabelsItsOwn`), which in turn needs that pull
requests are only appended and never rewritten. `IndInv` conjoins the
type invariant (split into the remote's and the managers' part), `WorktreeReclaimed`,
`CommitHeld` (there is a commit exactly from the end of PrepareBranch to the return),
`OnePullPerBranch` (which the forge sees to), `LabelsItsOwn` and `OkMeansProposed`; it is
preserved action by action. `WorktreeReclaimed` rests on each return running the right one
of the two clean-ups; it holds with any faults, and a directory of an ended call is excluded
only where no process ends. `ImplementsReviewGate` maps each action to one of the gate's or to a
stutter: only `Push` and `PushReplyLost` publish, which is where it matters that a
push is not forced; `MergePull` accepts, and needs `OnePullPerBranch` to know that
no other pull request keeps the branch submitted.

`MergesApplyBodies` needs a further invariant, `BodyInv`: the branch of an open
pull request holds a commit that does what that pull request's body says, and so does the
branch that a manager is about to propose (`Matches`). The base branch may be anything by
the time of the merge: what the commit changes is the part of the body that differed from
its own base (`ChangesPatched`), and a clean merge applies just that (`MergedIsTree`,
`MergeKeepsTheRest`). With two processes this is
false: a person deletes the branch between one process's push and its creation of the
pull request, the other pushes its own commit under the name, and the body then
describes the wrong commit. Hence the hypothesis `Undisturbed`: any two managers are the
same one, or nobody deletes branches. In the second case a branch keeps its commit
(no push is forced), and two processes that both get past their push have made the same
commit (`PushUpToDate`), which does what either's table says. `gitops_one` checks the
first case; the second is an instance of `MCGitOps_two.cfg` with `MayDelete = FALSE`.

`ReconcilerProofs.tla` proves one theorem of the whole system, for any sets of
processes, policies, workloads, specs and faults and any bound on edits:

| theorem | statement |
|---|---|
| `LoopForgetsNothing` | `SystemSpec => []NeverForgotten` |

The argument. The one place where the loop drops a policy for good is a run that
finds it gone or suspended, and it finds that in a cached copy. `FreshIsLatest` says
that a copy marked fresh is the newest generation, so either the newest spec
really is suspended, or the copy is not fresh and the watch is about to queue the
policy. Every other return puts the policy back (`RunEnds`), steps within a run and
inside GitOps keep it under way (`RunsGoOn`), and a restart queues all there are.
The proof uses nothing of GitOps's state, so it holds whatever a call does.

`SystemProofs.tla` and the two modules on top of it are about the whole system, for
any sets of processes, policies, workloads, containers, specs, values and faults and
any assignment of policies to namespaces, from the assumptions named in `GitOps.tla`
and `Reconciler.tla` (specs and initial values have their types, names are numbers,
branches are names and generations, and `Calls`, which GitOps leaves open, are all the
calls a run can make):

| theorem | statement |
|---|---|
| `SystemTypeCorrect` | `SystemSpec => []SystemTypeOK` |
| `SystemImplementsGitOps` | `SystemSpec => Spec`, GitOps's specification |
| `SystemChangesOnlyThroughReview` | `SystemSpec => ChangesOnlyThroughReview` |
| `OnlyAskedForIsPublished` | `SystemSpec => []ProposalsJustified` |
| `MergesRespectExclusions` | `SystemSpec => MergesSkipExclusions` |
| `SystemMergesApplyBodies` | `SystemSpec => MergeAppliesBody`, where there is at most one process or nobody deletes branches |
| `ImplementsPolicyStatus` | `SystemSpec => StatusIsSerial`, the refinement |
| `StatusShowsOneView` | `SystemSpec => []StatusIsOneView`, if nobody deletes branches |

The argument. `SystemInv` conjoins GitOps's `IndInv`, the loop's invariant, the types of
the cluster, and for each process that its run is empty or in order (`RunOK`: it
works from a generation its policy has, holds only what that generation's spec allows,
one recommendation for a container, and pending workloads have a change) and that its
call is one for a workload of that run (`CallOK`). The link between the two modules is
`StepsAreGitOps`: every step of the system is one of GitOps or leaves its variables
alone, which needs that a run calls only when no call is under way, and that the call it
makes is one in `Calls`. For that `Turn` must be a pending workload: a nonempty set of
names has a least one, by the well-founded order of the numbers that stand for them.
So all that is proved of GitOps holds of the system.

`OnlyAskedForIsPublished`: the commit in a worktree is what its call asks for
(`CommitOK`), the call is for a workload and a generation of its run (`CallOK`), and specs
are only appended, so what a policy asked for with a generation it asks for ever
after (`AskedForGood`), though it may have a newer one by the time of the push.

`MergesRespectExclusions` takes this to the end: only a person's merge makes an open pull
request a merged one (`PeopleMerge`), and git changes in the base only the containers that
the commit changes, whatever else has moved in the file; these were asked for. Deletions and second processes do not matter, since the property is about the
branch as it is when it is merged and not about the table in the body.

`ImplementsPolicyStatus`: a run whose copy is `current` works from the newest
generation, and has no number of a pull request older than the one the status names
(`RunIsNew`). Every write to a policy makes all copies old, and a run with an old copy is
refused; so what is proved of current runs is all that a write needs. With two
processes an old run can hold an older number than the status, which is why `RunIsNew` is
said only of the current ones.

`StatusShowsOneView` follows the number of a pull request: when a call succeeds, its
branch has a commit to its own file (`OwnsOK`; a push to a branch of that name with
another namespace's commit is refused, and no push is forced), the run takes the number
(`RunView`), and the status takes it from the run or keeps it (`StatusView`). On
the way neither head nor body nor branch changes (`FitsStays`). With branches deleted this
is false: the name can be taken by the namesake in another namespace, hence the
hypothesis `~MayDelete`.

`RecommendProofs.tla` and `EvaluationProofs.tla` prove for any finite sets of pods and
dimensions, any points, specs, windows, units and lengths of history:

| theorem | statement |
|---|---|
| `PercentileSplits` | of any samples, no more are above the percentile than p leaves out, no more below than p |
| `RoundedIsAdmissible` | rounding request and limit keeps floor, ceiling and their order |
| `EvaluationTypeCorrect` | `Spec => []TypeOK` |
| `OpenPatchIsAdmissible` | `Spec => []PatchIsAdmissible` |
| `RequestsCoverUsage` | `Spec => []RequestCovers` |
| `StableIsLeftAlone` | `Spec => []StableIsQuietAboveFive` |
| `ReportsMatchDecisions` | `Spec => []ReportMatchesDecision` |

The argument. That the k-th smallest sample exists (`RankExists`) is the least number
with at least k samples up to it; were k samples below it, the largest of them would be a
smaller one. Ranks are sorted, so the interpolation lies between its neighbours
(`PercentileBetween`), and counting the samples on either side gives the split. Rounding
is monotone and exact for whole numbers (`RoundAtLeast`, `RoundAtMost`), which is why
it keeps clamps, why the rounded change is on the same side of the threshold as the
exact one, and why a request over five units that was rounded is less than ten
percent away. A point that passes the rounded request by half a unit or more passes the exact
one (`PassesRounded`), so the split carries over to the request that is proposed. TLC checks the same invariants on an instance that includes what the
hypotheses leave out of the theorems.

`ManifestTreeProofs.tla` proves for any streams of documents and any sets of patches:

| theorem | statement |
|---|---|
| `TreesStayTrees` | `Spec => []TypeOK` |
| `AgainNothingChanges` | `Spec => []AgainIsClean` |
| `TyposAreFound` | `Spec => []TyposAreReported` |
| `PatchedStreamsParse` | `Spec => StaysParsable` |
| `ImplementsManifest` | `Spec => PatchesAsPromised`, the refinement |

The assumptions are that streams consist of documents, that patches have their type, and
that `Texts` contains the keys the patcher writes (the provers do not know that a
literal is in `STRING`, which TLC's instance takes for `Texts`).

The argument. A place under a container determines the container: `Append` and `Front`
are inverse (`AppendFront`), so of a place that the patch writes one can say which
container, section and dimension it is for (`QuantitiesAre`), and `PatchedHas` gives the
node at each place of the result by cases: what was there, a new mapping, or a new
scalar. All else reads that off. `DocumentStays`: what is added is below a mapping,
and no node changes its kind. `VisitedStay`: what is added is no sequence, and none of
its keys is a list's or `name`, so the second walk visits what the first one did, and
`ByPlace` is the same (`ByPlaceIsPatch`). `PatchIsIdempotent`: the second time
nothing is addable that the first time did not add, since the kinds above it stayed, and
the values are there. `PatchedStreamsParse`: no anchor is changed and a value is
changed only at a scalar, or at an alias that the hypothesis excludes.
`ImplementsManifest`: on a plain Deployment the walk visits the pod template's containers
and no others (`VisitedInDeployment`), a quantity is written exactly where the patch has one
(`WrittenAre`), and its place is addable once the mappings above it are there; so the
API server reads what the patch has, or what it read before (`QuantityPatched`,
`ResourcesPatched`).

Every invariant and every action property that a passing run checks is a theorem. Only
model-checked: liveness (`MaterialChangeProposed`, `SpecObserved`), which is
out of TLAPS's reach under fairness. Some theorems have a hypothesis that their run
does not state, since the instance satisfies it: `MergesApplyBodies` (one process, or nobody deletes branches) and
`StatusShowsOneView` (nobody deletes branches); `SystemMergesApplyBodies` has that of
`MergesApplyBodies`. What happens without it is said above.

## Not modelled

- the exact bytes of a patched manifest: comments, styles and indentation;
- PromQL, which is external, and float64: samples and quantities are exact fractions;
- fractions of a window and the overflow of its duration; the limits beyond which
  Prometheus refuses a range are a query that fails;
- selection by label: a run takes the containers it finds in the namespace;
- two policies of one namespace that publish for the same workload, as a run: their calls
  are those of `gitops_one` and `gitops_two` on one branch;
- the leader lease: two processes may always be active, which includes leader
  election off and a deposed leader;
- test doubles, generated code, dashboard, RBAC: no behaviour of their own; the chart, but
  for the directory it leaves no place for (the fault `mkdir` of GitOps);
- logging, titles, commit messages and the layout of the pull request's table.

## Plan

Done: Manifest, ManifestTree, GitOps and Reconciler with their abstract
specifications, Recommend with Evaluation; proofs of every safety property that
Reconciler, GitOps and Evaluation check.

1. Two workloads of one policy that publish in one run, two policies of one namespace,
   and manifests shared between namespaces. The safety theorems cover the first two
   already; liveness would be new.
2. Durations with their width, as a module of its own.
