--------------------------- MODULE OneViewProofs ----------------------------
(***************************************************************************)
(* A status is one run's view, and names a pull request of its own, while  *)
(* nobody deletes branches: for any number of processes, policies and      *)
(* namespaces, also when two namespaces have a Deployment of one name, and *)
(* so two policies want the same branch.                                   *)
(*                                                                         *)
(* The argument follows a pull request's number from the call that created *)
(* it, whose branch has that call's commit (Owns), to the run, and from    *)
(* the run to the status: neither its head nor its body nor its branch     *)
(* changes on the way (FitsStays).                                         *)
(***************************************************************************)
EXTENDS StatusProofs

-----------------------------------------------------------------------------
(* Branches and calls.                                                     *)

\* A branch that nobody deletes keeps its commit: no push is forced.
LEMMA TipsStay ==
  ASSUME ~MayDelete, IndInv, [Next]_vars, NEW b \in Branches, branches[b] # NoCommit
  PROVE  branches'[b] = branches[b]
  <1> USE DEF IndInv, RemoteOK
  <1>1. ASSUME NEW m \in Managers, Push(m) \/ PushReplyLost(m)
        PROVE  branches'[b] = branches[b]
        BY <1>1 DEF Push, PushReplyLost, PushCreatesRef, UpdateRef
  <1>2. CASE UNCHANGED branches
        BY <1>2
  <1> QED
        BY <1>1, <1>2
           DEF Next, Begin, CallStep, PersonStep, OpenRecommendationPR, CloneFails,
           PatchFails, NothingToCommit, PrepareBranch, PushUpToDate, PushFails,
           OpenPullRequest, CreateFails, CreateReplyLost, AddLabels, LabelFails, Resume,
           Crash, Forget, MergePull, ClosePull, CommitToMain, DeleteBranch, remoteVars, vars

\* The branch of a call holds a commit to its file.
Owns(m) ==
    /\ branches[call[m].branch] # NoCommit
    /\ branches[call[m].branch].file = call[m].file

\* From the push to the good end of a call that is so.
OwnsOK(m) ==
    \/ step[m] \in {"create", "label"}
    \/ step[m] = "returned" /\ result[m].err = nil
    => Owns(m)

LEMMA OwnsStep ==
  ASSUME ~MayDelete, IndInv, [Next]_vars, NEW m \in Managers, CommitOK(m), OwnsOK(m)
  PROVE  OwnsOK(m)'
  <1> USE DEF IndInv, ManagersOK, RemoteOK
  <1>1. ASSUME Owns(m), step[m] # "idle", call'[m] = call[m] PROVE Owns(m)'
    <2>1. call[m].branch \in Branches
          BY <1>1, UnderWay
    <2>2. branches'[call[m].branch] = branches[call[m].branch]
          BY <1>1, <2>1, TipsStay DEF Owns
    <2> QED  BY <1>1, <2>2 DEF Owns
  <1>2. ASSUME step'[m] \in {"idle", "prepare", "push"} PROVE OwnsOK(m)'
        BY <1>2 DEF OwnsOK
  <1>3. ASSUME NEW err, err # nil, NEW number, Ends(m, err, number) PROVE OwnsOK(m)'
    <2>1. step'[m] = "returned" /\ result'[m].err = err
          BY <1>3 DEF Ends
    <2> QED  BY <1>3, <2>1 DEF OwnsOK
  <1>4. ASSUME step'[m] = step[m], result'[m] = result[m], call'[m] = call[m]
        PROVE  OwnsOK(m)'
        BY <1>1, <1>4 DEF OwnsOK
  <1>5. ASSUME Push(m) \/ PushUpToDate(m) PROVE OwnsOK(m)'
    <2>1. step[m] = "push" /\ call'[m] = call[m]
          BY <1>5 DEF Push, PushUpToDate, Proceed
    <2>2. worktree[m] # NoCommit /\ call[m].branch \in Branches
          BY <2>1, UnderWay DEF CommitHeld
    <2>3. branches'[call[m].branch] = worktree[m]
          BY <1>5, <2>2 DEF Push, PushUpToDate, UpdateRef, remoteVars
    <2> QED  BY <2>1, <2>2, <2>3 DEF CommitOK, OwnsOK, Owns
  <1>6. ASSUME OpenPullRequest(m) \/ AddLabels(m) PROVE OwnsOK(m)'
    <2>1. step[m] \in {"create", "label"} /\ call'[m] = call[m]
          BY <1>6 DEF OpenPullRequest, AddLabels, Return, Ends
    <2> QED  BY <1>1, <2>1 DEF OwnsOK
  <1>7. ASSUME PrepareBranch(m) \/ Resume(m) \/ Crash(m)
        PROVE  step'[m] \in {"idle", "push"}
        BY <1>7 DEF PrepareBranch, Resume, Crash, Forget
  <1>8. ASSUME NEW c \in Calls, OpenRecommendationPR(m, c) PROVE OwnsOK(m)'
    <2> DEFINE err == Wrapped("preparing branch", <<"temporary directory">>)
    <2>1. err # nil
          BY WrappedIsNotNil
    <2>2. \/ step' = [step EXCEPT ![m] = "prepare"]
          \/ /\ step' = [step EXCEPT ![m] = "returned"]
             /\ result' = [result EXCEPT ![m] = [err |-> err, number |-> 0]]
          BY <1>8 DEF OpenRecommendationPR
    <2> HIDE DEF err
    <2>3. step'[m] = "prepare" \/ (step'[m] = "returned" /\ result'[m].err # nil)
          BY <2>1, <2>2
    <2> QED  BY <2>3 DEF OwnsOK, nil
  <1>9. ASSUME \/ CloneFails(m) \/ PatchFails(m) \/ NothingToCommit(m) \/ PushFails(m)
               \/ PushReplyLost(m) \/ CreateFails(m) \/ CreateReplyLost(m) \/ LabelFails(m)
        PROVE  OwnsOK(m)'
        BY <1>3, <1>9, WrappedIsNotNil DEF CloneFails, PatchFails, NothingToCommit,
           PushFails, PushReplyLost, CreateFails, CreateReplyLost, LabelFails, PrepareFails,
           Return
  <1>10. ASSUME NEW n \in Managers, n # m,
                \/ Begin(n) \/ CallStep(n) \/ Resume(n) \/ Crash(n)
         PROVE  step'[m] = step[m] /\ result'[m] = result[m] /\ call'[m] = call[m]
        BY <1>10 DEF Begin, OpenRecommendationPR, CallStep, CloneFails, PatchFails,
           NothingToCommit, PrepareBranch, Push, PushUpToDate, PushFails, PushReplyLost,
           OpenPullRequest, CreateFails, CreateReplyLost, AddLabels, LabelFails,
           PrepareFails, Return, Ends, Proceed, Resume, Crash, Forget
  <1>11. ASSUME PersonStep \/ UNCHANGED vars
         PROVE  step'[m] = step[m] /\ result'[m] = result[m] /\ call'[m] = call[m]
        BY <1>11 DEF PersonStep, MergePull, ClosePull, DeleteBranch, CommitToMain,
           managerVars, vars
  <1> QED  BY <1>2, <1>4, <1>5, <1>6, <1>7, <1>8, <1>9, <1>10, <1>11
              DEF Next, Begin, CallStep

-----------------------------------------------------------------------------
(* Pull requests.                                                          *)

\* The n-th pull request is one that the policy may have asked for.
Fits(p, n, ps, bs, ss) ==
    LET head == ps[n].head IN
    /\ n \in DOMAIN ps
    /\ bs[head] # NoCommit
    /\ bs[head].file[1] = Namespace[p]
    /\ head[2] \in 1..Len(ss[p])
    /\ \A c \in DOMAIN ps[n].body : ~Forbids(ss[p][head[2]], head[1], c)

LEMMA FitsStays ==
  ASSUME ~MayDelete, IndInv, [Next]_vars, SpecsGrow, ClusterOK, ClusterOK',
         NEW p \in Policies, NEW n, Fits(p, n, pulls, branches, specs)
  PROVE  /\ Fits(p, n, pulls', branches', specs')
         /\ pulls'[n].head = pulls[n].head
  <1> DEFINE head == pulls[n].head
  <1>1. /\ n \in DOMAIN pulls'
        /\ pulls'[n].head = head /\ pulls'[n].body = pulls[n].body
        BY PullsOnlyGrow DEF vars, Fits
  <1>2. head \in Branches
        BY PullTypes DEF IndInv, Fits
  <1>3. branches'[head] = branches[head]
        BY <1>2, TipsStay DEF Fits
  <1>4. /\ Len(specs[p]) \in Nat /\ Len(specs'[p]) \in Nat /\ Len(specs'[p]) >= Len(specs[p])
        /\ \A g \in 1..Len(specs[p]) : specs'[p][g] = specs[p][g]
        BY GenerationsAssumption DEF ClusterOK, Generation, Generations, SpecsGrow
  <1>5. head[2] \in 1..Len(specs[p])
        BY DEF Fits
  <1> HIDE DEF head
  <1>6. head[2] \in 1..Len(specs'[p]) /\ specs'[p][head[2]] = specs[p][head[2]]
        BY <1>4, <1>5
  <1>7. /\ branches[head] # NoCommit
        /\ branches[head].file[1] = Namespace[p]
        /\ \A c \in DOMAIN pulls[n].body : ~Forbids(specs[p][head[2]], head[1], c)
        BY DEF Fits, head
  <1> QED  BY <1>1, <1>3, <1>6, <1>7 DEF Fits, head

\* The pull request of a call that succeeded fits its run's policy.
LEMMA OwnPullFits ==
  ASSUME SystemInv, NEW m \in Managers, OwnsOK(m),
         step[m] = "returned", result[m].err = nil
  PROVE  /\ Fits(run[m].policy, result[m].number, pulls, branches, specs)
         /\ pulls[result[m].number].head[2] = run[m].generation
  <1> DEFINE r == run[m]
             c == call[m]
  <1>1. /\ RunOK(r)
        /\ c.branch = <<c.file[2], r.generation>>
        /\ \A k \in DOMAIN c.patch : MayTouch(r.policy, SpecOf(r), <<c.file, k>>)
        BY DEF SystemInv, ProcessOK, CallOK, Idle
  <1>2. /\ result[m].number \in DOMAIN pulls
        /\ pulls[result[m].number].head = c.branch /\ pulls[result[m].number].body = c.patch
        BY DEF SystemInv, IndInv, OkMeansProposed
  <1>3. branches[c.branch] # NoCommit /\ branches[c.branch].file = c.file
        BY DEF OwnsOK, Owns
  <1>4. DOMAIN c.patch # {}
        BY UnderWay DEF SystemInv, Patch
  <1>5. /\ r.generation \in 1..Len(specs[r.policy])
        /\ SpecOf(r) = specs[r.policy][r.generation]
        BY <1>1 DEF RunOK, Generation, SpecOf
  <1>6. c.branch[1] = c.file[2] /\ c.branch[2] = r.generation
        BY <1>1
  <1> HIDE DEF c
  <1> QED  BY <1>1, <1>2, <1>3, <1>4, <1>5, <1>6 DEF Fits, MayTouch

-----------------------------------------------------------------------------
(* Runs.                                                                   *)

\* The pull request a run has a number of is its policy's.
RunView(m) ==
    run[m] # Idle /\ run[m].url # 0 =>
        /\ Fits(run[m].policy, run[m].url, pulls, branches, specs)
        /\ pulls[run[m].url].head[2] <= run[m].generation

\* A run that goes on keeps its policy, its generation and its number, or
\* takes the number of the call that just succeeded.
GoesOn(m) ==
    /\ run[m] # Idle
    /\ run'[m].policy = run[m].policy /\ run'[m].generation = run[m].generation
    /\ \/ run'[m].url = run[m].url
       \/ step[m] = "returned" /\ result[m].err = nil /\ run'[m].url = result[m].number

LEMMA RunsMove ==
  ASSUME SystemInv, [SystemNext]_allVars, NEW n \in Managers
  PROVE  run'[n] = Idle \/ run'[n].url = 0 \/ GoesOn(n)
  <1> USE DEF SystemInv, LoopInv, LoopOK
  <1>1. run[n].phase # "idle" \/ run[n] # Idle => run[n] # Idle /\ run[n] \in Runs
        BY DEF ProcessOK, RunOK, GoodRun, Idle
  <1>2. ASSUME Kept(n) PROVE run'[n] = Idle \/ GoesOn(n)
        BY <1>1, <1>2 DEF Kept, GoesOn, Runs
  <1>3. ASSUME NEW p \in Policies, ReconcileStart(n, p) PROVE run'[n].url = 0
        BY <1>3 DEF ReconcileStart
  <1>4. ASSUME NEW pod \in Pod, EvaluateContainer(n, pod) PROVE GoesOn(n)
    <2>1. run[n] # Idle /\ run[n] \in Runs /\ n \in DOMAIN run
          BY <1>1, <1>4 DEF EvaluateContainer
    <2>2. /\ run'[n].policy = run[n].policy /\ run'[n].generation = run[n].generation
          /\ run'[n].url = run[n].url
          BY <1>4, <2>1 DEF EvaluateContainer, Runs
    <2> QED  BY <2>1, <2>2 DEF GoesOn
  <1>5. ASSUME OpenPullRequests(n) PROVE GoesOn(n)
    <2>1. run[n] # Idle /\ run[n] \in Runs /\ n \in DOMAIN run
          BY <1>1, <1>5 DEF OpenPullRequests
    <2>2. /\ run'[n].policy = run[n].policy /\ run'[n].generation = run[n].generation
          /\ run'[n].url = run[n].url
          BY <1>5, <2>1 DEF OpenPullRequests, Runs
    <2> QED  BY <2>1, <2>2 DEF GoesOn
  <1>6. ASSUME CallManager(n) PROVE GoesOn(n)
        BY <1>1, <1>6 DEF CallManager, GoesOn, Runs
  <1>7. ASSUME CallReturns(n) PROVE run'[n] = Idle \/ GoesOn(n)
    <2>1. run[n] # Idle /\ run[n] \in Runs /\ step[n] = "returned"
          BY <1>1, <1>7 DEF CallReturns, Resume
    <2>2. \/ run'[n] = Idle
          \/ run'[n] = [run[n] EXCEPT !.phase = "open", !.pending = @ \ {Turn(n)},
                           !.url = IF result[n].err = nil THEN result[n].number ELSE run[n].url]
          BY <1>7 DEF CallReturns, Fail
    <2> QED  BY <2>1, <2>2 DEF GoesOn, Runs
  <1>8. ASSUME NEW m \in Managers, LoopStep(m)
        PROVE  run'[n] = Idle \/ run'[n].url = 0 \/ GoesOn(n)
    <2>1. CASE m # n
          BY <1>2, <1>8, <2>1, OthersKept
    <2>2. CASE UpdateStatus(n) \/ UpdateReplyLost(n)
      <3>1. run'[n] = Idle
            BY <2>2 DEF UpdateStatus, UpdateReplyLost, WriteStatus, StaleRuns, Idle
      <3> QED  BY <3>1
    <2>3. CASE QueryFails(n) \/ BuildManagerFails(n) \/ UpdateConflicts(n)
          BY <2>3 DEF QueryFails, BuildManagerFails, UpdateConflicts, Fail
    <2>4. CASE \E p \in Policies : ReconcileNothing(n, p) \/ ReconcileInvalid(n, p)
          BY <1>2, <2>4 DEF ReconcileNothing, ReconcileInvalid, Kept
    <2> QED  BY <1>3, <1>4, <1>5, <1>6, <1>7, <1>8, <2>1, <2>2, <2>3, <2>4 DEF LoopStep
  <1>9. ASSUME NEW m \in Managers, Restart(m) PROVE run'[n] = Idle \/ GoesOn(n)
        BY <1>2, <1>9 DEF Restart, Kept
  <1>10. ASSUME NEW p \in Policies, DeletePolicy(p) \/ \E s \in Specs : EditPolicy(p, s)
         PROVE  Kept(n)
        BY <1>10, StaleRunsKept DEF DeletePolicy, EditPolicy, IsRun
  <1>11. CASE UNCHANGED run
        BY <1>2, <1>11 DEF Kept
  <1> QED
      BY <1>2, <1>8, <1>9, <1>10, <1>11 DEF SystemNext, GitStep, Deliver, TimerFires,
         ClusterStep, UsageDrifts, Sync, loopVars, allVars

LEMMA RunViewStep ==
  ASSUME ~MayDelete, SystemInv, SystemInv', [SystemNext]_allVars,
         NEW m \in Managers, OwnsOK(m), RunView(m)
  PROVE  RunView(m)'
  <1>1. /\ [Next]_vars /\ IndInv
        /\ SpecsGrow /\ ClusterOK /\ ClusterOK'
        BY StepsAreGitOps, ClusterStepOK DEF SystemInv
  <1>2. CASE run'[m] = Idle \/ run'[m].url = 0
        BY <1>2 DEF RunView
  <1>3. CASE GoesOn(m) /\ run'[m].url # 0
    <2>1. PICK p \in Policies : p = run[m].policy
          BY <1>3 DEF GoesOn, SystemInv, ProcessOK, RunOK
    <2>2. PICK n : n = run'[m].url
          OBVIOUS
    <2>3. Fits(p, n, pulls, branches, specs) /\ pulls[n].head[2] <= run[m].generation
      <3>1. CASE n = run[m].url
            BY <1>3, <2>1, <2>2, <3>1 DEF RunView, GoesOn
      <3>2. CASE step[m] = "returned" /\ result[m].err = nil /\ n = result[m].number
        <4>1. run[m].generation \in Nat
              BY <1>3, GenerationsAssumption DEF GoesOn, SystemInv, ProcessOK, RunOK,
                 ClusterOK, Generations
        <4>2. /\ Fits(p, n, pulls, branches, specs)
              /\ pulls[n].head[2] = run[m].generation
              BY <2>1, <3>2, OwnPullFits
        <4> QED  BY <4>1, <4>2
      <3> QED  BY <1>3, <2>2, <3>1, <3>2 DEF GoesOn
    <2>4. Fits(p, n, pulls', branches', specs') /\ pulls'[n].head = pulls[n].head
          BY <1>1, <2>3, FitsStays
    <2> QED  BY <1>3, <2>1, <2>2, <2>3, <2>4 DEF RunView, GoesOn
  <1> QED  BY <1>2, <1>3, RunsMove

-----------------------------------------------------------------------------
(* Statuses.                                                               *)

\* The recommendations are what a spec to be reconciled allows.
ViewOf(p, spec, recs) ==
    /\ Active(spec)
    /\ \A rec \in recs : Allowed(p, spec, rec)
    /\ Serial!OfOneContainer(recs)

\* The pull request a status names is its policy's, of an observed generation.
NamesOwnPull(p) ==
    status[p].url # 0 =>
        /\ Fits(p, status[p].url, pulls, branches, specs)
        /\ pulls[status[p].url].head[2] <= status[p].observed

StatusView(p) ==
    /\ status[p].observed = 0 => status[p].url = 0
    /\ status[p].observed # 0 =>
          /\ status[p].observed \in 1..Len(specs[p])
          /\ ViewOf(p, specs[p][status[p].observed], status[p].recommendations)
          /\ NamesOwnPull(p)

\* A status that nobody writes stays true.
LEMMA StatusViewStays ==
  ASSUME ~MayDelete, IndInv, [Next]_vars, SpecsGrow, ClusterOK, ClusterOK',
         NEW p \in Policies, StatusView(p), status'[p] = status[p]
  PROVE  StatusView(p)'
  <1>1. PICK g, n : g = status[p].observed /\ n = status[p].url
        OBVIOUS
  <1>2. CASE g = 0
        BY <1>1, <1>2 DEF StatusView
  <1>3. CASE g # 0
    <2>1. /\ Len(specs[p]) \in Nat /\ Len(specs'[p]) \in Nat /\ Len(specs'[p]) >= Len(specs[p])
          /\ \A k \in 1..Len(specs[p]) : specs'[p][k] = specs[p][k]
          BY GenerationsAssumption DEF ClusterOK, Generation, Generations, SpecsGrow
    <2>2. g \in 1..Len(specs'[p]) /\ ViewOf(p, specs'[p][g], status[p].recommendations)
          BY <1>1, <1>3, <2>1 DEF StatusView
    <2>3. ASSUME n # 0
          PROVE  /\ Fits(p, n, pulls', branches', specs')
                 /\ pulls'[n].head[2] <= g
          BY <1>1, <1>3, <2>3, FitsStays DEF StatusView, NamesOwnPull
    <2> QED  BY <1>1, <1>3, <2>2, <2>3 DEF StatusView, NamesOwnPull
  <1> QED  BY <1>2, <1>3

\* A write takes over what its run saw.
LEMMA WriteView ==
  ASSUME SystemInv, StatusInv, NEW m \in Managers, RunView(m),
         NEW p \in Policies, p = run[m].policy, StatusView(p),
         Updating(m), Accepts(m), WriteStatus(m), UNCHANGED <<vars, specs, deleted>>
  PROVE  status' # status => StatusView(p)'
  <1> SUFFICES ASSUME status' # status PROVE StatusView(p)'
      OBVIOUS
  <1>1. /\ RunOK(run[m]) /\ run[m] # Idle /\ run[m].current /\ run[m].policy \notin deleted
        BY DEF Idle, SystemInv, ProcessOK, Updating, Accepts
  <1>2. p = run[m].policy
        OBVIOUS
  <1>3. PICK g, n : g = run[m].generation /\ n = run[m].url
        OBVIOUS
  <1>4. g = Len(specs[p]) /\ g \in 1..Len(specs[p])
        BY <1>1, <1>2, <1>3 DEF StatusInv, StatusOK, RunIsNew, RunOK, Generation
  <1>5. status' = [status EXCEPT ![p] = NewStatus(run[m])]
        BY <1>2 DEF WriteStatus
  <1>6. /\ status'[p].observed = g
        /\ status'[p].recommendations = run[m].recommendations
        /\ status'[p].url = IF n # 0 THEN n ELSE status[p].url
        BY <1>2, <1>3, <1>5 DEF NewStatus, SystemInv, ClusterOK
  <1>7. Serial!Report(p)
        BY <1>2, WriteIsReport
  <1>8. ViewOf(p, specs[p][g], status'[p].recommendations)
        BY <1>4, <1>7 DEF Serial!Report, Serial!Newest, ViewOf
  <1>9. ASSUME NEW k, k = status'[p].url, k # 0
        PROVE  Fits(p, k, pulls, branches, specs) /\ pulls[k].head[2] <= g
    <2>1. CASE n # 0
          BY <1>1, <1>2, <1>3, <1>6, <1>9, <2>1 DEF RunView
    <2>2. CASE n = 0
      <3>1. k = status[p].url /\ status[p].observed # 0
            BY <1>2, <1>6, <1>9, <2>2 DEF StatusView
      <3>2. Fits(p, k, pulls, branches, specs)
            BY <1>2, <1>9, <3>1 DEF StatusView, NamesOwnPull
      <3>3. pulls[k].head[2] <= g
            BY <1>4, <3>2 DEF Fits
      <3> QED  BY <3>2, <3>3
    <2> QED  BY <2>1, <2>2
  <1>10. g # 0
         BY <1>4
  <1>11. NamesOwnPull(p)'
         BY <1>6, <1>9 DEF NamesOwnPull, vars, remoteVars
  <1> QED  BY <1>4, <1>6, <1>8, <1>10, <1>11 DEF StatusView

LEMMA StatusViewStep ==
  ASSUME ~MayDelete, SystemInv, SystemInv', StatusInv, [SystemNext]_allVars,
         \A m \in Managers : RunView(m), NEW p \in Policies, StatusView(p)
  PROVE  StatusView(p)'
  <1>1. /\ [Next]_vars /\ IndInv
        /\ SpecsGrow /\ ClusterOK /\ ClusterOK'
        BY StepsAreGitOps, ClusterStepOK DEF SystemInv
  <1>2. CASE status'[p] = status[p]
        BY <1>1, <1>2, StatusViewStays
  <1>3. CASE UNCHANGED status
        BY <1>2, <1>3
  <1>4. ASSUME NEW m \in Managers, UpdateStatus(m) \/ UpdateReplyLost(m)
        PROVE  StatusView(p)'
    <2>1. /\ Updating(m) /\ Accepts(m) /\ WriteStatus(m)
          /\ UNCHANGED <<vars, specs, deleted>>
          BY <1>4 DEF UpdateStatus, UpdateReplyLost
    <2>2. CASE p # run[m].policy
          BY <1>2, <2>1, <2>2, WriteIsReport
    <2>3. CASE p = run[m].policy
          BY <1>3, <2>1, <2>3, WriteView
    <2> QED  BY <2>2, <2>3
  <1> QED  BY <1>3, <1>4, StatusWriters DEF EditPolicy, DeletePolicy

-----------------------------------------------------------------------------
ViewInv ==
    /\ \A m \in Managers : CommitOK(m) /\ OwnsOK(m) /\ RunView(m)
    /\ \A p \in Policies : StatusView(p)

LEMMA InitViewInv == SystemInit => ViewInv
  <1> SUFFICES ASSUME SystemInit PROVE ViewInv
      OBVIOUS
  <1>1. \A m \in Managers : CommitOK(m) /\ OwnsOK(m) /\ RunView(m)
        BY DEF SystemInit, Init, CommitOK, OwnsOK, RunView
  <1>2. \A p \in Policies : StatusView(p)
        BY DEF SystemInit, NoStatus, StatusView
  <1> QED  BY <1>1, <1>2 DEF ViewInv

LEMMA NextViewInv ==
  ASSUME ~MayDelete, SystemInv, SystemInv', StatusInv, ViewInv, [SystemNext]_allVars
  PROVE  ViewInv'
  <1> USE DEF ViewInv
  <1>1. [Next]_vars /\ IndInv
        BY StepsAreGitOps DEF SystemInv
  <1>2. \A m \in Managers : CommitOK(m)'
        BY <1>1, CommitStep
  <1>3. \A m \in Managers : OwnsOK(m)'
        BY <1>1, OwnsStep
  <1>4. \A m \in Managers : RunView(m)'
        BY RunViewStep
  <1>5. \A p \in Policies : StatusView(p)'
        BY StatusViewStep
  <1> QED  BY <1>2, <1>3, <1>4, <1>5

LEMMA ViewInvIsOneView == ViewInv => StatusIsOneView
  BY DEF ViewInv, StatusView, NamesOwnPull, ViewOf, Serial!OfOneContainer, Fits,
     StatusIsOneView

\* The status of a policy is one run's view of it, and the pull request it
\* names is one the policy may have asked for (resourcepolicy_controller.go:166
\* keeps the earlier URL when a run opened nothing), for any number of
\* processes, policies and namespaces, unless somebody deletes branches.
THEOREM StatusShowsOneView ==
  ASSUME ~MayDelete
  PROVE  SystemSpec => []StatusIsOneView
  <1>1. SystemInv /\ SystemInv' /\ StatusInv /\ ViewInv /\ [SystemNext]_allVars => ViewInv'
        BY NextViewInv
  <1> QED
      BY <1>1, InitViewInv, ViewInvIsOneView, SystemInvariance, StatusInvariance, PTL
         DEF SystemSpec

=============================================================================
