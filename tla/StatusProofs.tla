---------------------------- MODULE StatusProofs ----------------------------
(***************************************************************************)
(* The status, for any number of processes and policies: the loop          *)
(* implements PolicyStatus.                                                *)
(*                                                                         *)
(* The invariant behind it: a run whose copy is still the server's works   *)
(* from the newest generation, and every pull request it has a number of   *)
(* is later than the one the status names.  A run whose copy is old can    *)
(* have a number that is earlier, but its write is refused.                *)
(***************************************************************************)
EXTENDS SystemProofs

\* No call holds a number before it has created a pull request.
NumberOK(m) ==
    step[m] \in {"idle", "prepare", "push", "create"} => result[m].number = 0

\* What a run with a current copy holds is not older than the status.
RunIsNew(m) ==
    /\ run[m].policy \notin deleted => run[m].generation = Len(specs[run[m].policy])
    /\ \A n \in {run[m].url, result[m].number} : n = 0 \/ status[run[m].policy].url <= n

StatusOK(m) ==
    /\ NumberOK(m)
    /\ run[m] # Idle => /\ run[m].url \in {0} \cup DOMAIN pulls
                        /\ run[m].current => RunIsNew(m)

StatusInv ==
    /\ \A m \in Managers : StatusOK(m)
    /\ \A p \in Policies : status[p].url \in {0} \cup DOMAIN pulls

-----------------------------------------------------------------------------
(* Numbers.                                                                *)

\* A call has no number when it begins, nor when it fails to.
LEMMA CallBegins ==
  ASSUME IndInv, NEW m \in Managers, NEW c, OpenRecommendationPR(m, c), NumberOK(m)
  PROVE  result'[m].number = 0
  <1>1. result \in [Managers -> Outcome] /\ result[m].number = 0
        BY DEF OpenRecommendationPR, NumberOK, IndInv, ManagersOK
  <1>2. \/ result' = result
        \/ \E err : result' = [result EXCEPT ![m] = [err |-> err, number |-> 0]]
        BY DEF OpenRecommendationPR
  <1> QED  BY <1>1, <1>2

\* The number a call holds is given up, kept, or that of the pull request it
\* just created.
LEMMA NumberStep ==
  ASSUME IndInv, [Next]_vars, NEW m \in Managers, NumberOK(m)
  PROVE  /\ NumberOK(m)'
         /\ result'[m].number \in {0, result[m].number, Len(pulls) + 1}
  <1> DEFINE Moved == /\ NumberOK(m)'
                      /\ result'[m].number \in {0, result[m].number, Len(pulls) + 1}
  <1> USE DEF IndInv, ManagersOK
  <1>1. ASSUME step'[m] = step[m], result'[m] = result[m] PROVE Moved
        BY <1>1 DEF NumberOK
  <1>2. ASSUME NEW err, NEW number \in {0, result[m].number, Len(pulls) + 1},
               Ends(m, err, number)
        PROVE  Moved
        BY <1>2 DEF Ends, NumberOK
  <1>3. ASSUME NEW next \in {"create"}, Proceed(m, next), step[m] = "push" PROVE Moved
        BY <1>3 DEF Proceed, NumberOK
  <1>4. ASSUME PrepareBranch(m) PROVE Moved
        BY <1>4 DEF PrepareBranch, NumberOK
  <1>5. ASSUME OpenPullRequest(m) PROVE Moved
    <2>1. CASE call[m].labels
          BY <1>5, <2>1 DEF OpenPullRequest, NumberOK, Outcome
    <2>2. CASE ~call[m].labels
          BY <1>2, <1>5, <2>2 DEF OpenPullRequest, Return
    <2> QED  BY <2>1, <2>2
  <1>6. ASSUME NEW c \in Calls, OpenRecommendationPR(m, c) PROVE Moved
        BY <1>6, CallBegins DEF NumberOK
  <1>7. ASSUME Resume(m) \/ Crash(m) PROVE Moved
    <2>1. result'[m] = NoOutcome
          BY <1>7 DEF Resume, Crash, Forget
    <2> QED  BY <2>1 DEF NoOutcome, NumberOK
  <1>8. ASSUME NEW n \in Managers, n # m,
               \/ Begin(n) \/ CallStep(n) \/ Resume(n) \/ Crash(n)
        PROVE  step'[m] = step[m] /\ result'[m] = result[m]
        BY <1>8 DEF Begin, OpenRecommendationPR, CallStep, CloneFails, PatchFails,
           NothingToCommit, PrepareBranch, Push, PushUpToDate, PushFails, PushReplyLost,
           OpenPullRequest, CreateFails, CreateReplyLost, AddLabels, LabelFails,
           PrepareFails, Return, Ends, Proceed, Resume, Crash, Forget
  <1>9. ASSUME CallStep(m) PROVE Moved
        BY <1>2, <1>3, <1>4, <1>5, <1>9 DEF CallStep, CloneFails, PatchFails,
           NothingToCommit, Push, PushUpToDate, PushFails, PushReplyLost,
           CreateFails, CreateReplyLost, AddLabels, LabelFails, PrepareFails, Return
  <1>10. ASSUME PersonStep PROVE step'[m] = step[m] /\ result'[m] = result[m]
        BY <1>10 DEF PersonStep, MergePull, ClosePull, DeleteBranch, CommitToMain, managerVars
  <1>11. CASE UNCHANGED vars
        BY <1>1, <1>11 DEF vars
  <1> QED  BY <1>1, <1>6, <1>7, <1>8, <1>9, <1>10, <1>11 DEF Next, Begin

\* Pull requests stay, and a new one has a number of its own.
LEMMA NumbersGrow ==
  ASSUME IndInv, [Next]_vars
  PROVE  /\ DOMAIN pulls \subseteq DOMAIN pulls'
         /\ DOMAIN pulls \subseteq Nat \ {0}
         /\ \A n \in {0} \cup DOMAIN pulls : n <= Len(pulls) + 1
  <1>1. DOMAIN pulls \subseteq DOMAIN pulls'
        BY PullsOnlyGrow DEF vars
  <1>2. DOMAIN pulls = 1..Len(pulls) /\ Len(pulls) \in Nat
        BY LenProperties DEF IndInv, RemoteOK
  <1> QED  BY <1>1, <1>2

-----------------------------------------------------------------------------
(* Runs.                                                                   *)

\* A run whose step leaves it as it is, or with an old copy, stays in order
\* when its policy is written by nobody, or its copy is old by now.
LEMMA KeptStatus ==
  ASSUME SystemInv, StatusInv, [Next]_vars, NEW m \in Managers, Kept(m),
         deleted \subseteq deleted',
         run'[m].current =>
            /\ specs'[run[m].policy] = specs[run[m].policy]
            /\ status'[run[m].policy] = status[run[m].policy]
  PROVE  StatusOK(m)'
  <1>1. /\ NumberOK(m)'
        /\ result'[m].number \in {0, result[m].number, Len(pulls) + 1}
        BY NumberStep DEF StatusInv, StatusOK, SystemInv
  <1>2. CASE run[m] = Idle
        BY <1>1, <1>2 DEF Kept, StatusOK
  <1>3. CASE run[m] # Idle
    <2>1. run[m] \in Runs /\ run[m].policy \in Policies
          BY <1>3 DEF SystemInv, ProcessOK, RunOK, GoodRun
    <2>2. /\ run'[m].policy = run[m].policy /\ run'[m].generation = run[m].generation
          /\ run'[m].url = run[m].url
          /\ run'[m].current => run[m].current
          BY <2>1 DEF Kept, Runs
    <2>3. run'[m].url \in {0} \cup DOMAIN pulls'
          BY <1>3, <2>2, NumbersGrow DEF StatusInv, StatusOK, SystemInv
    <2>4. ASSUME run'[m].current PROVE RunIsNew(m)'
      <3>1. RunIsNew(m)
            BY <1>3, <2>2, <2>4 DEF StatusInv, StatusOK
      <3>2. status[run[m].policy].url <= Len(pulls) + 1
            BY <2>1, NumbersGrow DEF StatusInv, SystemInv
      <3> QED  BY <1>1, <2>2, <2>4, <3>1, <3>2 DEF RunIsNew
    <2> QED  BY <1>1, <2>3, <2>4 DEF StatusOK
  <1> QED  BY <1>2, <1>3

\* A run begins with a copy that is the newest, if the cache has the newest,
\* and with no number.
LEMMA StartStatus ==
  ASSUME SystemInv, StatusInv, NEW m \in Managers, NEW p \in Policies, ReconcileStart(m, p)
  PROVE  StatusOK(m)'
  <1>1. /\ run[m].phase = "idle"
        /\ run'[m].policy = p /\ run'[m].generation = seen[m][p]
        /\ run'[m].current = (p \in fresh[m]) /\ run'[m].url = 0
        /\ UNCHANGED <<vars, specs, deleted, status>>
        BY DEF ReconcileStart, Dequeue, clusterVars, SystemInv, LoopInv, LoopOK
  <1>2. NumberOK(m) /\ result[m].number = 0
        BY <1>1 DEF SystemInv, ProcessOK, CallOK, StatusInv, StatusOK, NumberOK
  <1>3. p \in fresh[m] /\ p \notin deleted => seen[m][p] = Len(specs[p])
        BY DEF SystemInv, LoopInv, FreshIsLatest, Generation
  <1> QED  BY <1>1, <1>2, <1>3 DEF StatusOK, NumberOK, RunIsNew, vars

\* What a run keeps while it evaluates, opens and calls.
LEMMA InnerStatus ==
  ASSUME SystemInv, StatusInv, NEW m \in Managers,
         \/ \E pod \in Pod : EvaluateContainer(m, pod)
         \/ OpenPullRequests(m) \/ CallManager(m)
  PROVE  StatusOK(m)'
  <1>1. run[m].phase \in {"evaluate", "open"} /\ UNCHANGED <<specs, deleted, status, pulls>>
        BY DEF EvaluateContainer, OpenPullRequests, CallManager, OpenRecommendationPR,
           remoteVars, vars, clusterVars
  <1>2. run[m] \in Runs /\ run[m] # Idle
        BY <1>1 DEF Idle, SystemInv, ProcessOK, RunOK, GoodRun
  <1>3. /\ run'[m].policy = run[m].policy /\ run'[m].generation = run[m].generation
        /\ run'[m].current = run[m].current /\ run'[m].url = run[m].url
    <2>1. m \in DOMAIN run
          BY DEF SystemInv, LoopInv, LoopOK
    <2>2. CASE \E pod \in Pod : EvaluateContainer(m, pod)
      <3> PICK pod \in Pod : EvaluateContainer(m, pod)
          BY <2>2
      <3> QED  BY <1>2, <2>1 DEF EvaluateContainer, Runs
    <2>3. CASE OpenPullRequests(m)
          BY <1>2, <2>1, <2>3 DEF OpenPullRequests, Runs
    <2>4. CASE CallManager(m)
          BY <1>2, <2>1, <2>4 DEF CallManager, Runs
    <2> QED  BY <2>2, <2>3, <2>4
  <1>4. result[m].number = 0
        BY <1>1 DEF SystemInv, ProcessOK, CallOK, StatusInv, StatusOK, NumberOK
  <1>5. result'[m].number = 0
        BY <1>4, CallBegins DEF EvaluateContainer, OpenPullRequests, CallManager, vars,
           SystemInv, StatusInv, StatusOK
  <1> QED  BY <1>1, <1>2, <1>3, <1>4, <1>5 DEF StatusInv, StatusOK, NumberOK, RunIsNew

\* The number of a call that succeeded becomes the run's.
LEMMA ReturnStatus ==
  ASSUME SystemInv, StatusInv, NEW m \in Managers, CallReturns(m)
  PROVE  StatusOK(m)'
  <1>1. /\ run[m].phase = "call" /\ result'[m] = NoOutcome /\ UNCHANGED pulls
        /\ m \in DOMAIN run
        BY DEF CallReturns, Resume, Forget, remoteVars,
           SystemInv, IndInv, ManagersOK, LoopInv, LoopOK
  <1>2. result'[m].number = 0
        BY <1>1 DEF NoOutcome
  <1>3. CASE run'[m] = Idle
        BY <1>2, <1>3 DEF StatusOK, NumberOK
  <1>4. CASE run'[m] # Idle
    <2>1. run[m] \in Runs /\ run[m] # Idle
          BY <1>1 DEF Idle, SystemInv, ProcessOK, RunOK, GoodRun
    <2>2. /\ run'[m] = [run[m] EXCEPT !.phase = "open", !.pending = @ \ {Turn(m)},
                           !.url = IF result[m].err = nil THEN result[m].number ELSE run[m].url]
          /\ UNCHANGED <<specs, deleted, status>>
          BY <1>1, <1>4 DEF CallReturns, Fail, clusterVars
    <2>3. /\ run'[m].policy = run[m].policy /\ run'[m].generation = run[m].generation
          /\ run'[m].current = run[m].current
          /\ run'[m].url \in {run[m].url, result[m].number}
          BY <2>1, <2>2 DEF Runs
    <2>4. result[m].number \in {0} \cup DOMAIN pulls
          BY DEF SystemInv, IndInv, ManagersOK
    <2> QED  BY <1>1, <1>2, <2>1, <2>2, <2>3, <2>4
                DEF StatusInv, StatusOK, NumberOK, RunIsNew
  <1> QED  BY <1>3, <1>4

-----------------------------------------------------------------------------
(* Writes.                                                                 *)

\* A write is of the newest view, or says what the status said.
LEMMA WriteIsReport ==
  ASSUME SystemInv, StatusInv, NEW m \in Managers,
         Updating(m), Accepts(m), WriteStatus(m), UNCHANGED <<specs, deleted>>
  PROVE  /\ Serial!Report(run[m].policy) \/ UNCHANGED status
         /\ \A p \in Policies : status'[p].url \in {status[p].url, run[m].url}
         /\ \A p \in Policies \ {run[m].policy} : status'[p] = status[p]
         /\ run[m].policy \in Policies
  <1> DEFINE r == run[m]
             p == r.policy
  <1>1. /\ RunOK(r) /\ GoodRun(r, SpecOf(r)) /\ r \in Runs /\ r # Idle
        /\ r.current /\ p \notin deleted
        BY DEF Idle, SystemInv, ProcessOK, RunOK, GoodRun, Updating, Accepts
  <1>2. p \in Policies /\ r.generation = Len(specs[p])
        BY <1>1 DEF RunOK, StatusInv, StatusOK, RunIsNew
  <1>3. SpecOf(r) = Serial!Newest(p)
        BY <1>2 DEF SpecOf, Serial!Newest
  <1>4. r.url = 0 \/ status[p].url <= r.url
        BY <1>1 DEF StatusInv, StatusOK, RunIsNew
  <1>5. status[p].url \in Nat
        BY <1>2 DEF SystemInv, ClusterOK
  <1>6. CASE status' = [status EXCEPT ![p] = NewStatus(r)]
    <2>1. /\ p \in DOMAIN status
          /\ status'[p] = NewStatus(r)
          BY <1>2, <1>6 DEF SystemInv, ClusterOK
    <2>2. /\ status'[p].observed = Len(specs[p])
          /\ status'[p].recommendations = r.recommendations
          /\ status'[p].url = IF r.url # 0 THEN r.url ELSE status[p].url
          BY <1>2, <2>1 DEF NewStatus
    <2>3. status'[p].url >= status[p].url
          BY <1>4, <1>5, <2>2
    <2>4. Serial!OfOneContainer(status'[p].recommendations)
          BY <1>1, <2>2 DEF GoodRun, Serial!OfOneContainer
    <2>5. \A rec \in status'[p].recommendations : Allowed(p, Serial!Newest(p), rec)
          BY <1>1, <1>3, <2>2 DEF GoodRun, MayTouch, Allowed
    <2>6. Active(Serial!Newest(p))
          BY <1>1, <1>3 DEF GoodRun
    <2>7. Serial!Report(p)
          BY <1>1, <1>6, <2>1, <2>2, <2>3, <2>4, <2>5, <2>6 DEF Serial!Report
    <2> QED  BY <1>2, <1>6, <2>2, <2>7
  <1>7. CASE UNCHANGED status
        BY <1>2, <1>7
  <1> QED  BY <1>6, <1>7 DEF WriteStatus

\* It makes the copies of the other runs for that policy old.
LEMMA WriteStatusInv ==
  ASSUME SystemInv, StatusInv, [Next]_vars, NEW m \in Managers,
         Updating(m), Accepts(m), WriteStatus(m), UNCHANGED <<vars, specs, deleted>>,
         NEW n \in Managers, n # m => Kept(n)
  PROVE  StatusOK(n)'
  <1> DEFINE p == run[m].policy
  <1> USE DEF SystemInv, LoopInv, LoopOK
  <1>1. CASE n = m
    <2>1. run'[m] = Idle
          BY DEF WriteStatus, StaleRuns, Idle
    <2>2. NumberOK(m)'
          BY DEF StatusInv, StatusOK, NumberOK, vars
    <2> QED  BY <1>1, <2>1, <2>2 DEF StatusOK
  <1>2. CASE n # m
    <2>1. CASE UNCHANGED status
          BY <1>2, <2>1, KeptStatus
    <2>2. CASE run[n] # Idle /\ run[n].policy # p
      <3>1. run[n].policy \in Policies
            BY <2>2 DEF ProcessOK, RunOK
      <3>2. status'[run[n].policy] = status[run[n].policy]
            BY <2>2, <3>1, WriteIsReport
      <3> QED  BY <1>2, <3>2, KeptStatus
    <2>3. CASE run[n] = Idle
      <3>1. run'[n] = Idle
            BY <1>2, <2>3 DEF Kept
      <3>2. NumberOK(n)'
            BY DEF StatusInv, StatusOK, NumberOK, vars
      <3> QED  BY <3>1, <3>2 DEF StatusOK
    <2>4. CASE run[n] # Idle /\ run[n].policy = p /\ status' # status
      <3>1. run' = StaleRuns(p, [run EXCEPT ![m] = Idle])
            BY <2>4 DEF WriteStatus
      <3>2. run'[n] = [run[n] EXCEPT !.current = FALSE]
            BY <1>2, <2>4, <3>1 DEF StaleRuns, Idle, IsRun
      <3>3. run[n] \in Runs
            BY <2>4 DEF ProcessOK, RunOK, GoodRun
      <3>4. ~run'[n].current
            BY <3>2, <3>3 DEF Runs
      <3> QED  BY <1>2, <3>4, KeptStatus
    <2> QED  BY <2>1, <2>2, <2>3, <2>4
  <1> QED  BY <1>1, <1>2

-----------------------------------------------------------------------------
(* Every step.                                                             *)

\* The cluster, GitOps and the watch leave a run in order: what they write
\* makes its copy old.
LEMMA OutsideStatus ==
  ASSUME SystemInv, StatusInv, [Next]_vars, NEW n \in Managers,
         \/ ClusterStep
         \/ \E m \in Managers : GitStep(m)
         \/ \E m \in Managers, p \in Policies : Deliver(m, p) \/ TimerFires(m, p)
         \/ UNCHANGED allVars
  PROVE  StatusOK(n)'
  <1> USE DEF SystemInv, LoopInv, LoopOK
  <1>1. CASE UNCHANGED <<specs, deleted, status, run>>
        BY <1>1, KeptStatus DEF Kept
  <1>2. ASSUME NEW p \in Policies, DeletePolicy(p) \/ \E s \in Specs : EditPolicy(p, s)
        PROVE  StatusOK(n)'
    <2>1. /\ run' = StaleRuns(p, run) /\ UNCHANGED status
          /\ deleted \subseteq deleted'
          /\ \A q \in Policies \ {p} : specs'[q] = specs[q]
          BY <1>2 DEF DeletePolicy, EditPolicy
    <2>2. Kept(n)
          BY <2>1, StaleRunsKept DEF IsRun
    <2>3. CASE run[n] = Idle
      <3>1. run'[n] = Idle /\ NumberOK(n)'
            BY <2>2, <2>3, NumberStep DEF Kept, StatusInv, StatusOK
      <3> QED  BY <3>1 DEF StatusOK
    <2>4. CASE run[n] # Idle
      <3>1. run[n] \in Runs /\ run[n].policy \in Policies /\ run[n].phase # "idle"
            BY <2>4 DEF ProcessOK, RunOK, GoodRun, IsRun
      <3>2. run'[n].current => run[n].policy # p
        <4> SUFFICES ASSUME run[n].policy = p PROVE ~run'[n].current
            OBVIOUS
        <4>1. run'[n] = [run[n] EXCEPT !.current = FALSE]
              BY <2>1, <3>1 DEF StaleRuns
        <4> QED  BY <3>1, <4>1 DEF Runs
      <3> QED  BY <2>1, <2>2, <3>1, <3>2, KeptStatus
    <2> QED  BY <2>3, <2>4
  <1>3. CASE ClusterStep
        BY <1>1, <1>2, <1>3 DEF ClusterStep, UsageDrifts, Sync, clusterVars, loopVars
  <1> QED  BY <1>1, <1>3 DEF GitStep, Deliver, TimerFires, clusterVars, loopVars, allVars

LEMMA LoopStatus ==
  ASSUME SystemInv, StatusInv, [Next]_vars, NEW m \in Managers, LoopStep(m),
         NEW n \in Managers
  PROVE  StatusOK(n)'
  <1> USE DEF SystemInv, LoopInv, LoopOK
  <1>1. CASE UpdateStatus(m) \/ UpdateReplyLost(m)
    <2>1. /\ Updating(m) /\ Accepts(m) /\ WriteStatus(m)
          /\ UNCHANGED <<vars, specs, deleted>>
          BY <1>1 DEF UpdateStatus, UpdateReplyLost
    <2>2. n # m => Kept(n)
          BY OthersKept
    <2> QED  BY <2>1, <2>2, WriteStatusInv
  <1>2. CASE ~(UpdateStatus(m) \/ UpdateReplyLost(m))
    <2>1. UNCHANGED <<specs, deleted, status>>
          BY <1>2 DEF LoopStep, ReconcileNothing, ReconcileInvalid, ReconcileStart, Dequeue,
             EvaluateContainer, QueryFails, OpenPullRequests, BuildManagerFails, CallManager,
             CallReturns, UpdateConflicts, Fail, clusterVars
    <2>2. ASSUME Kept(n) PROVE StatusOK(n)'
          BY <2>1, <2>2, KeptStatus
    <2>3. CASE n # m
          BY <2>2, <2>3, OthersKept
    <2>4. ASSUME run'[m] = Idle PROVE StatusOK(m)'
          BY <2>4, NumberStep DEF StatusInv, StatusOK
    <2>5. CASE \E p \in Policies : ReconcileNothing(m, p) \/ ReconcileInvalid(m, p)
      <3>1. UNCHANGED run
            BY <2>5 DEF ReconcileNothing, ReconcileInvalid
      <3> QED  BY <2>2, <3>1 DEF Kept
    <2>6. CASE QueryFails(m) \/ BuildManagerFails(m) \/ UpdateConflicts(m)
      <3>1. run'[m] = Idle
            BY <2>6 DEF QueryFails, BuildManagerFails, UpdateConflicts, Fail
      <3> QED  BY <2>3, <2>4, <3>1
    <2> QED  BY <1>2, <2>3, <2>5, <2>6, StartStatus, InnerStatus, ReturnStatus DEF LoopStep
  <1> QED  BY <1>1, <1>2

LEMMA RestartStatus ==
  ASSUME SystemInv, StatusInv, [Next]_vars, NEW m \in Managers, Restart(m),
         NEW n \in Managers
  PROVE  StatusOK(n)'
  <1> USE DEF SystemInv, LoopInv, LoopOK
  <1>1. CASE n = m
    <2>1. run'[m] = Idle /\ NumberOK(m)'
          BY NumberStep DEF Restart, StatusInv, StatusOK
    <2> QED  BY <1>1, <2>1 DEF StatusOK
  <1>2. CASE n # m
    <2>1. run'[n] = run[n] /\ UNCHANGED <<specs, deleted, status>>
          BY <1>2 DEF Restart, clusterVars
    <2> QED  BY <2>1, KeptStatus DEF Kept
  <1> QED  BY <1>1, <1>2

\* Who writes specs and statuses.
LEMMA StatusWriters ==
  ASSUME [SystemNext]_allVars
  PROVE  \/ UNCHANGED <<specs, deleted, status>>
         \/ \E m \in Managers : UpdateStatus(m) \/ UpdateReplyLost(m)
         \/ \E p \in Policies, s \in Specs : EditPolicy(p, s)
         \/ \E p \in Policies : DeletePolicy(p)
  <1> DEFINE same == UNCHANGED <<specs, deleted, status>>
  <1>1. ASSUME NEW m \in Managers, LoopStep(m), ~(UpdateStatus(m) \/ UpdateReplyLost(m))
        PROVE  same
    <2>1. ASSUME NEW p \in Policies,
                 ReconcileNothing(m, p) \/ ReconcileInvalid(m, p) \/ ReconcileStart(m, p)
          PROVE  same
          BY <2>1 DEF ReconcileNothing, ReconcileInvalid, ReconcileStart, Dequeue, clusterVars
    <2>2. ASSUME NEW pod \in Pod, EvaluateContainer(m, pod) PROVE same
          BY <2>2 DEF EvaluateContainer, clusterVars
    <2>3. ASSUME QueryFails(m) \/ BuildManagerFails(m) \/ UpdateConflicts(m) PROVE same
          BY <2>3 DEF QueryFails, BuildManagerFails, UpdateConflicts, Fail, clusterVars
    <2>4. ASSUME OpenPullRequests(m) \/ CallManager(m) \/ CallReturns(m) PROVE same
          BY <2>4 DEF OpenPullRequests, CallManager, CallReturns, Fail, clusterVars
    <2> QED  BY <1>1, <2>1, <2>2, <2>3, <2>4 DEF LoopStep
  <1>2. ASSUME NEW m \in Managers, GitStep(m) \/ Restart(m) PROVE same
        BY <1>2 DEF GitStep, Restart, clusterVars
  <1>3. ASSUME NEW m \in Managers, NEW p \in Policies, Deliver(m, p) \/ TimerFires(m, p)
        PROVE  same
        BY <1>3 DEF Deliver, TimerFires, clusterVars
  <1>4. CASE ClusterStep
        BY <1>4 DEF ClusterStep, UsageDrifts, Sync, clusterVars
  <1>5. CASE UNCHANGED allVars
        BY <1>5 DEF allVars, clusterVars
  <1> QED  BY <1>1, <1>2, <1>3, <1>4, <1>5 DEF SystemNext

LEMMA NextStatusInv ==
  SystemInv /\ SystemInv' /\ StatusInv /\ [SystemNext]_allVars => StatusInv'
  <1> SUFFICES ASSUME SystemInv, SystemInv', StatusInv, [SystemNext]_allVars
               PROVE  StatusInv'
      OBVIOUS
  <1>1. [Next]_vars /\ IndInv
        BY StepsAreGitOps DEF SystemInv
  <1>2. \A n \in Managers : StatusOK(n)'
        BY <1>1, OutsideStatus, LoopStatus, RestartStatus DEF SystemNext
  <1>3. \A p \in Policies : status'[p].url \in {0} \cup DOMAIN pulls'
    <2>1. CASE UNCHANGED status
          BY <1>1, <2>1, NumbersGrow DEF StatusInv
    <2>2. ASSUME NEW m \in Managers, UpdateStatus(m) \/ UpdateReplyLost(m)
          PROVE  \A p \in Policies : status'[p].url \in {0} \cup DOMAIN pulls'
      <3>1. /\ Updating(m) /\ Accepts(m) /\ WriteStatus(m)
            /\ UNCHANGED <<specs, deleted>>
            BY <2>2 DEF UpdateStatus, UpdateReplyLost
      <3>2. run[m] # Idle /\ run[m].url \in {0} \cup DOMAIN pulls
            BY <3>1 DEF Updating, Idle, StatusInv, StatusOK
      <3> QED  BY <1>1, <3>1, <3>2, WriteIsReport, NumbersGrow DEF StatusInv
    <2> QED  BY <2>1, <2>2, StatusWriters DEF EditPolicy, DeletePolicy
  <1> QED  BY <1>2, <1>3 DEF StatusInv

-----------------------------------------------------------------------------
\* A step writes a report, adds a spec, deletes a policy, or does nothing that
\* a reader of policies and statuses can see.
LEMMA StepsAreReports ==
  ASSUME SystemInv, StatusInv, [SystemNext]_allVars
  PROVE  [Serial!Next]_(Serial!statusVars)
  <1>1. CASE UNCHANGED <<specs, deleted, status>>
        BY <1>1 DEF Serial!statusVars
  <1>2. ASSUME NEW m \in Managers, UpdateStatus(m) \/ UpdateReplyLost(m)
        PROVE  [Serial!Next]_(Serial!statusVars)
    <2>1. /\ Updating(m) /\ Accepts(m) /\ WriteStatus(m)
          /\ UNCHANGED <<specs, deleted>>
          BY <1>2 DEF UpdateStatus, UpdateReplyLost
    <2>2. /\ Serial!Report(run[m].policy) \/ UNCHANGED status
          /\ run[m].policy \in Policies
          BY <2>1, WriteIsReport
    <2> QED  BY <1>1, <2>1, <2>2 DEF Serial!Next
  <1>3. ASSUME NEW p \in Policies, NEW s \in Specs, EditPolicy(p, s) PROVE Serial!Edit(p)
        BY <1>3 DEF EditPolicy, Serial!Edit
  <1>4. ASSUME NEW p \in Policies, DeletePolicy(p) PROVE Serial!Delete(p)
        BY <1>4 DEF DeletePolicy, Serial!Delete
  <1> QED  BY <1>1, <1>2, <1>3, <1>4, StatusWriters DEF Serial!Next

LEMMA InitStatus == SystemInit => StatusInv /\ Serial!Init
  <1> SUFFICES ASSUME SystemInit PROVE StatusInv /\ Serial!Init
      OBVIOUS
  <1>1. StatusInv
        BY DEF SystemInit, Init, StatusInv, StatusOK, NumberOK, NoStatus, NoOutcome
  <1>2. Serial!Init
        BY DEF SystemInit, Serial!Init, NoStatus
  <1> QED  BY <1>1, <1>2

LEMMA StatusInvariance == SystemSpec => []StatusInv
  BY InitStatus, SystemInvariance, NextStatusInv, PTL DEF SystemSpec

\* Every write of a status is one report on the policy as it is at that
\* moment (resourcepolicy_controller.go:166 sends the resourceVersion that
\* line 78 read), for any number of processes, leaders or not.
THEOREM ImplementsPolicyStatus == SystemSpec => StatusIsSerial
  <1>1. SystemSpec => Serial!Spec
        BY InitStatus, SystemInvariance, StatusInvariance, StepsAreReports, PTL
           DEF SystemSpec, Serial!Spec
  <1> QED  BY <1>1 DEF StatusIsSerial

=============================================================================
