-------------------------- MODULE ReconcilerProofs --------------------------
(***************************************************************************)
(* Reconciler's loop loses no policy, for any number of processes,         *)
(* policies, workloads and generations, and whatever GitOps's calls do.    *)
(*                                                                         *)
(* The invariant behind it: a policy is dropped from the queue on purpose  *)
(* only when the cached copy says suspended or gone; a copy that is marked *)
(* fresh is the newest one (FreshIsLatest), so what it says is true; and   *)
(* one that is not fresh is still to be delivered.                         *)
(***************************************************************************)
EXTENDS Reconciler, TLAPS

RunFields == {"phase", "policy", "generation", "current", "deployments", "todo",
              "recommendations", "changes", "pending", "url"}

IsRun(r) ==
    /\ r = [f \in RunFields |-> r[f]]
    /\ r.phase # "idle"
    /\ r.policy \in Policies

\* As much of SystemTypeOK as the argument needs.
LoopOK ==
    /\ specs \in [Policies -> Seq(PolicySpec)]
    /\ \A p \in Policies : Generation(p) # 0
    /\ seen \in [Managers -> [Policies -> Nat]]
    /\ fresh \in [Managers -> SUBSET Policies]
    /\ queue \in [Managers -> [Policies -> SUBSET Reasons]]
    /\ delayed \in [Managers -> SUBSET Policies]
    /\ run = [m \in Managers |-> run[m]]
    /\ \A m \in Managers : run[m] = Idle \/ IsRun(run[m])

FreshIsLatest ==
    \A m \in Managers : \A p \in fresh[m] \ deleted : seen[m][p] = Generation(p)

LoopInv == LoopOK /\ FreshIsLatest /\ NeverForgotten

-----------------------------------------------------------------------------
LEMMA InitLoopInv == SystemInit => LoopInv
  <1> SUFFICES ASSUME SystemInit PROVE LoopInv
      OBVIOUS
  <1> USE DEF SystemInit
  <1>1. \A p \in Policies : specs[p] \in Seq(PolicySpec) /\ Generation(p) = 1
    <2> TAKE p \in Policies
    <2>1. specs[p] \in {<<s>> : s \in Specs}
          OBVIOUS
    <2>2. PICK s \in Specs : specs[p] = <<s>>
          BY <2>1
    <2>3. s \in PolicySpec
          BY SpecsAssumption
    <2> QED  BY <2>2, <2>3 DEF Generation
  <1>2. LoopOK
    <2>1. specs \in [Policies -> Seq(PolicySpec)]
          BY <1>1
    <2> QED  BY <1>1, <2>1 DEF LoopOK, Idle, Reasons
  <1>3. FreshIsLatest  BY <1>1 DEF FreshIsLatest
  <1>4. NeverForgotten  BY DEF NeverForgotten
  <1> QED  BY <1>2, <1>3, <1>4 DEF LoopInv

(* How a step may touch the runs: it keeps which runs there are and what    *)
(* policy each works for.                                                   *)
SameRun(m) ==
    \/ run[m] = Idle /\ run'[m] = Idle
    \/ IsRun(run[m]) /\ IsRun(run'[m]) /\ run'[m].policy = run[m].policy

\* What is left to show of NeverForgotten when no spec changes.
LEMMA NotForgotten ==
  ASSUME UNCHANGED <<specs, deleted>>,
         \A n \in Managers, p \in Policies \ deleted :
            ~Latest(p).suspend /\ queue'[n][p] = {} /\ p \notin delayed'[n] /\ p \in fresh'[n]
               => run'[n].phase # "idle" /\ run'[n].policy = p
  PROVE  NeverForgotten'
  <1>1. \A p : Latest(p)' = Latest(p)
        BY DEF Latest, Generation
  <1> QED  BY <1>1 DEF NeverForgotten

\* A step inside the runs forgets nothing.
LEMMA RunsGoOn ==
  ASSUME LoopInv,
         run' = [m \in Managers |-> run'[m]],
         \A m \in Managers : SameRun(m),
         UNCHANGED <<specs, deleted, seen, fresh, queue, delayed>>
  PROVE  LoopInv'
  <1> USE DEF LoopInv
  <1>1. LoopOK'
        BY DEF LoopOK, SameRun, Generation
  <1>2. FreshIsLatest'
        BY DEF FreshIsLatest, Generation
  <1>3. NeverForgotten'
    <2> SUFFICES ASSUME NEW n \in Managers, NEW p \in Policies \ deleted,
                        ~Latest(p).suspend, queue[n][p] = {},
                        p \notin delayed[n], p \in fresh[n]
                 PROVE  run'[n].phase # "idle" /\ run'[n].policy = p
        BY NotForgotten
    <2>1. run[n].phase # "idle" /\ run[n].policy = p
          BY DEF NeverForgotten
    <2> QED  BY <2>1 DEF SameRun, IsRun, Idle
  <1> QED  BY <1>1, <1>2, <1>3

\* A run that ends puts its policy back, whether it wrote the status or not.
LEMMA RunEnds ==
  ASSUME LoopInv, NEW m \in Managers,
         IsRun(run[m]),
         run' = [n \in Managers |-> run'[n]],
         run'[m] = Idle,
         \A n \in Managers \ {m} : SameRun(n),
         delayed' = [delayed EXCEPT ![m] = @ \cup {run[m].policy}],
         fresh' = fresh \/ Written(run[m].policy),
         UNCHANGED <<specs, deleted, seen, queue>>
  PROVE  LoopInv'
  <1> USE DEF LoopInv
  <1> USE DEF LoopOK
  <1>1. LoopOK'
    <2>1. fresh' \in [Managers -> SUBSET Policies]
          BY DEF Written
    <2>2. delayed' \in [Managers -> SUBSET Policies]
          BY DEF IsRun
    <2>3. \A n \in Managers : run'[n] = Idle \/ IsRun(run'[n])
          BY DEF SameRun
    <2> QED  BY <2>1, <2>2, <2>3 DEF Generation
  <1>2. FreshIsLatest'
        BY DEF FreshIsLatest, Generation, Written, LoopOK
  <1>3. NeverForgotten'
    <2> SUFFICES ASSUME NEW n \in Managers, NEW p \in Policies \ deleted,
                        ~Latest(p).suspend, queue[n][p] = {},
                        p \in fresh'[n]
                 PROVE  p \in delayed'[n] \/ (run'[n].phase # "idle" /\ run'[n].policy = p)
        BY NotForgotten
    <2>1. p \in fresh[n]
          BY DEF Written, LoopOK
    <2>2. p \in delayed[n] \/ (run[n].phase # "idle" /\ run[n].policy = p)
          BY <2>1 DEF NeverForgotten
    <2>3. CASE n = m
          BY <2>2, <2>3 DEF LoopOK
    <2>4. CASE n # m
          BY <2>2, <2>4 DEF SameRun, IsRun, Idle, LoopOK
    <2> QED  BY <2>3, <2>4
  <1> QED  BY <1>1, <1>2, <1>3

-----------------------------------------------------------------------------
(* The queue.                                                              *)

\* The watch brings the newest object, and queues the policy.
LEMMA DeliverKeepsLoopInv ==
  ASSUME LoopInv, NEW m \in Managers, NEW p \in Policies, Deliver(m, p)
  PROVE  LoopInv'
  <1> DEFINE now == IF p \in deleted THEN 0 ELSE Generation(p)
             reason == IF now # seen[m][p] THEN "due" ELSE "status"
  <1> USE DEF LoopInv, LoopOK
  <1>1. /\ seen' = [seen EXCEPT ![m][p] = now]
        /\ fresh' = [fresh EXCEPT ![m] = @ \cup {p}]
        /\ queue' = [queue EXCEPT ![m][p] = @ \cup {reason}]
        /\ UNCHANGED <<specs, deleted, delayed, run>>
        BY DEF Deliver, clusterVars
  <1>2. now \in Nat /\ reason \in Reasons
        BY DEF Generation, Reasons
  <1> HIDE DEF now, reason
  <1>3. LoopOK'
        BY <1>1, <1>2 DEF Generation, IsRun
  <1>4. FreshIsLatest'
        BY <1>1 DEF FreshIsLatest, Generation, now
  <1>5. NeverForgotten'
    <2> SUFFICES ASSUME NEW n \in Managers, NEW q \in Policies \ deleted,
                        ~Latest(q).suspend, queue'[n][q] = {},
                        q \notin delayed[n], q \in fresh'[n]
                 PROVE  run[n].phase # "idle" /\ run[n].policy = q
        BY <1>1, NotForgotten
    <2>1. ~(n = m /\ q = p)
          BY <1>1, <1>2
    <2>2. queue[n][q] = {} /\ q \in fresh[n]
          BY <1>1, <2>1
    <2> QED  BY <2>2 DEF NeverForgotten
  <1> QED  BY <1>3, <1>4, <1>5

\* A policy whose time has come is queued.
LEMMA TimerKeepsLoopInv ==
  ASSUME LoopInv, NEW m \in Managers, NEW p \in Policies, TimerFires(m, p)
  PROVE  LoopInv'
  <1> USE DEF LoopInv, LoopOK
  <1>1. /\ delayed' = [delayed EXCEPT ![m] = @ \ {p}]
        /\ queue' = [queue EXCEPT ![m][p] = @ \cup {"due"}]
        /\ UNCHANGED <<specs, deleted, seen, fresh, run>>
        BY DEF TimerFires, clusterVars
  <1>2. LoopOK'
        BY <1>1 DEF Generation, IsRun, Reasons
  <1>3. FreshIsLatest'
        BY <1>1 DEF FreshIsLatest, Generation
  <1>4. NeverForgotten'
    <2> SUFFICES ASSUME NEW n \in Managers, NEW q \in Policies \ deleted,
                        ~Latest(q).suspend, queue'[n][q] = {},
                        q \notin delayed'[n], q \in fresh[n]
                 PROVE  run[n].phase # "idle" /\ run[n].policy = q
        BY <1>1, NotForgotten
    <2>1. ~(n = m /\ q = p)
          BY <1>1
    <2>2. queue[n][q] = {} /\ q \notin delayed[n]
          BY <1>1, <2>1
    <2> QED  BY <2>2 DEF NeverForgotten
  <1> QED  BY <1>2, <1>3, <1>4

\* A process that starts again queues every policy there is.
LEMMA RestartKeepsLoopInv ==
  ASSUME LoopInv, NEW m \in Managers, Restart(m)
  PROVE  LoopInv'
  <1> USE DEF LoopInv, LoopOK
  <1>1. /\ seen' = [seen EXCEPT ![m] =
                       [p \in Policies |-> IF p \in deleted THEN 0 ELSE Generation(p)]]
        /\ fresh' = [fresh EXCEPT ![m] = Policies]
        /\ queue' = [queue EXCEPT ![m] =
                       [p \in Policies |-> IF p \in deleted THEN {} ELSE {"due"}]]
        /\ delayed' = [delayed EXCEPT ![m] = {}]
        /\ run' = [run EXCEPT ![m] = Idle]
        /\ UNCHANGED <<specs, deleted>>
        BY DEF Restart, clusterVars
  <1>2. \A p \in Policies : Generation(p) \in Nat
        BY DEF Generation
  <1>3. LoopOK'
        BY <1>1, <1>2 DEF Generation, IsRun, Reasons
  <1>4. FreshIsLatest'
        BY <1>1 DEF FreshIsLatest, Generation
  <1>5. NeverForgotten'
    <2> SUFFICES ASSUME NEW n \in Managers, NEW q \in Policies \ deleted,
                        ~Latest(q).suspend, queue'[n][q] = {},
                        q \notin delayed'[n], q \in fresh'[n]
                 PROVE  run'[n].phase # "idle" /\ run'[n].policy = q
        BY <1>1, NotForgotten
    <2>1. n # m
          BY <1>1
    <2>2. /\ queue[n][q] = {} /\ q \notin delayed[n] /\ q \in fresh[n]
          /\ run'[n] = run[n]
          BY <1>1, <2>1
    <2> QED  BY <2>2 DEF NeverForgotten
  <1> QED  BY <1>3, <1>4, <1>5

-----------------------------------------------------------------------------
(* Reconcile's beginning.                                                  *)

\* A policy is dropped only when its newest spec is suspended, or the copy
\* that said so is about to be replaced.
LEMMA NothingKeepsLoopInv ==
  ASSUME LoopInv, NEW m \in Managers, NEW p \in Policies, ReconcileNothing(m, p)
  PROVE  LoopInv'
  <1> USE DEF LoopInv, LoopOK
  <1>1. /\ queue' = [queue EXCEPT ![m][p] = {}]
        /\ NothingToDo(m, p)
        /\ UNCHANGED <<specs, deleted, seen, fresh, delayed, run>>
        BY DEF ReconcileNothing, Dequeue, NotRequeued, clusterVars
  <1>2. LoopOK'
        BY <1>1 DEF Generation, IsRun
  <1>3. FreshIsLatest'
        BY <1>1 DEF FreshIsLatest, Generation
  <1>4. NeverForgotten'
    <2> SUFFICES ASSUME NEW n \in Managers, NEW q \in Policies \ deleted,
                        ~Latest(q).suspend, queue'[n][q] = {},
                        q \notin delayed[n], q \in fresh[n]
                 PROVE  run[n].phase # "idle" /\ run[n].policy = q
        BY <1>1, NotForgotten
    <2>1. ~(n = m /\ q = p)
      <3> SUFFICES ASSUME n = m, q = p PROVE FALSE
          OBVIOUS
      <3>1. seen[m][p] = Generation(p) /\ Generation(p) # 0
            BY DEF FreshIsLatest
      <3> QED  BY <1>1, <3>1 DEF NothingToDo, CachedSpec, Latest
    <2>2. queue[n][q] = {}
          BY <1>1, <2>1
    <2> QED  BY <2>2 DEF NeverForgotten
  <1> QED  BY <1>2, <1>3, <1>4

\* A policy with an invalid spec is tried again later.
LEMMA InvalidKeepsLoopInv ==
  ASSUME LoopInv, NEW m \in Managers, NEW p \in Policies, ReconcileInvalid(m, p)
  PROVE  LoopInv'
  <1> USE DEF LoopInv, LoopOK
  <1>1. /\ queue' = [queue EXCEPT ![m][p] = {}]
        /\ delayed' = [delayed EXCEPT ![m] = @ \cup {p}]
        /\ UNCHANGED <<specs, deleted, seen, fresh, run>>
        BY DEF ReconcileInvalid, Dequeue, RateLimited, clusterVars
  <1>2. LoopOK'
        BY <1>1 DEF Generation, IsRun
  <1>3. FreshIsLatest'
        BY <1>1 DEF FreshIsLatest, Generation
  <1>4. NeverForgotten'
    <2> SUFFICES ASSUME NEW n \in Managers, NEW q \in Policies \ deleted,
                        ~Latest(q).suspend, queue'[n][q] = {},
                        q \notin delayed'[n], q \in fresh[n]
                 PROVE  run[n].phase # "idle" /\ run[n].policy = q
        BY <1>1, NotForgotten
    <2>1. ~(n = m /\ q = p)
          BY <1>1
    <2>2. queue[n][q] = {} /\ q \notin delayed[n]
          BY <1>1, <2>1
    <2> QED  BY <2>2 DEF NeverForgotten
  <1> QED  BY <1>2, <1>3, <1>4

\* A policy that leaves the queue for a run is under way.
LEMMA StartKeepsLoopInv ==
  ASSUME LoopInv, NEW m \in Managers, NEW p \in Policies, ReconcileStart(m, p)
  PROVE  LoopInv'
  <1> USE DEF LoopInv, LoopOK
  <1>1. /\ run[m].phase = "idle"
        /\ queue' = [queue EXCEPT ![m][p] = {}]
        /\ UNCHANGED <<specs, deleted, seen, fresh, delayed>>
        BY DEF ReconcileStart, Dequeue, clusterVars
  <1>2. /\ run' = [run EXCEPT ![m] = run'[m]]
        /\ IsRun(run'[m])
        /\ run'[m].policy = p
        BY DEF ReconcileStart, IsRun, RunFields
  <1>3. LoopOK'
    <2>1. \A n \in Managers : run'[n] = Idle \/ IsRun(run'[n])
          BY <1>2
    <2>2. run' = [n \in Managers |-> run'[n]]
          BY <1>2
    <2>3. queue' \in [Managers -> [Policies -> SUBSET Reasons]]
          BY <1>1
    <2> QED  BY <1>1, <2>1, <2>2, <2>3 DEF Generation
  <1>4. FreshIsLatest'
        BY <1>1 DEF FreshIsLatest, Generation
  <1>5. NeverForgotten'
    <2> SUFFICES ASSUME NEW n \in Managers, NEW q \in Policies \ deleted,
                        ~Latest(q).suspend, queue'[n][q] = {},
                        q \notin delayed[n], q \in fresh[n]
                 PROVE  run'[n].phase # "idle" /\ run'[n].policy = q
        BY <1>1, NotForgotten
    <2>1. CASE n = m /\ q = p
          BY <1>2, <2>1 DEF IsRun
    <2>2. CASE ~(n = m /\ q = p)
      <3>1. queue[n][q] = {}
            BY <1>1, <2>2
      <3>2. run[n].phase # "idle" /\ run[n].policy = q
            BY <3>1 DEF NeverForgotten
      <3> QED  BY <1>1, <1>2, <3>2
    <2> QED  BY <2>1, <2>2
  <1> QED  BY <1>3, <1>4, <1>5

-----------------------------------------------------------------------------
(* Reconcile's middle and end.                                             *)

\* Steps that change one run, and keep it a run for the same policy.
LEMMA OneRunGoesOn ==
  ASSUME LoopInv, NEW m \in Managers,
         IsRun(run[m]),
         run' = [run EXCEPT ![m] = run'[m]],
         IsRun(run'[m]), run'[m].policy = run[m].policy,
         UNCHANGED <<specs, deleted, seen, fresh, queue, delayed>>
  PROVE  LoopInv'
  <1>1. run' = [n \in Managers |-> run'[n]]
        BY DEF LoopInv, LoopOK
  <1>2. \A n \in Managers : SameRun(n)
        BY DEF LoopInv, LoopOK, SameRun
  <1> QED  BY <1>1, <1>2, RunsGoOn

\* A run that is not idle has a run's fields.
LEMMA RunUnderWay ==
  ASSUME LoopInv, NEW m \in Managers, run[m].phase # "idle"
  PROVE  IsRun(run[m])
  BY DEF LoopInv, LoopOK, Idle

\* Evaluation, proposing and a call's beginning and good end change the run
\* and nothing else of the loop.
LEMMA InnerStepKeepsLoopInv ==
  ASSUME LoopInv, NEW m \in Managers,
         \/ \E pod \in Pod : EvaluateContainer(m, pod)
         \/ OpenPullRequests(m)
         \/ CallManager(m)
  PROVE  LoopInv'
  <1>1. /\ run[m].phase # "idle"
        /\ UNCHANGED <<specs, deleted, seen, fresh, queue, delayed>>
        BY DEF EvaluateContainer, OpenPullRequests, CallManager, clusterVars
  <1>2. IsRun(run[m])
        BY <1>1, RunUnderWay
  <1>3. m \in DOMAIN run
        BY DEF LoopInv, LoopOK
  <1>4. /\ run' = [run EXCEPT ![m] = run'[m]]
        /\ IsRun(run'[m])
        /\ run'[m].policy = run[m].policy
    <2>1. CASE \E pod \in Pod : EvaluateContainer(m, pod)
      <3> PICK pod \in Pod : EvaluateContainer(m, pod)
          BY <2>1
      <3> QED  BY <1>1, <1>2, <1>3 DEF EvaluateContainer, IsRun, RunFields
    <2>2. CASE OpenPullRequests(m)
          BY <1>2, <1>3, <2>2 DEF OpenPullRequests, IsRun, RunFields
    <2>3. CASE CallManager(m)
          BY <1>2, <1>3, <2>3 DEF CallManager, IsRun, RunFields
    <2> QED  BY <2>1, <2>2, <2>3
  <1> QED  BY <1>1, <1>2, <1>4, OneRunGoesOn

\* A run that returns an error puts its policy back.
LEMMA FailKeepsLoopInv ==
  ASSUME LoopInv, NEW m \in Managers, run[m].phase # "idle", Fail(m)
  PROVE  LoopInv'
  <1>1. IsRun(run[m])
        BY RunUnderWay
  <1>2. /\ run' = [run EXCEPT ![m] = Idle]
        /\ delayed' = [delayed EXCEPT ![m] = @ \cup {run[m].policy}]
        /\ UNCHANGED <<specs, deleted, seen, fresh, queue>>
        BY DEF Fail, RateLimited, clusterVars
  <1>3. /\ run' = [n \in Managers |-> run'[n]]
        /\ run'[m] = Idle
        /\ \A n \in Managers \ {m} : SameRun(n)
        BY <1>2 DEF LoopInv, LoopOK, SameRun
  <1> QED  BY <1>1, <1>2, <1>3, RunEnds

\* What OpenRecommendationPR returned ends the run, or its turn.
LEMMA CallReturnsKeepsLoopInv ==
  ASSUME LoopInv, NEW m \in Managers, CallReturns(m)
  PROVE  LoopInv'
  <1>1. run[m].phase # "idle"
        BY DEF CallReturns
  <1>2. CASE Fail(m)
        BY <1>1, <1>2, FailKeepsLoopInv
  <1>3. CASE ~Fail(m)
    <2> DEFINE lastURL == IF result[m].err = nil THEN result[m].number ELSE run[m].url
    <2>1. /\ run' = [run EXCEPT ![m].phase = "open", ![m].pending = @ \ {Turn(m)},
                                ![m].url = lastURL]
          /\ UNCHANGED <<specs, deleted, seen, fresh, queue, delayed>>
          BY <1>3 DEF CallReturns, clusterVars
    <2>2. IsRun(run[m])
          BY <1>1, RunUnderWay
    <2>3. m \in DOMAIN run
          BY DEF LoopInv, LoopOK
    <2> HIDE DEF lastURL
    <2>4. /\ run' = [run EXCEPT ![m] = run'[m]]
          /\ IsRun(run'[m])
          /\ run'[m].policy = run[m].policy
          BY <2>1, <2>2, <2>3 DEF IsRun, RunFields
    <2> QED  BY <2>1, <2>2, <2>4, OneRunGoesOn
  <1> QED  BY <1>2, <1>3

\* The write of the status makes every copy old, and the run's policy is put
\* back whether the answer arrives or not.
LEMMA WriteKeepsLoopInv ==
  ASSUME LoopInv, NEW m \in Managers, run[m].phase # "idle", WriteStatus(m),
         delayed' = [delayed EXCEPT ![m] = @ \cup {run[m].policy}],
         UNCHANGED <<specs, deleted, seen, queue>>
  PROVE  LoopInv'
  <1> DEFINE p == run[m].policy
             ended == [run EXCEPT ![m] = Idle]
  <1>1. IsRun(run[m])
        BY RunUnderWay
  <1>2. /\ run' = StaleRuns(p, ended) \/ run' = ended
        /\ fresh' = fresh \/ Written(p)
        BY DEF WriteStatus
  <1>3. ended = [n \in Managers |-> IF n = m THEN Idle ELSE run[n]]
        BY DEF LoopInv, LoopOK
  <1>4. /\ run' = [n \in Managers |-> run'[n]]
        /\ run'[m] = Idle
        BY <1>2, <1>3 DEF StaleRuns, Idle
  <1>5. \A n \in Managers \ {m} : SameRun(n)
    <2> SUFFICES ASSUME NEW n \in Managers \ {m} PROVE SameRun(n)
        OBVIOUS
    <2>1. ended[n] = run[n]
          BY <1>3
    <2>2. run'[n] = run[n] \/ run'[n] = [run[n] EXCEPT !.current = FALSE]
          BY <1>2, <2>1 DEF StaleRuns
    <2>3. CASE run[n] = Idle
      <3>1. ended[n] = Idle /\ Idle.phase = "idle"
            BY <2>1, <2>3 DEF Idle
      <3>2. StaleRuns(p, ended)[n] = Idle
            BY <3>1 DEF StaleRuns
      <3>3. run'[n] = Idle
            BY <1>2, <3>1, <3>2
      <3> QED  BY <2>3, <3>3 DEF SameRun
    <2>4. CASE IsRun(run[n])
          BY <2>2, <2>4 DEF SameRun, IsRun, RunFields
    <2> QED  BY <2>3, <2>4 DEF LoopInv, LoopOK
  <1> QED  BY <1>1, <1>2, <1>4, <1>5, RunEnds

-----------------------------------------------------------------------------
(* The cluster.                                                            *)

\* A policy that is written is about to be delivered, and one that is deleted
\* need not be remembered.
LEMMA PolicyStepKeepsLoopInv ==
  ASSUME LoopInv, NEW p \in Policies,
         DeletePolicy(p) \/ \E s \in Specs : EditPolicy(p, s)
  PROVE  LoopInv'
  <1> USE DEF LoopInv, LoopOK
  <1>1. /\ fresh' = [n \in Managers |-> fresh[n] \ {p}]
        /\ run' = StaleRuns(p, run)
        /\ UNCHANGED <<seen, queue, delayed>>
        BY DEF DeletePolicy, EditPolicy, Written
  <1>2. /\ specs' \in [Policies -> Seq(PolicySpec)]
        /\ \A q \in Policies : Len(specs'[q]) # 0
        /\ \A q \in Policies \ {p} : specs'[q] = specs[q]
        /\ deleted \subseteq deleted'
        /\ deleted' \subseteq deleted \cup {p}
    <2>1. CASE DeletePolicy(p)
          BY <2>1 DEF DeletePolicy, Generation
    <2>2. CASE \E s \in Specs : EditPolicy(p, s)
      <3> PICK s \in Specs : EditPolicy(p, s)
          BY <2>2
      <3>1. s \in PolicySpec /\ specs[p] \in Seq(PolicySpec)
            BY SpecsAssumption
      <3>2. Append(specs[p], s) \in Seq(PolicySpec) /\ Len(Append(specs[p], s)) # 0
            BY <3>1
      <3> QED  BY <3>2 DEF EditPolicy, Generation
    <2> QED  BY <2>1, <2>2
  <1>3. /\ run' = [n \in Managers |-> run'[n]]
        /\ \A n \in Managers : SameRun(n)
    <2>1. run' = [n \in Managers |-> run'[n]]
          BY <1>1 DEF StaleRuns
    <2> SUFFICES ASSUME NEW n \in Managers PROVE SameRun(n)
        BY <2>1
    <2>2. CASE run[n] = Idle
          BY <1>1, <2>2 DEF StaleRuns, SameRun, Idle
    <2>3. CASE IsRun(run[n])
          BY <1>1, <2>3 DEF StaleRuns, SameRun, IsRun, RunFields
    <2> QED  BY <2>2, <2>3
  <1>4. LoopOK'
    <2>1. \A n \in Managers : run'[n] = Idle \/ IsRun(run'[n])
          BY <1>3 DEF SameRun
    <2> QED  BY <1>1, <1>2, <1>3, <2>1 DEF Generation
  <1>5. FreshIsLatest'
        BY <1>1, <1>2 DEF FreshIsLatest, Generation
  <1>6. NeverForgotten'
    <2> SUFFICES ASSUME NEW n \in Managers, NEW q \in Policies \ deleted',
                        ~Latest(q)'.suspend, queue[n][q] = {},
                        q \notin delayed[n], q \in fresh'[n]
                 PROVE  run'[n].phase # "idle" /\ run'[n].policy = q
        BY <1>1 DEF NeverForgotten
    <2>1. q # p /\ q \in fresh[n] /\ q \notin deleted
          BY <1>1, <1>2
    <2>2. ~Latest(q).suspend
          BY <1>2, <2>1 DEF Latest, Generation
    <2>3. run[n].phase # "idle" /\ run[n].policy = q
          BY <2>1, <2>2 DEF NeverForgotten
    <2> QED  BY <1>3, <2>3 DEF SameRun, IsRun, Idle
  <1> QED  BY <1>4, <1>5, <1>6

\* What the loop does not notice.
LEMMA OutsideKeepsLoopInv ==
  ASSUME LoopInv, UNCHANGED <<specs, deleted, loopVars>>
  PROVE  LoopInv'
  <1>1. UNCHANGED <<specs, deleted, seen, fresh, queue, delayed, run>>
        BY DEF loopVars
  <1>2. run' = [n \in Managers |-> run'[n]] /\ \A n \in Managers : SameRun(n)
        BY <1>1 DEF LoopInv, LoopOK, SameRun
  <1> QED  BY <1>1, <1>2, RunsGoOn

-----------------------------------------------------------------------------
\* Every step of the system keeps the invariant.
LEMMA NextLoopInv == LoopInv /\ [SystemNext]_allVars => LoopInv'
  <1> SUFFICES ASSUME LoopInv, [SystemNext]_allVars PROVE LoopInv'
      OBVIOUS
  <1>1. ASSUME NEW m \in Managers, LoopStep(m) PROVE LoopInv'
    <2>1. CASE \E p \in Policies :
                  ReconcileNothing(m, p) \/ ReconcileInvalid(m, p) \/ ReconcileStart(m, p)
          BY <2>1, NothingKeepsLoopInv, InvalidKeepsLoopInv, StartKeepsLoopInv
    <2>2. CASE \/ \E pod \in Pod : EvaluateContainer(m, pod)
               \/ OpenPullRequests(m)
               \/ CallManager(m)
          BY <2>2, InnerStepKeepsLoopInv
    <2>3. CASE QueryFails(m) \/ BuildManagerFails(m) \/ UpdateConflicts(m)
      <3>1. run[m].phase # "idle" /\ Fail(m)
            BY <2>3 DEF QueryFails, BuildManagerFails, UpdateConflicts, Updating
      <3> QED  BY <3>1, FailKeepsLoopInv
    <2>4. CASE CallReturns(m)
          BY <2>4, CallReturnsKeepsLoopInv
    <2>5. CASE UpdateStatus(m) \/ UpdateReplyLost(m)
      <3>1. /\ run[m].phase # "idle" /\ WriteStatus(m)
            /\ delayed' = [delayed EXCEPT ![m] = @ \cup {run[m].policy}]
            /\ UNCHANGED <<specs, deleted, seen, queue>>
            BY <2>5 DEF UpdateStatus, UpdateReplyLost, Updating, Requeued, RateLimited
      <3> QED  BY <3>1, WriteKeepsLoopInv
    <2> QED  BY <1>1, <2>1, <2>2, <2>3, <2>4, <2>5 DEF LoopStep
  <1>2. ASSUME NEW m \in Managers, GitStep(m) PROVE LoopInv'
        BY <1>2, OutsideKeepsLoopInv DEF GitStep, clusterVars
  <1>3. ASSUME NEW m \in Managers, NEW p \in Policies, Deliver(m, p) \/ TimerFires(m, p)
        PROVE  LoopInv'
        BY <1>3, DeliverKeepsLoopInv, TimerKeepsLoopInv
  <1>4. CASE ClusterStep
    <2>1. CASE \E p \in Policies : DeletePolicy(p) \/ \E s \in Specs : EditPolicy(p, s)
          BY <2>1, PolicyStepKeepsLoopInv
    <2>2. CASE \/ \E pod \in Pod, value \in Drifts : UsageDrifts(pod, value)
               \/ \E w \in Workloads : Sync(w)
               \/ PersonStep /\ UNCHANGED <<clusterVars, loopVars>>
          BY <2>2, OutsideKeepsLoopInv DEF UsageDrifts, Sync, clusterVars
    <2> QED  BY <1>4, <2>1, <2>2 DEF ClusterStep
  <1>5. CASE UNCHANGED allVars
        BY <1>5, OutsideKeepsLoopInv DEF allVars, clusterVars
  <1> QED  BY <1>1, <1>2, <1>3, <1>4, <1>5, RestartKeepsLoopInv DEF SystemNext

\* The loop never loses a policy that is to be reconciled, whatever is edited,
\* fails, conflicts or restarts: Reconcile drops one only when the newest spec
\* is suspended (resourcepolicy_controller.go:80 and :87), and every other
\* return puts it back.
THEOREM LoopForgetsNothing == SystemSpec => []NeverForgotten
  <1>1. LoopInv => NeverForgotten
        BY DEF LoopInv
  <1> QED  BY <1>1, InitLoopInv, NextLoopInv, PTL DEF SystemSpec
=============================================================================
