---------------------------- MODULE GitOpsProofs ----------------------------
(***************************************************************************)
(* Proofs about GitOps for every set of managers, branches, files and      *)
(* calls and every set of faults: its types, the clean-up of clones, what  *)
(* success and a merge mean, and that it implements ReviewGate.            *)
(***************************************************************************)
EXTENDS GitOps, SequenceTheorems, TLAPS

-----------------------------------------------------------------------------
(* Manifests.                                                              *)

\* What patching returns is a manifest with the same containers.
LEMMA PatchedIsManifest ==
    ASSUME NEW manifest \in Manifest, NEW patch \in Patch
    PROVE  /\ ApplyDeploymentPatches(manifest, patch) \in Manifest
           /\ DOMAIN ApplyDeploymentPatches(manifest, patch).res = DOMAIN manifest.res
<1> DEFINE after == ApplyDeploymentPatches(manifest, patch)
<1>1. PICK D \in SUBSET Containers : manifest.res \in [D -> Values]
  BY DEF Manifest, PartialResources
<1>2. PICK E \in SUBSET Containers : patch \in [E -> Values]
  BY DEF Patch, PartialResources
<1>3. after.res \in [D -> Values]
  BY <1>1, <1>2 DEF ApplyDeploymentPatches
<1>4. after.res \in PartialResources
  BY <1>3 DEF PartialResources
<1>5. after \in Manifest
  BY <1>4 DEF Manifest, ApplyDeploymentPatches
<1>6. DOMAIN after.res = D /\ DOMAIN manifest.res = D
  BY <1>1, <1>3
<1> QED
  BY <1>5, <1>6

-----------------------------------------------------------------------------
(* Pull requests.                                                          *)

\* Rewriting pull requests in place keeps a sequence of as many.
LEMMA RewrittenPulls ==
    ASSUME NEW s \in Seq(Pull), NEW t, t \in [DOMAIN s -> Pull]
    PROVE  t \in Seq(Pull) /\ Len(t) = Len(s) /\ DOMAIN t = DOMAIN s
<1>1. DOMAIN s = 1..Len(s) /\ Len(s) \in Nat
  BY LenProperties
<1> QED
  BY <1>1, SeqDef, LenProperties

\* Appending one keeps the earlier ones at their numbers.
LEMMA AppendedPull ==
    ASSUME NEW s \in Seq(Pull), NEW pull \in Pull
    PROVE  LET t == Append(s, pull) IN
           /\ t \in Seq(Pull)
           /\ DOMAIN t = DOMAIN s \cup {Len(s) + 1}
           /\ Len(s) + 1 \notin DOMAIN s
           /\ \A n \in DOMAIN s : t[n] = s[n]
           /\ t[Len(s) + 1] = pull
<1>1. DOMAIN s = 1..Len(s) /\ Len(s) \in Nat
  BY LenProperties
<1>2. Append(s, pull) \in Seq(Pull) /\ Len(Append(s, pull)) = Len(s) + 1
  BY AppendProperties
<1>3. DOMAIN Append(s, pull) = 1..(Len(s) + 1)
  BY <1>2, LenProperties
<1> QED
  BY <1>1, <1>2, <1>3, AppendProperties

-----------------------------------------------------------------------------
(* Types.                                                                  *)

Steps == {"idle", "prepare", "push", "create", "label", "returned"}

RemoteOK ==
    /\ main \in Tree
    /\ log \in Seq(Branches \cup {Person})
    /\ branches \in [Branches -> Commit \cup {NoCommit}]
    /\ pulls \in Seq(Pull)

ManagersOK ==
    /\ step \in [Managers -> Steps]
    /\ call \in [Managers -> Call \cup {NoCall}]
    /\ clones \in [Managers -> SUBSET {"running", "ended"}]
    /\ worktree \in [Managers -> Commit \cup {NoCommit}]
    /\ result \in [Managers -> Outcome]
    /\ \A m \in Managers : /\ step[m] = "idle" <=> call[m] = NoCall
                           /\ result[m].number \in {0} \cup DOMAIN pulls

\* TypeOK is the type of the remote and the type of the managers.
LEMMA TypeParts == TypeOK <=> RemoteOK /\ ManagersOK
BY DEF TypeOK, RemoteOK, ManagersOK, Steps

\* Pull requests are never renumbered, so a manager that does nothing keeps
\* its type.
LEMMA OthersOK ==
    ASSUME ManagersOK, UNCHANGED managerVars, DOMAIN pulls \subseteq DOMAIN pulls'
    PROVE  ManagersOK'
BY DEF ManagersOK, managerVars

\* A return keeps the managers' type when it reports a pull request that is
\* there, or none.
LEMMA ReturnOK ==
    ASSUME ManagersOK, NEW m \in Managers, step[m] # "idle",
           NEW err \in ErrorKinds, NEW number \in Nat,
           Ends(m, err, number), Discard(m) \/ Cleanup(m),
           DOMAIN pulls \subseteq DOMAIN pulls', number \in {0} \cup DOMAIN pulls'
    PROVE  ManagersOK'
<1>1. /\ step' = [step EXCEPT ![m] = "returned"]
      /\ result' = [result EXCEPT ![m] = [err |-> err, number |-> number]]
      /\ worktree' = [worktree EXCEPT ![m] = NoCommit]
      /\ call' = call
      /\ clones' = [clones EXCEPT ![m] = @ \ {"running"}]
  BY DEF Ends, Discard, Cleanup
<1>2. [err |-> err, number |-> number] \in Outcome
  BY DEF Outcome
<1>3. clones' \in [Managers -> SUBSET {"running", "ended"}]
  BY <1>1 DEF ManagersOK
<1> QED
  BY <1>1, <1>2, <1>3 DEF ManagersOK, Steps

\* Going on to another step of the call keeps it too.
LEMMA ProceedOK ==
    ASSUME ManagersOK, NEW m \in Managers, step[m] # "idle",
           NEW next \in Steps \ {"idle"},
           Proceed(m, next), DOMAIN pulls \subseteq DOMAIN pulls'
    PROVE  ManagersOK'
BY DEF ManagersOK, Proceed, Steps

\* So does forgetting the call.
LEMMA ForgetOK ==
    ASSUME ManagersOK, NEW m \in Managers, Forget(m),
           \/ UNCHANGED clones
           \/ clones' = [clones EXCEPT ![m] = IF @ = {} THEN {} ELSE {"ended"}]
    PROVE  ManagersOK'
<1>1. NoOutcome \in Outcome /\ NoOutcome.number = 0
  BY DEF NoOutcome, Outcome, ErrorKinds
<1>2. UNCHANGED pulls
  BY DEF Forget, remoteVars
<1>3. clones' \in [Managers -> SUBSET {"running", "ended"}]
  BY DEF ManagersOK
<1> QED
  BY <1>1, <1>2, <1>3 DEF ManagersOK, Forget, Steps

\* The errors a call can return are error kinds.
LEMMA ErrorsAreKinds ==
    /\ nil \in ErrorKinds
    /\ <<"pushing branch">> \in ErrorKinds
    /\ <<"opening pull request">> \in ErrorKinds
    /\ Wrapped("preparing branch", <<"temporary directory">>) \in ErrorKinds
    /\ Wrapped("preparing branch", <<"cloning">>) \in ErrorKinds
    /\ Wrapped("preparing branch", <<"manifest">>) \in ErrorKinds
    /\ Wrapped("preparing branch", ErrNoChanges) \in ErrorKinds
BY DEF ErrorKinds

\* The commit PrepareBranch makes is a commit.
LEMMA PreparedIsCommit ==
    ASSUME RemoteOK, NEW c \in Call, Patchable(c)
    PROVE  Prepared(c) \in Commit
<1>1. c.file \in Files /\ c.patch \in Patch
  BY DEF Call
<1>2. main[c.file] \in Manifest
  BY <1>1 DEF RemoteOK, Tree, Patchable
<1>3. ApplyDeploymentPatches(main[c.file], c.patch) \in Manifest
  BY <1>1, <1>2, PatchedIsManifest
<1>4. Len(log) \in Nat
  BY LenProperties DEF RemoteOK
<1> QED
  BY <1>1, <1>2, <1>3, <1>4 DEF Prepared, Commit

\* Creating a pull request keeps the earlier ones and adds an open one.
LEMMA CreatedPull ==
    ASSUME RemoteOK, NEW m \in Managers, call[m] \in Call, CreatePull(m)
    PROVE  /\ pulls' \in Seq(Pull)
           /\ DOMAIN pulls' = DOMAIN pulls \cup {Len(pulls) + 1}
           /\ Len(pulls) + 1 \in Nat /\ Len(pulls) + 1 \notin DOMAIN pulls
           /\ \A n \in DOMAIN pulls : pulls'[n] = pulls[n]
           /\ pulls'[Len(pulls) + 1].head = call[m].branch
           /\ pulls'[Len(pulls) + 1].body = call[m].patch
           /\ pulls'[Len(pulls) + 1].state = "open"
<1> DEFINE pull == [head |-> call[m].branch, body |-> call[m].patch,
                    labelled |-> FALSE, state |-> "open"]
<1>1. pull \in Pull
  BY DEF Pull, Call
<1>2. pulls' = Append(pulls, pull)
  BY DEF CreatePull
<1>3. Len(pulls) + 1 \in Nat
  BY LenProperties DEF RemoteOK
<1> HIDE DEF pull
<1>4. /\ pulls' \in Seq(Pull)
      /\ DOMAIN pulls' = DOMAIN pulls \cup {Len(pulls) + 1}
      /\ Len(pulls) + 1 \notin DOMAIN pulls
      /\ \A n \in DOMAIN pulls : pulls'[n] = pulls[n]
      /\ pulls'[Len(pulls) + 1] = pull
  BY <1>1, <1>2, AppendedPull DEF RemoteOK
<1>5. pull.head = call[m].branch /\ pull.body = call[m].patch /\ pull.state = "open"
  BY DEF pull
<1> QED
  BY <1>3, <1>4, <1>5

\* A pull request has a branch for a head.
LEMMA PullTypes ==
    ASSUME RemoteOK, NEW n \in DOMAIN pulls
    PROVE  pulls[n] \in Pull /\ pulls[n].head \in Branches
<1>1. pulls[n] \in Pull
  BY LenProperties DEF RemoteOK
<1> QED
  BY <1>1 DEF Pull

\* Labelling one pull request, or deciding one, changes that field of it.
LEMMA LabelledPull ==
    ASSUME RemoteOK, NEW n \in DOMAIN pulls, LabelPull(n)
    PROVE  /\ pulls' \in Seq(Pull) /\ DOMAIN pulls' = DOMAIN pulls
           /\ \A k \in DOMAIN pulls :
                 /\ pulls'[k].head = pulls[k].head /\ pulls'[k].body = pulls[k].body
                 /\ pulls'[k].state = pulls[k].state
                 /\ pulls'[k].labelled <=> pulls[k].labelled \/ k = n
<1>1. \A k \in DOMAIN pulls : pulls[k] \in Pull
  BY LenProperties DEF RemoteOK
<1>2. pulls' \in [DOMAIN pulls -> Pull]
  BY <1>1 DEF LabelPull, Pull
<1>3. \A k \in DOMAIN pulls :
         /\ pulls'[k].head = pulls[k].head /\ pulls'[k].body = pulls[k].body
         /\ pulls'[k].state = pulls[k].state
         /\ pulls'[k].labelled <=> pulls[k].labelled \/ k = n
  BY <1>1 DEF LabelPull, Pull
<1> QED
  BY <1>2, <1>3, RewrittenPulls DEF RemoteOK

LEMMA DecidedPull ==
    ASSUME RemoteOK, NEW n \in DOMAIN pulls, NEW state \in {"merged", "closed"},
           Decide(n, state)
    PROVE  /\ pulls' \in Seq(Pull) /\ DOMAIN pulls' = DOMAIN pulls
           /\ \A k \in DOMAIN pulls :
                 /\ pulls'[k].head = pulls[k].head /\ pulls'[k].body = pulls[k].body
                 /\ pulls'[k].labelled = pulls[k].labelled
                 /\ pulls'[k].state = IF k = n THEN state ELSE pulls[k].state
<1>1. \A k \in DOMAIN pulls : pulls[k] \in Pull
  BY LenProperties DEF RemoteOK
<1>2. pulls' \in [DOMAIN pulls -> Pull]
  BY <1>1 DEF Decide, Pull
<1>3. \A k \in DOMAIN pulls :
         /\ pulls'[k].head = pulls[k].head /\ pulls'[k].body = pulls[k].body
         /\ pulls'[k].labelled = pulls[k].labelled
         /\ pulls'[k].state = IF k = n THEN state ELSE pulls[k].state
  BY <1>1 DEF Decide, Pull
<1> QED
  BY <1>2, <1>3, RewrittenPulls DEF RemoteOK

\* Deleting a branch closes what is open for it and touches no other pull.
LEMMA ClosedPulls ==
    ASSUME RemoteOK, NEW b \in Branches, DeleteBranch(b)
    PROVE  /\ pulls' \in Seq(Pull) /\ DOMAIN pulls' = DOMAIN pulls
           /\ \A k \in DOMAIN pulls :
                 /\ pulls'[k].head = pulls[k].head /\ pulls'[k].body = pulls[k].body
                 /\ pulls'[k].labelled = pulls[k].labelled
                 /\ pulls'[k].state =
                       IF k \in OpenPulls(b) THEN "closed" ELSE pulls[k].state
<1>1. \A k \in DOMAIN pulls : pulls[k] \in Pull
  BY LenProperties DEF RemoteOK
<1>2. pulls' \in [DOMAIN pulls -> Pull]
  BY <1>1 DEF DeleteBranch, Pull
<1>3. \A k \in DOMAIN pulls :
         /\ pulls'[k].head = pulls[k].head /\ pulls'[k].body = pulls[k].body
         /\ pulls'[k].labelled = pulls[k].labelled
         /\ pulls'[k].state = IF k \in OpenPulls(b) THEN "closed" ELSE pulls[k].state
  BY <1>1 DEF DeleteBranch, Pull
<1> QED
  BY <1>2, <1>3, RewrittenPulls DEF RemoteOK

-----------------------------------------------------------------------------
(* The inductive invariant.                                                *)

\* A call holds a commit from the end of PrepareBranch until it returns.
CommitHeld ==
    \A m \in Managers :
        worktree[m] # NoCommit <=> step[m] \in {"push", "create", "label"}

\* An open pull request is the only one of its branch, and the branch is there:
\* the forge sees to both, whatever the processes send it.
OnePullPerBranch ==
    \A n \in DOMAIN pulls : pulls[n].state = "open" =>
        /\ branches[pulls[n].head] # NoCommit
        /\ OpenPulls(pulls[n].head) = {n}

\* A call about to label holds the number of the pull request it created.
LabelsItsOwn ==
    \A m \in Managers : step[m] = "label" =>
        /\ result[m].number \in DOMAIN pulls
        /\ pulls[result[m].number].head = call[m].branch
        /\ pulls[result[m].number].body = call[m].patch

IndInv ==
    /\ RemoteOK
    /\ ManagersOK
    /\ WorktreeReclaimed
    /\ CommitHeld
    /\ OnePullPerBranch
    /\ LabelsItsOwn
    /\ OkMeansProposed

\* What a call under way holds.
LEMMA UnderWay ==
    ASSUME IndInv, NEW m \in Managers, step[m] # "idle"
    PROVE  /\ call[m] \in Call /\ call[m].branch \in Branches /\ call[m].patch \in Patch
           /\ step[m] = "push" => worktree[m] \in Commit
BY DEF IndInv, ManagersOK, CommitHeld, Call

LEMMA InitInv == Init => IndInv
<1> SUFFICES ASSUME Init PROVE IndInv
  OBVIOUS
<1>1. pulls \in Seq(Pull) /\ log \in Seq(Branches \cup {Person}) /\ DOMAIN pulls = {}
  BY EmptySeq, LenProperties DEF Init
<1>2. RemoteOK
  BY <1>1, TreesAssumption DEF Init, RemoteOK
<1>3. NoOutcome \in Outcome /\ NoOutcome.number = 0
  BY DEF NoOutcome, Outcome, ErrorKinds
<1>4. ManagersOK
  BY <1>1, <1>3 DEF Init, ManagersOK, Steps
<1> QED
  BY <1>1, <1>2, <1>4 DEF Init, IndInv, WorktreeReclaimed, CommitHeld, OnePullPerBranch,
     LabelsItsOwn, OkMeansProposed

\* A merge makes a tree of a tree.
LEMMA MergedIsTree ==
    ASSUME NEW files \in Tree, NEW commit \in Commit, MergesCleanly(files, commit)
    PROVE  Merged(files, commit) \in Tree
<1> DEFINE ours == files[commit.file]
           res == [c \in DOMAIN ours.res |->
                      IF c \in ChangedBy(commit) THEN commit.to.res[c] ELSE ours.res[c]]
           file == [canonical |-> IF ours.canonical = commit.from.canonical
                                  THEN commit.to.canonical ELSE ours.canonical,
                    res |-> res]
<1>1. /\ commit.file \in Files /\ ours \in Manifest
      /\ commit.from \in Manifest /\ commit.to \in Manifest
  BY DEF Commit, Tree, MergesCleanly
<1>2. PICK D \in SUBSET Containers : ours.res \in [D -> Values]
  BY <1>1 DEF Manifest, PartialResources
<1>3. PICK E \in SUBSET Containers : commit.to.res \in [E -> Values]
  BY <1>1 DEF Manifest, PartialResources
<1>4. ChangedBy(commit) \subseteq E
  BY <1>3 DEF ChangedBy
<1>5. res \in [D -> Values]
  BY <1>2, <1>3, <1>4
<1>6. res \in PartialResources
  BY <1>5 DEF PartialResources
<1>7. /\ ours.canonical \in BOOLEAN /\ commit.to.canonical \in BOOLEAN
  BY <1>1 DEF Manifest
<1> HIDE DEF res, ours
<1>8. file \in Manifest
  BY <1>6, <1>7 DEF Manifest
<1>9. Merged(files, commit) = [files EXCEPT ![commit.file] = file]
  BY DEF Merged, res, ours
<1> HIDE DEF file
<1> QED
  BY <1>1, <1>8, <1>9 DEF Tree

\* The remote keeps its type.
LEMMA RemoteStep ==
    ASSUME IndInv, Next PROVE RemoteOK'
<1> USE DEF IndInv
<1>1. CASE UNCHANGED remoteVars
  BY <1>1 DEF remoteVars, RemoteOK
<1>2. ASSUME NEW m \in Managers, step[m] = "push", UpdateRef(m), UNCHANGED <<main, log, pulls>>
      PROVE  RemoteOK'
  BY <1>2, UnderWay DEF UpdateRef, RemoteOK
<1>3. ASSUME NEW m \in Managers, step[m] = "create", CreatePull(m),
             UNCHANGED <<main, log, branches>>
      PROVE  RemoteOK'
  BY <1>3, UnderWay, CreatedPull DEF RemoteOK
<1>4. ASSUME NEW m \in Managers, step[m] = "label", LabelPull(result[m].number),
             UNCHANGED <<main, log, branches>>
      PROVE  RemoteOK'
  BY <1>4, LabelledPull DEF RemoteOK, LabelsItsOwn
<1>5. ASSUME NEW n \in DOMAIN pulls, MergePull(n) PROVE RemoteOK'
  <2>1. pulls' \in Seq(Pull)
    BY <1>5, DecidedPull DEF MergePull
  <2>2. pulls[n].head \in Branches /\ branches[pulls[n].head] \in Commit
    BY <1>5, PullTypes DEF MergePull, RemoteOK, OnePullPerBranch
  <2>3. main' \in Tree
    BY <1>5, <2>2, MergedIsTree DEF MergePull, RemoteOK
  <2>4. log' \in Seq(Branches \cup {Person})
    BY <1>5, <2>2, AppendProperties DEF MergePull, RemoteOK
  <2> QED
    BY <1>5, <2>1, <2>3, <2>4 DEF MergePull, RemoteOK
<1>6. ASSUME NEW n \in DOMAIN pulls, ClosePull(n) PROVE RemoteOK'
  BY <1>6, DecidedPull DEF ClosePull, RemoteOK
<1>7. ASSUME NEW b \in Branches, DeleteBranch(b) PROVE RemoteOK'
  <2>1. pulls' \in Seq(Pull)
    BY <1>7, ClosedPulls
  <2> QED
    BY <1>7, <2>1 DEF DeleteBranch, RemoteOK
<1>8. ASSUME NEW f \in Files, NEW manifest \in Edits, CommitToMain(f, manifest)
      PROVE  RemoteOK'
  <2>1. main' \in Tree
    BY <1>8, TreesAssumption DEF CommitToMain, Tree, RemoteOK
  <2>2. log' \in Seq(Branches \cup {Person})
    BY <1>8, AppendProperties DEF CommitToMain, RemoteOK
  <2> QED
    BY <1>8, <2>1, <2>2 DEF CommitToMain, RemoteOK
<1> QED
  BY <1>1, <1>2, <1>3, <1>4, <1>5, <1>6, <1>7, <1>8 DEF Next, Begin, CallStep, PersonStep,
     OpenRecommendationPR, CloneFails, PatchFails, NothingToCommit, PrepareBranch, Push,
     PushUpToDate, PushFails, PushReplyLost, OpenPullRequest, CreateFails,
     CreateReplyLost, AddLabels, LabelFails, Resume, Crash, Forget, remoteVars

\* The temporary directories and the commits in them are where they should be.
DiskOK == WorktreeReclaimed /\ CommitHeld

\* The managers keep their type and their disks.
LEMMA ManagersStep ==
    ASSUME IndInv, Next PROVE ManagersOK' /\ DiskOK'
<1> USE DEF IndInv
<1>a. DiskOK
  BY DEF DiskOK
<1>1. ASSUME UNCHANGED managerVars, DOMAIN pulls \subseteq DOMAIN pulls'
      PROVE  ManagersOK' /\ DiskOK'
  BY <1>a, <1>1, OthersOK DEF DiskOK, WorktreeReclaimed, CommitHeld, managerVars
<1>2. ASSUME NEW m \in Managers, step[m] # "idle", NEW err \in ErrorKinds, NEW number \in Nat,
             Ends(m, err, number), Discard(m) \/ Cleanup(m), DOMAIN pulls \subseteq DOMAIN pulls',
             number \in {0} \cup DOMAIN pulls'
      PROVE  ManagersOK' /\ DiskOK'
  <2>1. ManagersOK'
    BY <1>2, ReturnOK
  <2>2. /\ step' = [step EXCEPT ![m] = "returned"]
        /\ worktree' = [worktree EXCEPT ![m] = NoCommit]
        /\ clones' = [clones EXCEPT ![m] = @ \ {"running"}]
    BY <1>2 DEF Ends, Discard, Cleanup
  <2> QED
    BY <1>a, <2>1, <2>2 DEF DiskOK, WorktreeReclaimed, CommitHeld, ManagersOK
<1>3. ASSUME NEW m \in Managers, step[m] = "push", Proceed(m, "create"), UNCHANGED pulls
      PROVE  ManagersOK' /\ DiskOK'
  BY <1>a, <1>3, ProceedOK DEF DiskOK, WorktreeReclaimed, CommitHeld, Proceed, ManagersOK, Steps
<1>4. ASSUME NEW m \in Managers, Resume(m) \/ Crash(m) PROVE ManagersOK' /\ DiskOK'
  <2>1. ManagersOK'
    BY <1>4, ForgetOK DEF Resume, Crash
  <2>2. CASE Resume(m)
    BY <1>a, <2>1, <2>2 DEF Resume, Forget, DiskOK, WorktreeReclaimed, CommitHeld, ManagersOK
  <2>3. CASE Crash(m)
    BY <1>a, <2>1, <2>3 DEF Crash, Forget, DiskOK, WorktreeReclaimed, CommitHeld, ManagersOK
  <2> QED
    BY <1>4, <2>2, <2>3
<1>5. ASSUME NEW m \in Managers, NEW c \in Calls, OpenRecommendationPR(m, c)
      PROVE  ManagersOK' /\ DiskOK'
  <2>1. /\ step[m] = "idle" /\ call' = [call EXCEPT ![m] = c] /\ c \in Call
        /\ UNCHANGED <<worktree, pulls>>
    BY <1>5, CallsAssumption DEF OpenRecommendationPR, remoteVars
  <2>2. CASE /\ step' = [step EXCEPT ![m] = "prepare"]
             /\ clones' = [clones EXCEPT ![m] = @ \cup {"running"}]
             /\ UNCHANGED result
    <3>1. clones' \in [Managers -> SUBSET {"running", "ended"}]
      BY <2>2 DEF ManagersOK
    <3>2. ManagersOK'
      BY <2>1, <2>2, <3>1, NullsAssumption DEF ManagersOK, Steps
    <3>3. DiskOK'
      BY <1>a, <2>1, <2>2 DEF DiskOK, WorktreeReclaimed, CommitHeld, ManagersOK
    <3> QED
      BY <3>2, <3>3
  <2>3. CASE /\ step' = [step EXCEPT ![m] = "returned"]
             /\ result' = [result EXCEPT ![m] =
                   [err |-> Wrapped("preparing branch", <<"temporary directory">>), number |-> 0]]
             /\ UNCHANGED clones
    <3>1. ManagersOK'
      BY <2>1, <2>3, ErrorsAreKinds, NullsAssumption DEF ManagersOK, Steps, Outcome
    <3>2. DiskOK'
      BY <1>a, <2>1, <2>3 DEF DiskOK, WorktreeReclaimed, CommitHeld, ManagersOK
    <3> QED
      BY <3>1, <3>2
  <2> QED
    BY <1>5, <2>2, <2>3 DEF OpenRecommendationPR
<1>6. ASSUME NEW m \in Managers, PrepareBranch(m) PROVE ManagersOK' /\ DiskOK'
  <2>1. Prepared(call[m]) \in Commit
    BY <1>6, UnderWay, PreparedIsCommit DEF PrepareBranch
  <2> QED
    BY <1>a, <1>6, <2>1, NullsAssumption
    DEF PrepareBranch, ManagersOK, Steps, DiskOK, WorktreeReclaimed, CommitHeld, remoteVars
<1>7. ASSUME NEW m \in Managers, OpenPullRequest(m) PROVE ManagersOK' /\ DiskOK'
  <2>1. /\ DOMAIN pulls' = DOMAIN pulls \cup {Len(pulls) + 1}
        /\ Len(pulls) + 1 \in Nat
    BY <1>7, UnderWay, CreatedPull DEF OpenPullRequest
  <2>2. CASE call[m].labels
    <3>1. /\ step' = [step EXCEPT ![m] = "label"] /\ step[m] = "create"
          /\ result' = [result EXCEPT ![m].number = Len(pulls) + 1]
          /\ call' = call /\ worktree' = worktree /\ clones' = clones
      BY <1>7, <2>2 DEF OpenPullRequest
    <3>2. result' \in [Managers -> Outcome]
      BY <2>1, <3>1 DEF ManagersOK, Outcome
    <3>3. \A k \in Managers : result'[k].number \in {0} \cup DOMAIN pulls'
      BY <2>1, <3>1 DEF ManagersOK, Outcome
    <3>4. step' \in [Managers -> Steps] /\ DiskOK'
      BY <1>a, <3>1 DEF ManagersOK, Steps, DiskOK, WorktreeReclaimed, CommitHeld
    <3>5. \A k \in Managers : step'[k] = "idle" <=> call'[k] = NoCall
      BY <3>1 DEF ManagersOK, Steps
    <3> QED
      BY <3>1, <3>2, <3>3, <3>4, <3>5 DEF ManagersOK
  <2>3. CASE ~call[m].labels
    BY <1>7, <2>1, <2>3, <1>2, ErrorsAreKinds DEF OpenPullRequest, Return
  <2> QED
    BY <2>2, <2>3
<1>8. ASSUME NEW m \in Managers, CreateReplyLost(m) PROVE ManagersOK' /\ DiskOK'
  <2>1. DOMAIN pulls' = DOMAIN pulls \cup {Len(pulls) + 1}
    BY <1>8, UnderWay, CreatedPull DEF CreateReplyLost
  <2> QED
    BY <1>8, <2>1, <1>2, ErrorsAreKinds DEF CreateReplyLost, Return
<1>9. ASSUME NEW m \in Managers, AddLabels(m) \/ LabelFails(m)
      PROVE  ManagersOK' /\ DiskOK'
  <2>1. result[m].number \in DOMAIN pulls /\ result[m].number \in Nat
    BY <1>9 DEF AddLabels, LabelFails, LabelsItsOwn, ManagersOK, Outcome
  <2>2. DOMAIN pulls' = DOMAIN pulls
    BY <1>9, <2>1, LabelledPull DEF AddLabels, LabelFails
  <2> QED
    BY <1>9, <2>1, <2>2, <1>2, ErrorsAreKinds DEF AddLabels, LabelFails, Return
<1>10. ASSUME NEW m \in Managers,
              CloneFails(m) \/ PatchFails(m) \/ NothingToCommit(m) \/ PushFails(m)
                \/ PushReplyLost(m) \/ CreateFails(m)
       PROVE  ManagersOK' /\ DiskOK'
  <2>1. step[m] # "idle" /\ UNCHANGED pulls
    BY <1>10 DEF CloneFails, PatchFails, NothingToCommit, PushFails, PushReplyLost,
       CreateFails, remoteVars
  <2> QED
    BY <1>10, <2>1, <1>2, ErrorsAreKinds DEF CloneFails, PatchFails, NothingToCommit,
       PushFails, PushReplyLost, CreateFails, PrepareFails, Return
<1>11. ASSUME NEW m \in Managers, Push(m) \/ PushUpToDate(m)
       PROVE  ManagersOK' /\ DiskOK'
  BY <1>11, <1>3 DEF Push, PushUpToDate, remoteVars
<1>12. ASSUME PersonStep PROVE ManagersOK' /\ DiskOK'
  <2>1. DOMAIN pulls' = DOMAIN pulls
    BY <1>12, DecidedPull, ClosedPulls
    DEF PersonStep, MergePull, ClosePull, CommitToMain
  <2>2. UNCHANGED managerVars
    BY <1>12 DEF PersonStep, MergePull, ClosePull, DeleteBranch, CommitToMain
  <2> QED
    BY <2>1, <2>2, <1>1
<1> QED
  BY <1>4, <1>5, <1>6, <1>7, <1>8, <1>9, <1>10, <1>11, <1>12
  DEF Next, Begin, CallStep

\* OnePullPerBranch as a statement about any pulls and any branches.
Single(ps, bs) ==
    \A n \in DOMAIN ps : ps[n].state = "open" =>
        /\ bs[ps[n].head] # NoCommit
        /\ \A k \in DOMAIN ps : ps[k].state = "open" /\ ps[k].head = ps[n].head => k = n

LEMMA OnePullIsSingle ==
    /\ OnePullPerBranch <=> Single(pulls, branches)
    /\ OnePullPerBranch' <=> Single(pulls', branches')
BY DEF OnePullPerBranch, OpenPulls, Single

\* Pull requests stay one to a branch when none of them changes its head or
\* opens again and no branch of an open one goes away.
LEMMA NoneOpened ==
    ASSUME NEW ps, NEW bs, NEW qs, NEW cs, Single(ps, bs), DOMAIN qs = DOMAIN ps,
           \A n \in DOMAIN ps :
              /\ qs[n].head = ps[n].head
              /\ qs[n].state = "open" => ps[n].state = "open" /\ cs[ps[n].head] # NoCommit
    PROVE  Single(qs, cs)
BY DEF Single

\* A pull request created for a branch without an open one is its only one.
LEMMA OneOpened ==
    ASSUME RemoteOK, OnePullPerBranch, NEW m \in Managers, call[m] \in Call,
           CreatePull(m), UNCHANGED branches
    PROVE  OnePullPerBranch'
<1> DEFINE next == Len(pulls) + 1
           b == call[m].branch
<1>1. /\ DOMAIN pulls' = DOMAIN pulls \cup {next}
      /\ next \notin DOMAIN pulls
      /\ \A n \in DOMAIN pulls : pulls'[n] = pulls[n]
  BY CreatedPull
<1>2. pulls'[next].head = b
  BY CreatedPull
<1>3. branches'[b] # NoCommit
  BY DEF CreatePull, ForgeAccepts
<1>4. \A n \in DOMAIN pulls : pulls[n].state = "open" => pulls[n].head # b
  BY DEF CreatePull, ForgeAccepts, OpenPulls
<1>5. Single(pulls, branches)
  BY OnePullIsSingle
<1> HIDE DEF next, b
<1>6. Single(pulls', branches')
  BY <1>1, <1>2, <1>3, <1>4, <1>5 DEF Single
<1> QED
  BY <1>6, OnePullIsSingle

LEMMA OnePullStep ==
    ASSUME IndInv, Next PROVE OnePullPerBranch'
<1> USE DEF IndInv
<1>1. CASE UNCHANGED remoteVars
  BY <1>1 DEF remoteVars, OnePullPerBranch, OpenPulls
<1>2. ASSUME NEW m \in Managers, step[m] = "push", UpdateRef(m), UNCHANGED pulls
      PROVE  OnePullPerBranch'
  <2>1. worktree[m] # NoCommit
    BY <1>2 DEF CommitHeld
  <2>2. \A n \in DOMAIN pulls : pulls[n].head \in Branches
    BY PullTypes
  <2> QED
    BY <1>2, <2>1, <2>2, OnePullIsSingle DEF UpdateRef, RemoteOK, Single
<1>3. ASSUME NEW m \in Managers, step[m] = "create", CreatePull(m), UNCHANGED branches
      PROVE  OnePullPerBranch'
  BY <1>3, UnderWay, OneOpened
<1>4. ASSUME NEW m \in Managers, step[m] = "label", LabelPull(result[m].number),
             UNCHANGED branches
      PROVE  OnePullPerBranch'
  <2>1. /\ DOMAIN pulls' = DOMAIN pulls
        /\ \A k \in DOMAIN pulls :
              pulls'[k].head = pulls[k].head /\ pulls'[k].state = pulls[k].state
    BY <1>4, LabelledPull DEF LabelsItsOwn
  <2>2. \A k \in DOMAIN pulls :
           pulls[k].state = "open" => branches'[pulls[k].head] # NoCommit
    BY <1>4 DEF OnePullPerBranch
  <2> QED
    BY <2>1, <2>2, NoneOpened, OnePullIsSingle
<1>5. ASSUME NEW n \in DOMAIN pulls, NEW state \in {"merged", "closed"}, Decide(n, state),
             UNCHANGED branches
      PROVE  OnePullPerBranch'
  <2>1. /\ DOMAIN pulls' = DOMAIN pulls
        /\ \A k \in DOMAIN pulls :
              /\ pulls'[k].head = pulls[k].head
              /\ pulls'[k].state = "open" => pulls[k].state = "open"
    BY <1>5, DecidedPull
  <2>2. \A k \in DOMAIN pulls :
           pulls[k].state = "open" => branches'[pulls[k].head] # NoCommit
    BY <1>5 DEF OnePullPerBranch
  <2> QED
    BY <2>1, <2>2, NoneOpened, OnePullIsSingle
<1>6. ASSUME NEW b \in Branches, DeleteBranch(b) PROVE OnePullPerBranch'
  <2>1. /\ DOMAIN pulls' = DOMAIN pulls
        /\ \A k \in DOMAIN pulls :
              /\ pulls'[k].head = pulls[k].head
              /\ pulls'[k].state = "open" => pulls[k].state = "open" /\ pulls[k].head # b
    BY <1>6, ClosedPulls DEF OpenPulls
  <2>2. \A k \in DOMAIN pulls :
           pulls[k].head # b => branches'[pulls[k].head] = branches[pulls[k].head]
    BY <1>6, PullTypes DEF DeleteBranch, RemoteOK
  <2>3. \A k \in DOMAIN pulls :
           pulls[k].state = "open" => branches[pulls[k].head] # NoCommit
    BY DEF OnePullPerBranch
  <2> QED
    BY <2>1, <2>2, <2>3, NoneOpened, OnePullIsSingle
<1>7. ASSUME UNCHANGED <<branches, pulls>> PROVE OnePullPerBranch'
  BY <1>7 DEF OnePullPerBranch, OpenPulls
<1> QED
  BY <1>1, <1>2, <1>3, <1>4, <1>5, <1>6, <1>7 DEF Next, Begin, CallStep, PersonStep,
     OpenRecommendationPR, CloneFails, PatchFails, NothingToCommit, PrepareBranch, Push,
     PushUpToDate, PushFails, PushReplyLost, OpenPullRequest, CreateFails,
     CreateReplyLost, AddLabels, LabelFails, Resume, Crash, Forget, MergePull, ClosePull,
     CommitToMain, remoteVars

\* A pull request keeps its number, head and body for ever, and its labels.
LEMMA PullsOnlyGrow ==
    ASSUME IndInv, Next
    PROVE  \A n \in DOMAIN pulls :
              /\ n \in DOMAIN pulls'
              /\ pulls'[n].head = pulls[n].head /\ pulls'[n].body = pulls[n].body
              /\ pulls[n].labelled => pulls'[n].labelled
<1> USE DEF IndInv
<1> DEFINE Grown == \A n \in DOMAIN pulls :
              /\ n \in DOMAIN pulls'
              /\ pulls'[n].head = pulls[n].head /\ pulls'[n].body = pulls[n].body
              /\ pulls[n].labelled => pulls'[n].labelled
<1>1. CASE UNCHANGED pulls
  BY <1>1
<1>2. ASSUME NEW m \in Managers, step[m] = "create", CreatePull(m) PROVE Grown
  BY <1>2, UnderWay, CreatedPull
<1>3. ASSUME NEW m \in Managers, step[m] = "label", LabelPull(result[m].number) PROVE Grown
  BY <1>3, LabelledPull DEF LabelsItsOwn
<1>4. ASSUME NEW n \in DOMAIN pulls, NEW state \in {"merged", "closed"}, Decide(n, state)
      PROVE  Grown
  BY <1>4, DecidedPull
<1>5. ASSUME NEW b \in Branches, DeleteBranch(b) PROVE Grown
  BY <1>5, ClosedPulls
<1> QED
  BY <1>1, <1>2, <1>3, <1>4, <1>5 DEF Next, Begin, CallStep, PersonStep,
     OpenRecommendationPR, CloneFails, PatchFails, NothingToCommit, PrepareBranch, Push,
     PushUpToDate, PushFails, PushReplyLost, OpenPullRequest, CreateFails,
     CreateReplyLost, AddLabels, LabelFails, Resume, Crash, Forget, MergePull, ClosePull,
     CommitToMain, remoteVars

\* A wrapped error is an error.
LEMMA WrappedIsNotNil ==
    /\ Wrapped("preparing branch", <<"temporary directory">>) # nil
    /\ Wrapped("preparing branch", <<"cloning">>) # nil
    /\ Wrapped("preparing branch", <<"manifest">>) # nil
    /\ Wrapped("preparing branch", ErrNoChanges) # nil
    /\ <<"pushing branch">> # nil
    /\ <<"opening pull request">> # nil
<1>1. ASSUME NEW s \in STRING, NEW t \in STRING PROVE <<s>> \o <<t>> # <<>>
  BY ConcatProperties, EmptySeq
<1> QED
  BY <1>1 DEF Wrapped, nil, ErrNoChanges

\* What a manager knows of its pull request stays true while it does nothing.
Knows(k) ==
    /\ step[k] = "label" =>
          /\ result[k].number \in DOMAIN pulls
          /\ pulls[result[k].number].head = call[k].branch
          /\ pulls[result[k].number].body = call[k].patch
    /\ step[k] = "returned" /\ result[k].err = nil =>
          /\ result[k].number \in DOMAIN pulls
          /\ pulls[result[k].number].head = call[k].branch
          /\ pulls[result[k].number].body = call[k].patch
          /\ call[k].labels => pulls[result[k].number].labelled

LEMMA KnowsAll ==
    /\ LabelsItsOwn /\ OkMeansProposed <=> \A k \in Managers : Knows(k)
    /\ LabelsItsOwn' /\ OkMeansProposed' <=> \A k \in Managers : Knows(k)'
BY DEF LabelsItsOwn, OkMeansProposed, Knows

LEMMA OutcomeStep ==
    ASSUME IndInv, Next PROVE LabelsItsOwn' /\ OkMeansProposed'
<1> USE DEF IndInv
<1>a. \A k \in Managers : Knows(k)
  BY KnowsAll
<1> SUFFICES ASSUME NEW k \in Managers PROVE Knows(k)'
  BY KnowsAll
<1>1. CASE step'[k] = step[k] /\ call'[k] = call[k] /\ result'[k] = result[k]
  BY <1>1, <1>a, PullsOnlyGrow DEF Knows
<1>2. CASE step'[k] \notin {"label", "returned"}
  BY <1>2 DEF Knows
<1>3. ASSUME NEW err \in ErrorKinds, err # nil, NEW number \in Nat, Ends(k, err, number)
      PROVE  Knows(k)'
  BY <1>3 DEF Knows, Ends, ManagersOK, Outcome
<1>4. ASSUME OpenPullRequest(k) PROVE Knows(k)'
  <2>1. /\ DOMAIN pulls' = DOMAIN pulls \cup {Len(pulls) + 1}
        /\ pulls'[Len(pulls) + 1].head = call[k].branch
        /\ pulls'[Len(pulls) + 1].body = call[k].patch
    BY <1>4, UnderWay, CreatedPull DEF OpenPullRequest
  <2>2. CASE call[k].labels
    <3>1. step'[k] = "label" /\ call'[k] = call[k] /\ result'[k].number = Len(pulls) + 1
      BY <1>4, <2>2 DEF OpenPullRequest, ManagersOK, Outcome
    <3> QED
      BY <2>1, <3>1 DEF Knows
  <2>3. CASE ~call[k].labels
    <3>1. /\ step'[k] = "returned" /\ call'[k] = call[k]
          /\ result'[k].number = Len(pulls) + 1
      BY <1>4, <2>3 DEF OpenPullRequest, Return, Ends, ManagersOK, Outcome
    <3> QED
      BY <2>1, <2>3, <3>1 DEF Knows
  <2> QED
    BY <2>2, <2>3
<1>5. ASSUME AddLabels(k) PROVE Knows(k)'
  <2>1. /\ result[k].number \in DOMAIN pulls
        /\ pulls[result[k].number].head = call[k].branch
        /\ pulls[result[k].number].body = call[k].patch
    BY <1>5 DEF AddLabels, LabelsItsOwn
  <2>2. /\ DOMAIN pulls' = DOMAIN pulls
        /\ pulls'[result[k].number].head = call[k].branch
        /\ pulls'[result[k].number].body = call[k].patch
        /\ pulls'[result[k].number].labelled
    BY <1>5, <2>1, LabelledPull DEF AddLabels
  <2>3. step'[k] = "returned" /\ call'[k] = call[k] /\ result'[k].number = result[k].number
    BY <1>5 DEF AddLabels, Return, Ends, ManagersOK, Outcome
  <2> QED
    BY <2>1, <2>2, <2>3 DEF Knows
<1>6. ASSUME LabelFails(k) PROVE Knows(k)'
  BY <1>6, <1>3, ErrorsAreKinds, WrappedIsNotNil DEF LabelFails, Return
<1>7. ASSUME CloneFails(k) \/ PatchFails(k) \/ NothingToCommit(k) \/ PushFails(k)
                \/ PushReplyLost(k) \/ CreateFails(k) \/ CreateReplyLost(k)
      PROVE  Knows(k)'
  BY <1>7, <1>3, ErrorsAreKinds, WrappedIsNotNil DEF CloneFails, PatchFails,
     NothingToCommit, PushFails, PushReplyLost, CreateFails, CreateReplyLost, PrepareFails,
     Return
<1>8. ASSUME PrepareBranch(k) \/ Push(k) \/ PushUpToDate(k) \/ Forget(k)
      PROVE  Knows(k)'
  BY <1>8, <1>2 DEF PrepareBranch, Push, PushUpToDate, Proceed, Forget, ManagersOK
<1>11. ASSUME NEW c \in Calls, OpenRecommendationPR(k, c) PROVE Knows(k)'
  <2> DEFINE err == Wrapped("preparing branch", <<"temporary directory">>)
  <2>a. err # nil
    BY WrappedIsNotNil
  <2>b. \/ step' = [step EXCEPT ![k] = "prepare"]
        \/ /\ step' = [step EXCEPT ![k] = "returned"]
           /\ result' = [result EXCEPT ![k] = [err |-> err, number |-> 0]]
    BY <1>11 DEF OpenRecommendationPR
  <2> HIDE DEF err
  <2>1. step'[k] = "prepare" \/ (step'[k] = "returned" /\ result'[k].err # nil)
    BY <2>a, <2>b DEF ManagersOK
  <2> QED
    BY <2>1 DEF Knows, nil
<1>9. ASSUME NEW m \in Managers \ {k},
             (\E c \in Calls : OpenRecommendationPR(m, c)) \/ CallStep(m) \/ Forget(m)
      PROVE  Knows(k)'
  <2>1. step'[k] = step[k] /\ call'[k] = call[k] /\ result'[k] = result[k]
    BY <1>9 DEF CallStep, OpenRecommendationPR, CloneFails, PatchFails, NothingToCommit,
       PrepareBranch, Push, PushUpToDate, PushFails, PushReplyLost, OpenPullRequest,
       CreateFails, CreateReplyLost, AddLabels, LabelFails, Forget, PrepareFails, Return,
       Ends, Proceed, ManagersOK
  <2> QED
    BY <1>1, <2>1
<1>10. ASSUME PersonStep PROVE Knows(k)'
  BY <1>10, <1>1 DEF PersonStep, MergePull, ClosePull, DeleteBranch, CommitToMain, managerVars
<1> QED
  BY <1>4, <1>5, <1>6, <1>7, <1>8, <1>9, <1>10, <1>11 DEF Next, Begin, CallStep, Resume, Crash

LEMMA InvStep == IndInv /\ [Next]_vars => IndInv'
<1> SUFFICES ASSUME IndInv, [Next]_vars PROVE IndInv'
  OBVIOUS
<1>1. CASE Next
  BY <1>1, RemoteStep, ManagersStep, OnePullStep, OutcomeStep DEF IndInv, DiskOK
<1>2. CASE UNCHANGED vars
  BY <1>2 DEF vars, IndInv, RemoteOK, ManagersOK, WorktreeReclaimed, CommitHeld, OnePullPerBranch,
     OpenPulls, LabelsItsOwn, OkMeansProposed
<1> QED
  BY <1>1, <1>2

LEMMA Invariance == Spec => []IndInv
BY InitInv, InvStep, PTL DEF Spec

\* Every variable keeps its type (GitOps!TypeOK), for every instance.
THEOREM TypeCorrect == Spec => []TypeOK
<1>1. IndInv => TypeOK
  BY TypeParts DEF IndInv
<1> QED
  BY <1>1, Invariance, PTL

\* "The local worktree is always cleaned up, even on error": whichever way a
\* call returns, and whatever the other managers do; only the end of a process
\* leaves a clone behind.
THEOREM WorktreesAreReclaimed == Spec => []WorktreeReclaimed
BY Invariance, PTL DEF IndInv

\* A call that reports success has left the labelled pull request it reports.
THEOREM SuccessIsProposed == Spec => []OkMeansProposed
BY Invariance, PTL DEF IndInv

-----------------------------------------------------------------------------
(* GitOps implements ReviewGate.                                           *)

Submitted == {b \in Branches : OpenPulls(b) # {}}

\* A branch is submitted when some pull request for it is open, now and after
\* a step.
LEMMA SubmittedMeans ==
    /\ \A b \in Branches : b \in Submitted <=>
          \E n \in DOMAIN pulls : pulls[n].head = b /\ pulls[n].state = "open"
    /\ \A b \in Branches : b \in Submitted' <=>
          \E n \in DOMAIN pulls' : pulls'[n].head = b /\ pulls'[n].state = "open"
    /\ Submitted \subseteq Branches /\ Submitted' \subseteq Branches
BY DEF Submitted, OpenPulls

LEMMA GateInit == Init => Gate!Init
<1> SUFFICES ASSUME Init PROVE Gate!Init
  OBVIOUS
<1>1. {b \in Branches : OpenPulls(b) # {}} = {}
  BY DEF Init, OpenPulls
<1>2. main \in Tree
  BY TreesAssumption DEF Init
<1> QED
  BY <1>1, <1>2 DEF Init, Gate!Init

\* A step that keeps the remote's branches, base and pull requests' states is
\* no step of the gate.
LEMMA GateStutters ==
    ASSUME UNCHANGED <<main, log, branches>>, DOMAIN pulls' = DOMAIN pulls,
           \A n \in DOMAIN pulls :
              pulls'[n].head = pulls[n].head /\ pulls'[n].state = pulls[n].state
    PROVE  UNCHANGED Gate!gateVars
<1>1. Submitted' = Submitted
  BY SubmittedMeans
<1> QED
  BY <1>1 DEF Gate!gateVars, Submitted

\* An accepted push publishes.
LEMMA GatePublish ==
    ASSUME IndInv, NEW m \in Managers, step[m] = "push", PushCreatesRef(m), UpdateRef(m),
           UNCHANGED <<main, log, pulls>>
    PROVE  \E b \in Branches : Gate!Publish(b)
<1> DEFINE b == call[m].branch
<1>1. b \in Branches /\ worktree[m] \in Commit
  BY UnderWay
<1>2. branches \in [Branches -> Commit \cup {NoCommit}]
  BY DEF IndInv, RemoteOK
<1>3. branches[b] = NoCommit /\ branches' = [branches EXCEPT ![b] = worktree[m]]
  BY DEF PushCreatesRef, UpdateRef
<1>4. branches'[b] = worktree[m]
  BY <1>1, <1>2, <1>3
<1>5. Submitted' = Submitted
  BY SubmittedMeans
<1> HIDE DEF b
<1>6. Gate!Publish(b)
  BY <1>1, <1>3, <1>4, <1>5 DEF Gate!Publish, Gate!Published, Submitted
<1> QED
  BY <1>1, <1>6

\* A pull request created submits.
LEMMA GateSubmit ==
    ASSUME IndInv, NEW m \in Managers, step[m] = "create", CreatePull(m),
           UNCHANGED <<main, log, branches>>
    PROVE  \E b \in Branches : Gate!Submit(b)
<1> DEFINE b == call[m].branch
           next == Len(pulls) + 1
<1>1. b \in Branches /\ call[m] \in Call
  BY UnderWay
<1>2. branches[b] # NoCommit /\ OpenPulls(b) = {}
  BY DEF CreatePull, ForgeAccepts
<1>3. /\ DOMAIN pulls' = DOMAIN pulls \cup {next}
      /\ \A n \in DOMAIN pulls : pulls'[n] = pulls[n]
      /\ pulls'[next].head = b
      /\ pulls'[next].state = "open"
  BY <1>1, CreatedPull DEF IndInv
<1>4. b \notin Submitted
  BY <1>2 DEF Submitted
<1> HIDE DEF b, next
<1>5. Submitted' = Submitted \cup {b}
  BY <1>1, <1>3, SubmittedMeans
<1>6. Gate!Submit(b)
  BY <1>2, <1>4, <1>5 DEF Gate!Submit, Gate!Published, Submitted
<1> QED
  BY <1>1, <1>6

\* Merging accepts, because no other pull request of the branch stays open.
LEMMA GateAccept ==
    ASSUME IndInv, NEW n \in DOMAIN pulls, MergePull(n)
    PROVE  \E b \in Branches : Gate!Accept(b)
<1> DEFINE b == pulls[n].head
<1>1. b \in Branches
  BY PullTypes DEF IndInv
<1>2. b \in Submitted
  BY <1>1, SubmittedMeans DEF MergePull
<1>3. Submitted' = Submitted \ {b}
  BY <1>1, DecidedPull, SubmittedMeans, OnePullIsSingle DEF MergePull, IndInv, Single
<1>4. Gate!Accept(b)
  BY <1>2, <1>3 DEF Gate!Accept, MergePull, Submitted
<1> QED
  BY <1>1, <1>4

LEMMA GateClose ==
    ASSUME IndInv, NEW n \in DOMAIN pulls, ClosePull(n)
    PROVE  \E b \in Branches : Gate!Close(b)
<1> DEFINE b == pulls[n].head
<1>1. b \in Branches
  BY PullTypes DEF IndInv
<1>2. b \in Submitted
  BY <1>1, SubmittedMeans DEF ClosePull
<1>3. Submitted' = Submitted \ {b}
  BY <1>1, DecidedPull, SubmittedMeans, OnePullIsSingle DEF ClosePull, IndInv, Single
<1>4. Gate!Close(b)
  BY <1>2, <1>3 DEF Gate!Close, ClosePull, Submitted
<1> QED
  BY <1>1, <1>4

LEMMA GateWithdraw ==
    ASSUME IndInv, NEW b \in Branches, DeleteBranch(b)
    PROVE  Gate!Withdraw(b)
<1>1. Submitted' = Submitted \ {b}
  BY ClosedPulls, SubmittedMeans DEF IndInv, OpenPulls
<1> QED
  BY <1>1 DEF Gate!Withdraw, Gate!Published, DeleteBranch, Submitted

LEMMA GateEdit ==
    ASSUME IndInv, NEW f \in Files, NEW manifest \in Edits, CommitToMain(f, manifest)
    PROVE  Gate!Edit
<1>1. main' \in Tree
  BY TreesAssumption DEF CommitToMain, IndInv, RemoteOK, Tree
<1>2. Submitted' = Submitted
  BY DEF CommitToMain, Submitted, OpenPulls
<1> QED
  BY <1>1, <1>2 DEF Gate!Edit, CommitToMain, Submitted

LEMMA GateStep == IndInv /\ [Next]_vars => [Gate!Next]_(Gate!gateVars)
<1> SUFFICES ASSUME IndInv, [Next]_vars PROVE [Gate!Next]_(Gate!gateVars)
  OBVIOUS
<1>1. CASE UNCHANGED remoteVars
  BY <1>1, GateStutters DEF remoteVars
<1>2. ASSUME NEW m \in Managers, Push(m) \/ PushReplyLost(m) PROVE Gate!Next
  BY <1>2, GatePublish DEF Push, PushReplyLost, Gate!Next
<1>3. ASSUME NEW m \in Managers, OpenPullRequest(m) \/ CreateReplyLost(m) PROVE Gate!Next
  BY <1>3, GateSubmit DEF OpenPullRequest, CreateReplyLost, Gate!Next
<1>4. ASSUME NEW m \in Managers, AddLabels(m) \/ LabelFails(m)
      PROVE  UNCHANGED Gate!gateVars
  BY <1>4, LabelledPull, GateStutters DEF AddLabels, LabelFails, IndInv, LabelsItsOwn
<1>5. ASSUME PersonStep PROVE Gate!Next
  BY <1>5, GateAccept, GateClose, GateWithdraw, GateEdit DEF PersonStep, Gate!Next
<1> QED
  BY <1>1, <1>2, <1>3, <1>4, <1>5 DEF Next, Begin, CallStep,
     OpenRecommendationPR, CloneFails, PatchFails, NothingToCommit, PrepareBranch,
     PushUpToDate, PushFails, CreateFails, Resume, Crash, Forget, vars, remoteVars

\* GitOps implements ReviewGate: with any number of processes and any faults,
\* the base branch takes only people's edits and accepted proposals, and a
\* published branch is never replaced.
THEOREM ImplementsReviewGate == Spec => ChangesOnlyThroughReview
<1>1. Spec => Gate!Spec
  BY GateInit, GateStep, Invariance, PTL DEF Spec, Gate!Spec
<1> QED
  BY <1>1 DEF ChangesOnlyThroughReview

-----------------------------------------------------------------------------
(* With one manager, or where nobody deletes branches, a merge does what    *)
(* the body of the pull request says.                                      *)

\* A commit does to its file what a patch says.
Does(commit, patch) ==
    /\ commit.to = ApplyDeploymentPatches(commit.from, patch)
    /\ DOMAIN patch \subseteq DOMAIN commit.from.res

\* One manager, or nobody who takes a branch away between a manager's push and
\* its creation of the pull request.
Undisturbed == (\A a, b \in Managers : a = b) \/ ~MayDelete

\* What a manager is about to propose is what its patch says.
Matches(m) ==
    /\ step[m] = "push" => Does(worktree[m], call[m].patch)
    /\ step[m] = "create" =>
          IF branches[call[m].branch] = NoCommit THEN MayDelete
          ELSE Does(branches[call[m].branch], call[m].patch)

\* From the commit to the pull request, branch and body stay matched.
BodyInv ==
    /\ \A m \in Managers : Matches(m)
    /\ \A n \in DOMAIN pulls : pulls[n].state = "open" =>
          Does(branches[pulls[n].head], pulls[n].body)

\* The branch and the body of an open pull request do not change; a new one
\* comes from a manager that is about to create it.
LEMMA OpenPullsKeep ==
    ASSUME IndInv, BodyInv, Next
    PROVE  \A n \in DOMAIN pulls' : pulls'[n].state = "open" =>
              Does(branches'[pulls'[n].head], pulls'[n].body)
<1> USE DEF IndInv
<1> DEFINE Kept == \A n \in DOMAIN pulls' : pulls'[n].state = "open" =>
              Does(branches'[pulls'[n].head], pulls'[n].body)
<1>a. \A n \in DOMAIN pulls : pulls[n].state = "open" =>
          /\ Does(branches[pulls[n].head], pulls[n].body)
          /\ branches[pulls[n].head] # NoCommit
  BY DEF BodyInv, OnePullPerBranch
<1>1. CASE UNCHANGED <<branches, pulls>>
  BY <1>1, <1>a
<1>2. ASSUME NEW m \in Managers, step[m] = "push", PushCreatesRef(m), UpdateRef(m),
             UNCHANGED pulls
      PROVE  Kept
  <2>1. \A n \in DOMAIN pulls : pulls[n].state = "open" =>
           branches'[pulls[n].head] = branches[pulls[n].head]
    BY <1>2, <1>a, PullTypes DEF PushCreatesRef, UpdateRef, RemoteOK
  <2> QED
    BY <1>2, <1>a, <2>1
<1>3. ASSUME NEW m \in Managers, step[m] = "create", CreatePull(m), UNCHANGED branches
      PROVE  Kept
  <2>1. Does(branches[call[m].branch], call[m].patch)
    BY <1>3 DEF BodyInv, Matches, CreatePull, ForgeAccepts
  <2>2. /\ DOMAIN pulls' = DOMAIN pulls \cup {Len(pulls) + 1}
        /\ \A n \in DOMAIN pulls : pulls'[n] = pulls[n]
        /\ pulls'[Len(pulls) + 1].head = call[m].branch
        /\ pulls'[Len(pulls) + 1].body = call[m].patch
    BY <1>3, UnderWay, CreatedPull
  <2> QED
    BY <1>3, <1>a, <2>1, <2>2
<1>4. ASSUME NEW m \in Managers, step[m] = "label", LabelPull(result[m].number),
             UNCHANGED branches
      PROVE  Kept
  BY <1>4, <1>a, LabelledPull DEF LabelsItsOwn
<1>5. ASSUME NEW n \in DOMAIN pulls, NEW state \in {"merged", "closed"}, Decide(n, state),
             UNCHANGED branches
      PROVE  Kept
  BY <1>5, <1>a, DecidedPull
<1>6. ASSUME NEW b \in Branches, DeleteBranch(b) PROVE Kept
  <2>1. /\ DOMAIN pulls' = DOMAIN pulls
        /\ \A k \in DOMAIN pulls :
              /\ pulls'[k].head = pulls[k].head /\ pulls'[k].body = pulls[k].body
              /\ pulls'[k].state = "open" => pulls[k].state = "open" /\ pulls[k].head # b
    BY <1>6, ClosedPulls DEF OpenPulls
  <2>2. \A k \in DOMAIN pulls :
           pulls[k].head # b => branches'[pulls[k].head] = branches[pulls[k].head]
    BY <1>6, PullTypes DEF DeleteBranch, RemoteOK
  <2> QED
    BY <1>a, <2>1, <2>2
<1> QED
  BY <1>1, <1>2, <1>3, <1>4, <1>5, <1>6 DEF Next, Begin, CallStep, PersonStep,
     OpenRecommendationPR, CloneFails, PatchFails, NothingToCommit, PrepareBranch, Push,
     PushUpToDate, PushFails, PushReplyLost, OpenPullRequest, CreateFails,
     CreateReplyLost, AddLabels, LabelFails, Resume, Crash, Forget, MergePull, ClosePull,
     CommitToMain, remoteVars

\* A manager's call keeps its commit and its branch matched to its patch:
\* nobody else publishes the branch it is about to propose.
LEMMA OwnBranchKeeps ==
    ASSUME Undisturbed, IndInv, BodyInv, Next, NEW m \in Managers
    PROVE  Matches(m)'
<1> USE DEF IndInv
<1>0. Matches(m)
  BY DEF BodyInv
<1>1. CASE step'[m] \notin {"push", "create"}
  BY <1>1 DEF Matches
<1>2. ASSUME PrepareBranch(m) PROVE Matches(m)'
  <2>1. /\ step'[m] = "push" /\ call'[m] = call[m] /\ worktree'[m] = Prepared(call[m])
        /\ Patchable(call[m])
    BY <1>2 DEF PrepareBranch, ManagersOK
  <2>2. Does(Prepared(call[m]), call[m].patch)
    BY <2>1 DEF Does, Prepared, Patchable, ContainerNotFound
  <2> QED
    BY <2>1, <2>2 DEF Matches
<1>3. ASSUME Push(m) \/ PushUpToDate(m) PROVE Matches(m)'
  <2>1. /\ step[m] = "push" /\ step'[m] = "create" /\ call'[m] = call[m]
        /\ branches'[call[m].branch] = worktree[m]
    BY <1>3, UnderWay DEF Push, PushUpToDate, Proceed, UpdateRef, ManagersOK, RemoteOK,
       remoteVars
  <2>2. worktree[m] # NoCommit
    BY <2>1 DEF CommitHeld
  <2> QED
    BY <1>0, <2>1, <2>2 DEF Matches
<1>4. ASSUME step'[m] = step[m], worktree'[m] = worktree[m], call'[m] = call[m],
             step[m] = "create" =>
                \/ branches'[call[m].branch] = branches[call[m].branch]
                \/ branches'[call[m].branch] = NoCommit /\ MayDelete
      PROVE  Matches(m)'
  BY <1>0, <1>4 DEF Matches
<1>5. ASSUME PersonStep PROVE Matches(m)'
  <2>1. step'[m] = step[m] /\ worktree'[m] = worktree[m] /\ call'[m] = call[m]
    BY <1>5 DEF PersonStep, MergePull, ClosePull, DeleteBranch, CommitToMain, managerVars
  <2>2. \A b \in Branches : branches'[b] = branches[b] \/ (branches'[b] = NoCommit /\ MayDelete)
    BY <1>5 DEF PersonStep, MergePull, ClosePull, DeleteBranch, CommitToMain, RemoteOK
  <2>3. step[m] # "idle" => call[m].branch \in Branches
    BY UnderWay
  <2> QED
    BY <1>4, <2>1, <2>2, <2>3
<1>6. ASSUME \/ \E c \in Calls : OpenRecommendationPR(m, c)
             \/ CloneFails(m) \/ PatchFails(m) \/ NothingToCommit(m) \/ PushFails(m)
             \/ PushReplyLost(m) \/ OpenPullRequest(m) \/ CreateFails(m)
             \/ CreateReplyLost(m) \/ AddLabels(m) \/ LabelFails(m) \/ Forget(m)
      PROVE  step'[m] \notin {"push", "create"}
  BY <1>6 DEF OpenRecommendationPR, CloneFails, PatchFails, NothingToCommit, PushFails,
     PushReplyLost, OpenPullRequest, CreateFails, CreateReplyLost, AddLabels, LabelFails,
     Forget, PrepareFails, Return, Ends, ManagersOK
<1>7. ASSUME NEW k \in Managers, k # m, Begin(k) \/ CallStep(k) \/ Resume(k) \/ Crash(k)
      PROVE  Matches(m)'
  <2>1. step'[m] = step[m] /\ worktree'[m] = worktree[m] /\ call'[m] = call[m]
    BY <1>7 DEF Begin, OpenRecommendationPR, CallStep, CloneFails, PatchFails,
       NothingToCommit, PrepareBranch, Push, PushUpToDate, PushFails, PushReplyLost,
       OpenPullRequest, CreateFails, CreateReplyLost, AddLabels, LabelFails,
       PrepareFails, Return, Ends, Proceed, Resume, Crash, Forget, ManagersOK
  <2>2. ~MayDelete
    BY <1>7 DEF Undisturbed
  <2>3. ASSUME step[m] = "create"
        PROVE  branches[call[m].branch] # NoCommit /\ call[m].branch \in Branches
    BY <1>0, <2>2, <2>3, UnderWay DEF Matches
  <2>4. \/ UNCHANGED branches
        \/ /\ step[k] = "push" /\ branches[call[k].branch] = NoCommit
           /\ branches' = [branches EXCEPT ![call[k].branch] = worktree[k]]
    BY <1>7 DEF Begin, OpenRecommendationPR, CallStep, CloneFails, PatchFails,
       NothingToCommit, PrepareBranch, Push, PushUpToDate, PushFails, PushReplyLost,
       OpenPullRequest, CreateFails, CreateReplyLost, AddLabels, LabelFails, Resume, Crash,
       Forget, PushCreatesRef, UpdateRef, remoteVars
  <2>5. step[m] = "create" => branches'[call[m].branch] = branches[call[m].branch]
    BY <2>3, <2>4 DEF RemoteOK
  <2> QED
    BY <1>4, <2>1, <2>5
<1>8. ASSUME Begin(m) \/ CallStep(m) \/ Resume(m) \/ Crash(m) PROVE Matches(m)'
  BY <1>1, <1>2, <1>3, <1>6, <1>8 DEF Begin, CallStep, Resume, Crash
<1> QED
  BY <1>5, <1>7, <1>8 DEF Next

LEMMA BodyInvariance ==
    ASSUME Undisturbed
    PROVE  Spec => []BodyInv
<1>1. Init => BodyInv
  BY DEF Init, BodyInv, Matches
<1>2. IndInv /\ BodyInv /\ [Next]_vars => BodyInv'
  <2> SUFFICES ASSUME IndInv, BodyInv, [Next]_vars PROVE BodyInv'
    OBVIOUS
  <2>1. CASE Next
    BY <2>1, OpenPullsKeep, OwnBranchKeeps DEF BodyInv
  <2>2. CASE UNCHANGED vars
    BY <2>2 DEF vars, BodyInv, Matches
  <2> QED
    BY <2>1, <2>2
<1> QED
  BY <1>1, <1>2, Invariance, PTL DEF Spec

\* Only a person's merge makes an open pull request a merged one.
LEMMA PeopleMerge ==
    ASSUME IndInv, Next, NEW n \in DOMAIN pulls,
           pulls[n].state = "open", pulls'[n].state = "merged"
    PROVE  MergePull(n)
<1>1. ASSUME NEW m \in Managers, step[m] = "create", CreatePull(m) PROVE FALSE
  BY <1>1, UnderWay, CreatedPull DEF IndInv
<1>2. ASSUME NEW m \in Managers, step[m] = "label", LabelPull(result[m].number) PROVE FALSE
  BY <1>2, LabelledPull DEF IndInv, LabelsItsOwn
<1>3. ASSUME NEW b \in Branches, DeleteBranch(b) PROVE FALSE
  BY <1>3, ClosedPulls DEF IndInv
<1>4. ASSUME NEW k \in DOMAIN pulls, ClosePull(k) PROVE FALSE
  BY <1>4, DecidedPull DEF IndInv, ClosePull
<1>5. ASSUME NEW k \in DOMAIN pulls, MergePull(k) PROVE k = n
  BY <1>5, DecidedPull DEF IndInv, MergePull
<1>6. ~ UNCHANGED pulls
  OBVIOUS
<1> QED
  BY <1>1, <1>2, <1>3, <1>4, <1>5, <1>6 DEF Next, Begin, CallStep, PersonStep,
     OpenRecommendationPR, CloneFails, PatchFails, NothingToCommit, PrepareBranch, Push,
     PushUpToDate, PushFails, PushReplyLost, OpenPullRequest, CreateFails,
     CreateReplyLost, AddLabels, LabelFails, Resume, Crash, Forget, CommitToMain, remoteVars

\* A commit that does what a patch says changes the containers of the patch
\* that do not have its value yet, and no others.
LEMMA ChangesPatched ==
    ASSUME NEW commit, NEW patch, Does(commit, patch)
    PROVE  /\ \A c \in ChangedBy(commit) : c \in DOMAIN patch /\ commit.to.res[c] = patch[c]
           /\ \A c \in DOMAIN patch \ ChangedBy(commit) :
                 c \in DOMAIN commit.from.res /\ commit.from.res[c] = patch[c]
<1>1. /\ DOMAIN commit.to.res = DOMAIN commit.from.res
      /\ \A c \in DOMAIN commit.from.res : commit.to.res[c] =
             IF c \in DOMAIN patch THEN patch[c] ELSE commit.from.res[c]
  BY DEF Does, ApplyDeploymentPatches
<1> QED
  BY <1>1 DEF Does, ChangedBy

\* A clean merge sets what the commit changes, and keeps the rest of the base
\* as it is by then.
LEMMA MergeKeepsTheRest ==
    ASSUME NEW files \in Tree, NEW commit \in Commit, MergesCleanly(files, commit)
    PROVE  LET before == files[commit.file].res
               after == Merged(files, commit)[commit.file].res
           IN  /\ DOMAIN after = DOMAIN before
               /\ ChangedBy(commit) \subseteq DOMAIN after
               /\ \A c \in ChangedBy(commit) : after[c] = commit.to.res[c]
               /\ \A c \in DOMAIN after \ ChangedBy(commit) : after[c] = before[c]
               /\ \A other \in Files \ {commit.file} :
                     Merged(files, commit)[other] = files[other]
<1>1. commit.file \in Files
  BY DEF Commit
<1>2. Merged(files, commit)[commit.file].res =
         [c \in DOMAIN files[commit.file].res |->
             IF c \in ChangedBy(commit) THEN commit.to.res[c] ELSE files[commit.file].res[c]]
  BY <1>1 DEF Merged, Tree
<1>3. ChangedBy(commit) \subseteq DOMAIN files[commit.file].res
  BY DEF MergesCleanly
<1>4. \A other \in Files \ {commit.file} : Merged(files, commit)[other] = files[other]
  BY <1>1 DEF Merged, Tree
<1> QED
  BY <1>2, <1>3, <1>4

\* Merging a pull request applies the table in its body, whatever faults,
\* crashes and people came between: for one manager, or for any number of them
\* where nobody deletes a branch.
THEOREM MergesApplyBodies ==
    ASSUME Undisturbed
    PROVE  Spec => MergeAppliesBody
<1> DEFINE Applies(n) ==
       LET commit == branches[pulls[n].head]
           body == pulls[n].body
           base == commit.from.res
           before == main[commit.file].res
           after == main'[commit.file].res
       IN  /\ DOMAIN after = DOMAIN before
           /\ \A c \in DOMAIN after :
                 after[c] # before[c] => c \in DOMAIN body /\ after[c] = body[c]
           /\ \A c \in DOMAIN body :
                 \/ c \in DOMAIN after /\ after[c] = body[c]
                 \/ c \in DOMAIN base /\ base[c] = body[c]
           /\ \A other \in Files \ {commit.file} : main'[other] = main[other]
<1>1. ASSUME IndInv, BodyInv, NEW n \in DOMAIN pulls, MergePull(n) PROVE Applies(n)
  <2> DEFINE commit == branches[pulls[n].head]
             body == pulls[n].body
             base == commit.from.res
             before == main[commit.file].res
             after == main'[commit.file].res
  <2>1. commit \in Commit /\ Does(commit, body)
    BY <1>1, PullTypes DEF MergePull, IndInv, RemoteOK, OnePullPerBranch, BodyInv
  <2>2. main \in Tree /\ MergesCleanly(main, commit) /\ main' = Merged(main, commit)
    BY <1>1 DEF MergePull, IndInv, RemoteOK
  <2> HIDE DEF commit, body
  <2>3. /\ DOMAIN after = DOMAIN before
        /\ ChangedBy(commit) \subseteq DOMAIN after
        /\ \A c \in ChangedBy(commit) : after[c] = commit.to.res[c]
        /\ \A c \in DOMAIN after \ ChangedBy(commit) : after[c] = before[c]
        /\ \A other \in Files \ {commit.file} : main'[other] = main[other]
    BY <2>1, <2>2, MergeKeepsTheRest
  <2>4. /\ \A c \in ChangedBy(commit) : c \in DOMAIN body /\ commit.to.res[c] = body[c]
        /\ \A c \in DOMAIN body \ ChangedBy(commit) :
              c \in DOMAIN commit.from.res /\ commit.from.res[c] = body[c]
    BY <2>1, ChangesPatched
  <2> HIDE DEF after, before
  <2>5. \A c \in DOMAIN after :
           after[c] # before[c] => c \in DOMAIN body /\ after[c] = body[c]
    BY <2>3, <2>4
  <2>6. \A c \in DOMAIN body :
           \/ c \in DOMAIN after /\ after[c] = body[c]
           \/ c \in DOMAIN base /\ base[c] = body[c]
    BY <2>3, <2>4
  <2> QED
    BY <2>3, <2>5, <2>6, Zenon DEF commit, body, after, before
<1>2. IndInv /\ BodyInv /\ [Next]_vars
      => [\A n \in DOMAIN pulls :
             pulls[n].state = "open" /\ pulls'[n].state = "merged" => Applies(n)]_vars
  BY <1>1, PeopleMerge DEF vars
<1> QED
  BY <1>2, Invariance, BodyInvariance, PTL DEF Spec, MergeAppliesBody
=============================================================================
