------------------------------- MODULE GitOps -------------------------------
(***************************************************************************)
(* internal/gitops: Manager.OpenRecommendationPR over Repository (go-git)  *)
(* and the GitHub opener, against the remote repository and the forge that *)
(* src/ uses but does not contain.                                         *)
(*                                                                         *)
(* A call is a chain of remote operations -- clone, push, create, label -- *)
(* and every one of them can fail, succeed with its answer lost, or be cut *)
(* short by the end of the process.  Between any two of them another       *)
(* process (leader election is off by default, and a deposed leader keeps  *)
(* its call running) or a person can act on the same repository.           *)
(***************************************************************************)
EXTENDS Manifest, FiniteSets

CONSTANTS Managers,      \* processes that can be inside OpenRecommendationPR
          Branches,      \* branch names the controller computes
          Files,         \* manifest paths
          InitialTrees,  \* contents the base branch may start with
          NoFile, NoCommit, NoCall, Person,
          Calls,         \* arguments the controller may call with
          Edits,         \* contents a person may give a file
          Faults,        \* operations that may go wrong, and "crash"
          MaxVersion,    \* bound: commits made on the base branch
          MaxDecisions,  \* bound: pull requests merged or closed
          MayDelete      \* bound: whether people delete pushed branches

Tree == [Files -> Manifest \cup {NoFile}]

\* The one commit PrepareBranch makes: the file before and after, and the
\* base commit it stands on.
Commit == [file : Files, from : Manifest, to : Manifest, on : Nat]

Call == [branch : Branches, file : Files, patch : Patch, labels : BOOLEAN]

Pull == [head : Branches, body : Patch, labelled : BOOLEAN,
         state : {"open", "merged", "closed"}]

ASSUME FaultsAssumption ==
    Faults \subseteq {"mkdir", "clone", "push", "create", "label", "lost reply", "crash"}
ASSUME BoundsAssumption == MaxVersion \in Nat /\ MaxDecisions \in Nat
ASSUME NullsAssumption ==
    /\ NoCommit \notin Commit
    /\ NoCall \notin Call
    /\ NoFile \notin Manifest
ASSUME PersonAssumption == Person \notin Branches
ASSUME TreesAssumption ==
    /\ InitialTrees \subseteq Tree
    /\ Edits \subseteq Manifest \cup {NoFile}
ASSUME CallsAssumption == Calls \subseteq Call

VARIABLES main,      \* contents of the base branch
          log,       \* who made each commit of it: Person, or a merged branch
          branches,  \* the tip of each pushed branch on the remote
          pulls,     \* the forge's pull requests, in the order of their numbers
          step,      \* where each manager's call is
          call,      \* its arguments
          clones,    \* the temporary directories it has made that are on disk:
                     \* that of the "running" call, and what "ended" ones left
          worktree,  \* the commit in the clone of its call
          result     \* what it returned

remoteVars == <<main, log, branches, pulls>>
managerVars == <<step, call, clones, worktree, result>>
vars == <<main, log, branches, pulls, step, call, clones, worktree, result>>

-----------------------------------------------------------------------------
(* Errors.  An error is the sequence of its wrapping layers, outermost     *)
(* first, as fmt.Errorf("...: %w", err) builds it; nil is the empty one.   *)

nil == <<>>
ErrNoChanges == <<"no file changes">>
Wrapped(message, err) == <<message>> \o err

ErrorKinds ==
    {nil, <<"pushing branch">>, <<"opening pull request">>}
        \cup {Wrapped("preparing branch", e) :
                 e \in {ErrNoChanges, <<"temporary directory">>, <<"cloning">>, <<"manifest">>}}

Outcome == [err : ErrorKinds, number : Nat]
NoOutcome == [err |-> nil, number |-> 0]

-----------------------------------------------------------------------------
(* The remote and the forge.                                               *)

OpenPulls(b) == {n \in DOMAIN pulls : pulls[n].head = b /\ pulls[n].state = "open"}

Decided == {n \in DOMAIN pulls : pulls[n].state # "open"}

\* The containers whose resources a commit changes.
ChangedBy(commit) ==
    {c \in DOMAIN commit.from.res \cap DOMAIN commit.to.res :
        commit.from.res[c] # commit.to.res[c]}

\* A three-way merge goes by hunks: the base may have changed elsewhere in the
\* file since the commit was made.  What the commit changes must still be as it
\* was, or be as the commit has it.  (Two hunks that touch may conflict as
\* well: people are free never to merge.)
MergesCleanly(files, commit) ==
    LET ours == files[commit.file] IN
    /\ ours # NoFile
    /\ \A c \in ChangedBy(commit) :
          /\ c \in DOMAIN ours.res
          /\ ours.res[c] \in {commit.from.res[c], commit.to.res[c]}

\* The layout is one more thing that both sides may have changed.
Merged(files, commit) ==
    LET ours == files[commit.file] IN
    [files EXCEPT ![commit.file] =
        [canonical |-> IF ours.canonical = commit.from.canonical
                       THEN commit.to.canonical ELSE ours.canonical,
         res |-> [c \in DOMAIN ours.res |->
                     IF c \in ChangedBy(commit) THEN commit.to.res[c] ELSE ours.res[c]]]]

\* The base branch as a fresh depth-1 clone checks it out, changed as asked.
Prepared(c) ==
    [file |-> c.file, from |-> main[c.file],
     to |-> ApplyDeploymentPatches(main[c.file], c.patch), on |-> Len(log)]

\* Mutant: the refspec is "+refs/heads/...", a forced push.
ForcedPush(m) == TRUE

\* A push without force creates the ref, or moves it forward.  The commit
\* stands on the base branch, never on an earlier tip, so it moves no
\* existing ref forward.
PushCreatesRef(m) == branches[call[m].branch] = NoCommit

\* The forge refuses a head that does not exist or has an open pull already.
ForgeAccepts(b) == branches[b] # NoCommit /\ OpenPulls(b) = {}

-----------------------------------------------------------------------------
(* The steps of OpenRecommendationPR.                                      *)

Init ==
    /\ main \in InitialTrees
    /\ log = <<>>
    /\ branches = [b \in Branches |-> NoCommit]
    /\ pulls = <<>>
    /\ step = [m \in Managers |-> "idle"]
    /\ call = [m \in Managers |-> NoCall]
    /\ clones = [m \in Managers |-> {}]
    /\ worktree = [m \in Managers |-> NoCommit]
    /\ result = [m \in Managers |-> NoOutcome]

\* The call first makes the temporary directory it will clone into.
OpenRecommendationPR(m, c) ==
    /\ step[m] = "idle"
    /\ call' = [call EXCEPT ![m] = c]
    /\ \/ /\ step' = [step EXCEPT ![m] = "prepare"]
          /\ clones' = [clones EXCEPT ![m] = @ \cup {"running"}]
          /\ UNCHANGED result
       \/ /\ "mkdir" \in Faults
          /\ step' = [step EXCEPT ![m] = "returned"]
          /\ result' = [result EXCEPT ![m] =
                [err |-> Wrapped("preparing branch", <<"temporary directory">>), number |-> 0]]
          /\ UNCHANGED clones
    /\ UNCHANGED <<worktree, remoteVars>>

\* Mutant: no deferred clean-up.
LeftBehind(m) == UNCHANGED clones

\* PrepareBranch's deferred RemoveAll, unless it succeeds.
Discard(m) == clones' = [clones EXCEPT ![m] = @ \ {"running"}]

\* The deferred Cleanup, once PrepareBranch has succeeded.
Cleanup(m) == clones' = [clones EXCEPT ![m] = @ \ {"running"}]

Ends(m, err, number) ==
    /\ step' = [step EXCEPT ![m] = "returned"]
    /\ result' = [result EXCEPT ![m] = [err |-> err, number |-> number]]
    /\ worktree' = [worktree EXCEPT ![m] = NoCommit]
    /\ UNCHANGED call

\* PrepareBranch returns an error, and so does the call.
PrepareFails(m, err) ==
    /\ Ends(m, Wrapped("preparing branch", err), 0)
    /\ Discard(m)

\* The call returns after PrepareBranch has succeeded.
Return(m, err, number) == Ends(m, err, number) /\ Cleanup(m)

Proceed(m, next) ==
    /\ step' = [step EXCEPT ![m] = next]
    /\ UNCHANGED <<call, clones, worktree, result>>

CloneFails(m) ==
    /\ step[m] = "prepare"
    /\ "clone" \in Faults
    /\ PrepareFails(m, <<"cloning">>)
    /\ UNCHANGED remoteVars

\* Mutant: a patch for a container that is not there is skipped.
PatchesWhatItCan(c) == main[c.file] # NoFile

\* The manifest can be patched: it exists and has every named container.
Patchable(c) == main[c.file] # NoFile /\ ~ContainerNotFound(main[c.file], c.patch)

PatchFails(m) ==
    /\ step[m] = "prepare"
    /\ ~Patchable(call[m])
    /\ PrepareFails(m, <<"manifest">>)
    /\ UNCHANGED remoteVars

\* git status of the patched worktree.
IsClean(commit) == commit.to = commit.from

NothingToCommit(m) ==
    /\ step[m] = "prepare"
    /\ Patchable(call[m])
    /\ IsClean(Prepared(call[m]))
    /\ PrepareFails(m, ErrNoChanges)
    /\ UNCHANGED remoteVars

PrepareBranch(m) ==
    /\ step[m] = "prepare"
    /\ Patchable(call[m])
    /\ ~IsClean(Prepared(call[m]))
    /\ step' = [step EXCEPT ![m] = "push"]
    /\ worktree' = [worktree EXCEPT ![m] = Prepared(call[m])]
    /\ UNCHANGED <<call, clones, result, remoteVars>>

\* The remote's part of a push: the ref now points at the commit.
UpdateRef(m) == branches' = [branches EXCEPT ![call[m].branch] = worktree[m]]

Push(m) ==
    /\ step[m] = "push"
    /\ PushCreatesRef(m)
    /\ UpdateRef(m)
    /\ Proceed(m, "create")
    /\ UNCHANGED <<main, log, pulls>>

\* NoErrAlreadyUpToDate is success.  The remote has the very same commit when
\* it was made in the same second from the same base with the same patch.
PushUpToDate(m) ==
    /\ step[m] = "push"
    /\ branches[call[m].branch] = worktree[m]
    /\ Proceed(m, "create")
    /\ UNCHANGED remoteVars

PushFails(m) ==
    /\ step[m] = "push"
    /\ ~PushCreatesRef(m) \/ "push" \in Faults
    /\ Return(m, <<"pushing branch">>, 0)
    /\ UNCHANGED remoteVars

PushReplyLost(m) ==
    /\ step[m] = "push"
    /\ "lost reply" \in Faults
    /\ PushCreatesRef(m)
    /\ UpdateRef(m)
    /\ Return(m, <<"pushing branch">>, 0)
    /\ UNCHANGED <<main, log, pulls>>

\* The forge's part of PullRequests.Create.
CreatePull(m) ==
    /\ ForgeAccepts(call[m].branch)
    /\ pulls' = Append(pulls, [head |-> call[m].branch, body |-> call[m].patch,
                               labelled |-> FALSE, state |-> "open"])

\* The next step of OpenPullRequest, or its last when no labels are asked for.
OpenPullRequest(m) ==
    /\ step[m] = "create"
    /\ CreatePull(m)
    /\ IF call[m].labels
       THEN /\ step' = [step EXCEPT ![m] = "label"]
            /\ result' = [result EXCEPT ![m].number = Len(pulls) + 1]
            /\ UNCHANGED <<call, clones, worktree>>
       ELSE Return(m, nil, Len(pulls) + 1)
    /\ UNCHANGED <<main, log, branches>>

CreateFails(m) ==
    /\ step[m] = "create"
    /\ ~ForgeAccepts(call[m].branch) \/ "create" \in Faults
    /\ Return(m, <<"opening pull request">>, 0)
    /\ UNCHANGED remoteVars

CreateReplyLost(m) ==
    /\ step[m] = "create"
    /\ "lost reply" \in Faults
    /\ CreatePull(m)
    /\ Return(m, <<"opening pull request">>, 0)
    /\ UNCHANGED <<main, log, branches>>

\* The forge's part of Issues.AddLabelsToIssue.
LabelPull(n) == pulls' = [pulls EXCEPT ![n].labelled = TRUE]

\* Mutant: the labels go to the newest pull request.
LabelsNewest(m) ==
    /\ step[m] = "label"
    /\ LabelPull(Len(pulls))
    /\ Return(m, nil, result[m].number)
    /\ UNCHANGED <<main, log, branches>>

\* Mutant: the number returned is the next one.
ReturnsNextNumber(m) ==
    /\ step[m] = "label"
    /\ LabelPull(result[m].number)
    /\ Return(m, nil, result[m].number + 1)
    /\ UNCHANGED <<main, log, branches>>

AddLabels(m) ==
    /\ step[m] = "label"
    /\ LabelPull(result[m].number)
    /\ Return(m, nil, result[m].number)
    /\ UNCHANGED <<main, log, branches>>

\* Mutant: an error of the label call is dropped.
IgnoresLabelError(m) ==
    /\ step[m] = "label"
    /\ "label" \in Faults
    /\ Return(m, nil, result[m].number)
    /\ UNCHANGED remoteVars

LabelFails(m) ==
    /\ step[m] = "label"
    /\ \/ "label" \in Faults /\ UNCHANGED pulls
       \/ "lost reply" \in Faults /\ LabelPull(result[m].number)
    /\ Return(m, <<"opening pull request">>, 0)
    /\ UNCHANGED <<main, log, branches>>

\* Nothing of a call is in memory any more.
Forget(m) ==
    /\ step' = [step EXCEPT ![m] = "idle"]
    /\ call' = [call EXCEPT ![m] = NoCall]
    /\ worktree' = [worktree EXCEPT ![m] = NoCommit]
    /\ result' = [result EXCEPT ![m] = NoOutcome]
    /\ UNCHANGED remoteVars

\* The caller takes the outcome and can call again.
Resume(m) == step[m] = "returned" /\ Forget(m) /\ UNCHANGED clones

\* The process ends inside a call and starts again.  No defer runs: the
\* directory stays, and nobody remembers its name.
Crash(m) ==
    /\ "crash" \in Faults
    /\ step[m] # "idle"
    /\ Forget(m)
    /\ clones' = [clones EXCEPT ![m] = IF @ = {} THEN {} ELSE {"ended"}]

-----------------------------------------------------------------------------
(* People and their tools, on the forge.                                   *)

Decide(n, state) == pulls' = [pulls EXCEPT ![n].state = state]

MergePull(n) ==
    /\ pulls[n].state = "open"
    /\ Cardinality(Decided) < MaxDecisions
    /\ Len(log) < MaxVersion
    /\ MergesCleanly(main, branches[pulls[n].head])
    /\ main' = Merged(main, branches[pulls[n].head])
    /\ log' = Append(log, pulls[n].head)
    /\ Decide(n, "merged")
    /\ UNCHANGED <<branches, managerVars>>

ClosePull(n) ==
    /\ pulls[n].state = "open"
    /\ Cardinality(Decided) < MaxDecisions
    /\ Decide(n, "closed")
    /\ UNCHANGED <<main, log, branches, managerVars>>

\* Deleting a branch closes the pull request that is open for it.
DeleteBranch(b) ==
    /\ MayDelete
    /\ branches[b] # NoCommit
    /\ OpenPulls(b) # {} => Cardinality(Decided) < MaxDecisions
    /\ branches' = [branches EXCEPT ![b] = NoCommit]
    /\ pulls' = [n \in DOMAIN pulls |->
                    IF n \in OpenPulls(b) THEN [pulls[n] EXCEPT !.state = "closed"]
                                          ELSE pulls[n]]
    /\ UNCHANGED <<main, log, managerVars>>

\* A person's commit on the base branch.
CommitToMain(f, manifest) ==
    /\ Len(log) < MaxVersion
    /\ main[f] # manifest
    /\ main' = [main EXCEPT ![f] = manifest]
    /\ log' = Append(log, Person)
    /\ UNCHANGED <<branches, pulls, managerVars>>

-----------------------------------------------------------------------------
Begin(m) == \E c \in Calls : OpenRecommendationPR(m, c)

\* What moves a call on, faults of the remote operations included.
CallStep(m) ==
    \/ CloneFails(m) \/ PatchFails(m) \/ NothingToCommit(m) \/ PrepareBranch(m)
    \/ Push(m) \/ PushUpToDate(m) \/ PushFails(m) \/ PushReplyLost(m)
    \/ OpenPullRequest(m) \/ CreateFails(m) \/ CreateReplyLost(m)
    \/ AddLabels(m) \/ LabelFails(m)

PersonStep ==
    \/ \E n \in DOMAIN pulls : MergePull(n) \/ ClosePull(n)
    \/ \E b \in Branches : DeleteBranch(b)
    \/ \E f \in Files, manifest \in Edits : CommitToMain(f, manifest)

Next ==
    \/ \E m \in Managers : Begin(m) \/ CallStep(m) \/ Resume(m) \/ Crash(m)
    \/ PersonStep

Spec == Init /\ [][Next]_vars

-----------------------------------------------------------------------------
(* Properties.                                                             *)

\* Every variable has its type; there are arguments exactly during a call,
\* and the number a call holds is one the forge has given out.
TypeOK ==
    /\ main \in Tree
    /\ log \in Seq(Branches \cup {Person})
    /\ branches \in [Branches -> Commit \cup {NoCommit}]
    /\ pulls \in Seq(Pull)
    /\ step \in [Managers -> {"idle", "prepare", "push", "create", "label", "returned"}]
    /\ call \in [Managers -> Call \cup {NoCall}]
    /\ clones \in [Managers -> SUBSET {"running", "ended"}]
    /\ worktree \in [Managers -> Commit \cup {NoCommit}]
    /\ result \in [Managers -> Outcome]
    /\ \A m \in Managers : /\ step[m] = "idle" <=> call[m] = NoCall
                           /\ result[m].number \in {0} \cup DOMAIN pulls

\* "The local worktree is always cleaned up, even on error" (manager.go:19):
\* the temporary directory of a call is there exactly until the call returns,
\* although PrepareBranch removes it on its own failures and Manager on all
\* later ones, and one that a call has left is there because the process ended.
WorktreeReclaimed ==
    \A m \in Managers :
        /\ "running" \in clones[m] <=> step[m] \in {"prepare", "push", "create", "label"}
        /\ "ended" \in clones[m] => "crash" \in Faults

\* A call that returns no error has left a pull request for its branch with
\* the table it was given, and the labels it was asked for, whatever faults,
\* other processes and people did between its steps.
OkMeansProposed ==
    \A m \in Managers :
        step[m] = "returned" /\ result[m].err = nil =>
            /\ result[m].number \in DOMAIN pulls
            /\ LET pull == pulls[result[m].number] IN
                 /\ pull.head = call[m].branch
                 /\ pull.body = call[m].patch
                 /\ call[m].labels => pull.labelled

\* "Review and merge to apply" (resourcepolicy_controller.go:314): merging a
\* pull request changes its one file, in what the table in its body names and
\* to what it says there.  A row is not applied only if the file had its value
\* when the commit was made, and a person has changed it since.  The body is
\* written by one remote operation and the branch by an earlier one, so this
\* needs every operation in between to leave the pair matched; it is claimed of
\* a single manager, or where nobody deletes branches.
MergeAppliesBody ==
    [][\A n \in DOMAIN pulls :
          pulls[n].state = "open" /\ pulls'[n].state = "merged" =>
              LET commit == branches[pulls[n].head]
                  body == pulls[n].body
                  base == commit.from.res
                  before == main[commit.file].res
                  after == main'[commit.file].res
              IN  /\ DOMAIN after = DOMAIN before
                  /\ \A c \in DOMAIN after :
                        after[c] # before[c] => c \in DOMAIN body /\ after[c] = body[c]
                  /\ \A c \in DOMAIN body :
                        \/ c \in DOMAIN after /\ after[c] = body[c]
                        \/ c \in DOMAIN base /\ base[c] = body[c]
                  /\ \A other \in Files \ {commit.file} : main'[other] = main[other]]_vars

\* The promise of ReviewGate.tla: only people's edits and accepted proposals
\* reach the base branch, and no process replaces a published branch.
Gate == INSTANCE ReviewGate WITH
    proposals <- branches,
    submitted <- {b \in Branches : OpenPulls(b) # {}},
    Proposal <- Commit,
    NoProposal <- NoCommit,
    Accepted <- Merged

ChangesOnlyThroughReview == Gate!Spec
=============================================================================
