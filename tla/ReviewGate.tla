----------------------------- MODULE ReviewGate -----------------------------
(***************************************************************************)
(* What kube-rightsizer promises about the manifests repository, with no   *)
(* word about how: every commit on the base branch is a person's own edit  *)
(* or a proposal a person accepted, accepting merges what was proposed into *)
(* the base as it is by then, and a proposal, once visible, is replaced by *)
(* no one -- it can only be accepted, closed or withdrawn.  GitOps.tla     *)
(* implements it.                                                          *)
(***************************************************************************)
EXTENDS Sequences

CONSTANTS Branches,     \* names a proposal can be published under
          Proposal,     \* changes that can be proposed
          NoProposal,   \* nothing is published under a name
          Tree,         \* contents the base branch can have
          Person,       \* the author of an edit in the log
          Accepted(_, _)  \* the contents after a proposal is taken in

VARIABLES main,         \* contents of the base branch
          log,          \* who made each of its commits: Person, or a branch
          proposals,    \* what is published under each name
          submitted     \* names waiting for a decision

gateVars == <<main, log, proposals, submitted>>

Published(b) == proposals[b] # NoProposal

Init ==
    /\ main \in Tree
    /\ log = <<>>
    /\ proposals = [b \in Branches |-> NoProposal]
    /\ submitted = {}

Publish(b) ==
    /\ ~Published(b)
    /\ proposals'[b] \in Proposal
    /\ proposals' = [proposals EXCEPT ![b] = proposals'[b]]
    /\ UNCHANGED <<main, log, submitted>>

Submit(b) ==
    /\ Published(b)
    /\ b \notin submitted
    /\ submitted' = submitted \cup {b}
    /\ UNCHANGED <<main, log, proposals>>

Accept(b) ==
    /\ b \in submitted
    /\ log' = Append(log, b)
    /\ main' = Accepted(main, proposals[b])
    /\ submitted' = submitted \ {b}
    /\ UNCHANGED proposals

Close(b) ==
    /\ b \in submitted
    /\ submitted' = submitted \ {b}
    /\ UNCHANGED <<main, log, proposals>>

Withdraw(b) ==
    /\ Published(b)
    /\ proposals' = [proposals EXCEPT ![b] = NoProposal]
    /\ submitted' = submitted \ {b}
    /\ UNCHANGED <<main, log>>

Edit ==
    /\ main' \in Tree
    /\ log' = Append(log, Person)
    /\ UNCHANGED <<proposals, submitted>>

Next ==
    \/ \E b \in Branches :
          Publish(b) \/ Submit(b) \/ Accept(b) \/ Close(b) \/ Withdraw(b)
    \/ Edit

Spec == Init /\ [][Next]_gateVars
=============================================================================
