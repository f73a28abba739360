---------------------------- MODULE PolicyStatus ----------------------------
(***************************************************************************)
(* What a reader of a ResourcePolicy may rely on, with no word about       *)
(* caches, queues, runs or processes: every write of the status is one     *)
(* report on the policy as it is at that moment.  A report is made only of *)
(* a policy that exists and is to be reconciled, names its newest          *)
(* generation, holds at most one recommendation for each container, each   *)
(* allowed by the newest spec, and names no earlier pull request than the  *)
(* last report did.  Reconciler.tla implements it.                         *)
(***************************************************************************)
EXTENDS Naturals, Sequences

CONSTANTS Policies,
          Specs,          \* the specs people may write
          Reconciled(_),  \* specs of policies that are to be reconciled
          Allows(_, _, _) \* what may be recommended for a policy by its spec

VARIABLES specs,    \* every spec of a policy, by generation
          deleted,  \* the policies that are gone
          status    \* the last report: observed, recommendations, url

statusVars == <<specs, deleted, status>>

Newest(p) == specs[p][Len(specs[p])]

Init ==
    /\ specs \in [Policies -> {<<s>> : s \in Specs}]
    /\ deleted = {}
    /\ \A p \in Policies : status[p].observed = 0

OfOneContainer(recs) == \A r1, r2 \in recs : r1.pod = r2.pod => r1 = r2

Report(p) ==
    /\ p \notin deleted
    /\ Reconciled(Newest(p))
    /\ status'[p].observed = Len(specs[p])
    /\ status'[p].url >= status[p].url
    /\ OfOneContainer(status'[p].recommendations)
    /\ \A rec \in status'[p].recommendations : Allows(p, Newest(p), rec)
    /\ status' = [status EXCEPT ![p] = status'[p]]
    /\ UNCHANGED <<specs, deleted>>

Edit(p) ==
    /\ p \notin deleted
    /\ \E s \in Specs : specs' = [specs EXCEPT ![p] = Append(@, s)]
    /\ UNCHANGED <<deleted, status>>

Delete(p) ==
    /\ deleted' = deleted \cup {p}
    /\ UNCHANGED <<specs, status>>

Next == \E p \in Policies : Report(p) \/ Edit(p) \/ Delete(p)

Spec == Init /\ [][Next]_statusVars
=============================================================================
