------------------------------ MODULE MCGitOps ------------------------------
(***************************************************************************)
(* Instances of GitOps for TLC.                                            *)
(***************************************************************************)
EXTENDS GitOps, TLC

CONSTANTS app, sidecar, web1, web2, webYaml, Low, High, A, B

ManifestOf(canonical, res) == [canonical |-> canonical, res |-> res]

\* A hand-formatted manifest and one the patcher wrote.
MCTrees ==
    {[f \in {webYaml} |-> ManifestOf(k, app :> Low @@ sidecar :> Low)] : k \in BOOLEAN}

\* One container with labels, both without.
MCCalls ==
    {[branch |-> b, file |-> webYaml, patch |-> p, labels |-> DOMAIN p = {app}] :
        b \in Branches, p \in {app :> High, app :> Low @@ sidecar :> High}}

\* A person removes the file, drops the sidecar, reverts a change, or changes
\* the container that one of the calls finds as it should be.
MCEdits ==
    {NoFile, ManifestOf(FALSE, app :> Low),
     ManifestOf(TRUE, app :> Low @@ sidecar :> Low),
     ManifestOf(TRUE, app :> High @@ sidecar :> Low)}

AllFaults == {"mkdir", "clone", "push", "create", "label", "lost reply", "crash"}

TwoManagers == Permutations({A, B})
=============================================================================
