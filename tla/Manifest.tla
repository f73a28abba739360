------------------------------ MODULE Manifest ------------------------------
(***************************************************************************)
(* internal/patch: what ApplyDeploymentPatches does to one manifest file.  *)
(*                                                                         *)
(* A manifest is the resources of each container it declares (requests and *)
(* limits of both dimensions as one value) and whether its bytes are what  *)
(* yaml.v3 re-encodes with two-space indent ("canonical"): the patcher     *)
(* rewrites the whole file, so a hand-formatted file changes even when no  *)
(* value does.                                                             *)
(***************************************************************************)
EXTENDS Naturals, Sequences

CONSTANTS Containers,   \* container names
          Values        \* resource settings a container can have

\* Functions from some of the containers to values.
PartialResources == UNION {[D -> Values] : D \in SUBSET Containers}

Manifest == [canonical : BOOLEAN, res : PartialResources]

\* []ContainerPatch, indexed by name as byName is; never empty in a call.
Patch == {p \in PartialResources : DOMAIN p # {}}

\* ErrContainerNotFound: some patch names a container no document has.
ContainerNotFound(manifest, patch) ==
    ~(DOMAIN patch \subseteq DOMAIN manifest.res)

\* The re-encoded manifest with the named containers' resources replaced.
ApplyDeploymentPatches(manifest, patch) ==
    [canonical |-> TRUE,
     res |-> [c \in DOMAIN manifest.res |->
                 IF c \in DOMAIN patch THEN patch[c] ELSE manifest.res[c]]]
=============================================================================
