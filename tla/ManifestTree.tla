---------------------------- MODULE ManifestTree ----------------------------
(***************************************************************************)
(* internal/patch on the tree of yaml.v3 nodes: how ApplyDeploymentPatches *)
(* finds the containers of a stream of documents and rewrites their        *)
(* resources, and when that is what Manifest.tla says of it.               *)
(*                                                                         *)
(* A document is a function from places to nodes.  A place is the sequence *)
(* of keys that leads to a node from the top of its document; an item of a *)
(* sequence has its index, as a string, for a key.  The order of a         *)
(* mapping's keys, comments and style are left out, and so is a sequence   *)
(* where the API wants a mapping.                                          *)
(*                                                                         *)
(* The stream is patched again and again, as the base branch is by one     *)
(* merged pull request after the other.  The encoder looks at the content  *)
(* of mappings and sequences and at the value of scalars and aliases: what *)
(* the patcher adds anywhere else is lost.                                 *)
(***************************************************************************)
EXTENDS Naturals, Sequences, SequencesExt

CONSTANTS Texts,       \* keys and values of YAML
          Manifests,   \* streams: sequences of documents
          PatchSets    \* functions from container names to ContainerPatch

Dimensions == {"cpu", "memory"}
Sections == {"requests", "limits"}

\* A ContainerPatch has a quantity for each section and dimension; "" leaves
\* that one untouched.
ContainerPatch == [Sections -> [Dimensions -> Texts]]
Untouched == ""

ASSUME TextsAssumption ==
    Dimensions \cup Sections \cup {"spec", "template", "containers", "initContainers",
                                  "kind", "name", "resources", Untouched} \subseteq Texts

Node == [kind : {"mapping", "sequence", "scalar", "alias"}, value : Texts, anchor : Texts]

Mapping == [kind |-> "mapping", value |-> "", anchor |-> ""]
Scalar(value) == [kind |-> "scalar", value |-> value, anchor |-> ""]

\* Whatever is in a document is in a mapping or a sequence, up to the top.
IsDocument(doc) ==
    /\ DOMAIN doc \subseteq Seq(Texts)
    /\ <<>> \in DOMAIN doc
    /\ \A p \in DOMAIN doc : doc[p] \in Node
    /\ \A p \in DOMAIN doc \ {<<>>} :
          Front(p) \in DOMAIN doc /\ doc[Front(p)].kind \in {"mapping", "sequence"}

IsStream(stream) == \A i \in DOMAIN stream : IsDocument(stream[i])

ASSUME ManifestsAssumption == \A stream \in Manifests : IsStream(stream)

ASSUME PatchSetsAssumption ==
    \A ps \in PatchSets : DOMAIN ps \subseteq Texts /\ \A n \in DOMAIN ps : ps[n] \in ContainerPatch

VARIABLES docs,      \* the stream in the base branch
          patches,   \* what it was last patched with
          outcome    \* of that: "none", "patched", "not found", "unparsable"

treeVars == <<docs, patches, outcome>>

\* The place of a section of a container's resources.
Section(c, s) == Append(Append(c, "resources"), s)

-----------------------------------------------------------------------------
(* Patching the containers at given places.  Their subtrees are disjoint,  *)
(* so what is done to one after the other is done to all at once here.     *)

IsMapping(doc, p) == p \in DOMAIN doc /\ doc[p].kind = "mapping"

MapValue(doc, p, key) ==
    IF IsMapping(doc, p) /\ Append(p, key) \in DOMAIN doc /\ doc[Append(p, key)].kind = "scalar"
    THEN doc[Append(p, key)].value ELSE ""

\* Mutant: what is added to a null or to an alias is written, too.
AddsAnywhere(doc, places) == places \ DOMAIN doc

\* Those of the places that can be added to a document.
Addable(doc, places) == {p \in places \ DOMAIN doc : IsMapping(doc, Front(p))}

\* What is there is kept, a mapping or not.
EnsureChildMapping(doc, places) ==
    [p \in DOMAIN doc \cup Addable(doc, places) |-> IF p \in DOMAIN doc THEN doc[p] ELSE Mapping]

\* Mutant: a node that is there is replaced, its anchor is lost.
ReplacesNode(doc, values) ==
    LET places == {p \in DOMAIN values : values[p] # Untouched}
    IN  [p \in DOMAIN doc \cup Addable(doc, places) |->
            IF p \notin DOMAIN doc \/ (p \in places /\ doc[p].kind = "scalar")
            THEN Scalar(values[p]) ELSE doc[p]]

\* Only the value of a node that is there is replaced.
SetScalar(doc, values) ==
    LET places == {p \in DOMAIN values : values[p] # Untouched}
        Changed(p) == p \in places /\ doc[p].kind \in {"scalar", "alias"}
    IN  [p \in DOMAIN doc \cup Addable(doc, places) |->
            IF p \notin DOMAIN doc THEN Scalar(values[p])
            ELSE IF Changed(p) THEN [doc[p] EXCEPT !.value = values[p]] ELSE doc[p]]

\* Mutant: each section is written if the patch has its cpu.
NeedsCPU(patch, section) == patch[section]["cpu"] # Untouched

Touches(patch, section) == \E d \in Dimensions : patch[section][d] # Untouched

\* patchOf: the patch for each of the containers.
ResourcesPlaces(patchOf) == {Append(c, "resources") : c \in DOMAIN patchOf}

SectionPlaces(patchOf) ==
    {Append(r, s) : r \in ResourcesPlaces(patchOf), s \in Sections}

TouchedSections(patchOf) ==
    {l \in SectionPlaces(patchOf) : Touches(patchOf[Front(Front(l))], Last(l))}

\* The quantities for the places below the sections.
Quantities(patchOf) ==
    [q \in {Append(l, d) : l \in SectionPlaces(patchOf), d \in Dimensions} |->
        patchOf[Front(Front(Front(q)))][Last(Front(q))][Last(q)]]

\* Mutant: what is written is looked up before the mappings are created.
ScalarsFirst(doc, patchOf) ==
    EnsureChildMapping(EnsureChildMapping(SetScalar(doc, Quantities(patchOf)),
                                          ResourcesPlaces(patchOf)), TouchedSections(patchOf))

PatchContainerResources(doc, patchOf) ==
    SetScalar(EnsureChildMapping(EnsureChildMapping(doc, ResourcesPlaces(patchOf)),
                                 TouchedSections(patchOf)), Quantities(patchOf))

-----------------------------------------------------------------------------
(* Walking the documents.                                                  *)

\* Mutant: initContainers are overlooked.
OnlyContainers(doc, p) ==
    p \in DOMAIN doc \ {<<>>} /\ doc[p].kind = "sequence" /\ Last(p) = "containers"

IsContainerList(doc, p) ==
    /\ p \in DOMAIN doc \ {<<>>}
    /\ IsMapping(doc, Front(p))
    /\ doc[p].kind = "sequence"
    /\ Last(p) \in {"containers", "initContainers"}

\* The nodes walkContainers calls back for: the items of container lists,
\* wherever they are, but not below another container list.
Visited(doc) ==
    {p \in DOMAIN doc \ {<<>>} :
        /\ IsContainerList(doc, Front(p))
        /\ \A n \in 0..Len(p) - 2 : ~IsContainerList(doc, SubSeq(p, 1, n))}

\* byName[mapValue(containerNode, "name")]
ByPlace(doc, ps) ==
    [c \in {v \in Visited(doc) : MapValue(doc, v, "name") \in DOMAIN ps} |->
        ps[MapValue(doc, c, "name")]]

Patched(doc, ps) == PatchContainerResources(doc, ByPlace(doc, ps))

Names(stream) ==
    UNION {{MapValue(stream[i], c, "name") : c \in Visited(stream[i])} : i \in DOMAIN stream}

ContainerNotFound(stream, ps) == ~(DOMAIN ps \subseteq Names(stream))

ApplyDeploymentPatches(stream, ps) == [i \in DOMAIN stream |-> Patched(stream[i], ps)]

-----------------------------------------------------------------------------
Init ==
    /\ docs \in Manifests
    /\ patches = <<>>
    /\ outcome = "none"

\* decodeAll: every alias has its anchor in the document.
Parses(stream) ==
    \A i \in DOMAIN stream : \A p \in DOMAIN stream[i] :
        stream[i][p].kind = "alias" =>
            \E q \in DOMAIN stream[i] : stream[i][q].anchor = stream[i][p].value

\* All or nothing: with a name that is not found, no output is produced.
Patch(ps) ==
    /\ patches' = ps
    /\ \/ ~Parses(docs) /\ outcome' = "unparsable" /\ UNCHANGED docs
       \/ Parses(docs) /\ ContainerNotFound(docs, ps) /\ outcome' = "not found" /\ UNCHANGED docs
       \/ /\ Parses(docs) /\ ~ContainerNotFound(docs, ps)
          /\ outcome' = "patched"
          /\ docs' = ApplyDeploymentPatches(docs, ps)

Next == \E ps \in PatchSets : Patch(ps)

Spec == Init /\ [][Next]_treeVars

-----------------------------------------------------------------------------
(* What the API server reads of a document.                                *)

PodSpec == <<"spec", "template", "spec">>
ContainerLists == {Append(PodSpec, "containers"), Append(PodSpec, "initContainers")}

\* A Deployment has its lists of containers in the pod template and, since
\* the API has no other field of these names with a list, nowhere else.
IsDeployment(doc) ==
    /\ MapValue(doc, <<>>, "kind") = "Deployment"
    /\ IsMapping(doc, PodSpec)
    /\ \A p \in DOMAIN doc :
          IF p \in ContainerLists THEN doc[p].kind \in {"sequence", "scalar"}
                                  ELSE ~IsContainerList(doc, p)

PodContainers(doc) == {c \in DOMAIN doc \ {<<>>} : Front(c) \in ContainerLists}

ContainerNames(doc) == {MapValue(doc, c, "name") : c \in PodContainers(doc)}

Setting(doc, c) == [s \in Sections |-> [d \in Dimensions |-> MapValue(doc, Section(c, s), d)]]

Declarations(doc, name) == {c \in PodContainers(doc) : MapValue(doc, c, "name") = name}

\* The Deployment's containers and their resources.
Resources(doc) ==
    [name \in ContainerNames(doc) |-> Setting(doc, CHOOSE c \in Declarations(doc, name) : TRUE)]

\* A container whose resources, as far as there are any, have the API's form.
Writable(doc, c) ==
    /\ IsMapping(doc, c)
    /\ \A p \in {Append(c, "resources")} \cup {Section(c, s) : s \in Sections} :
          p \in DOMAIN doc => IsMapping(doc, p)
    /\ \A s \in Sections, d \in Dimensions :
          LET p == Append(Section(c, s), d) IN p \in DOMAIN doc => doc[p].kind = "scalar"

\* Plain: patching finds nothing else than the API server does.
Plain(doc) == IsDeployment(doc) /\ \A c \in PodContainers(doc) : Writable(doc, c)

-----------------------------------------------------------------------------
(* Properties.                                                             *)

Promise == INSTANCE Manifest WITH
    Containers <- UNION {DOMAIN ps : ps \in PatchSets},
    Values <- ContainerPatch

\* Nothing is written where the encoder would not find it: patching leaves
\* documents whose nodes are all in a mapping or a sequence.
TypeOK ==
    /\ IsStream(docs)
    /\ patches \in PatchSets \cup {<<>>}
    /\ outcome \in {"none", "patched", "not found", "unparsable"}

\* What a setting becomes: "empty strings leave that specific field untouched"
\* (patch.go:18).
Overlaid(setting, patch) ==
    [s \in Sections |->
        [d \in Dimensions |-> IF patch[s][d] = Untouched THEN setting[s][d] ELSE patch[s][d]]]

\* On Deployments whose resources have the API's form, however little of them
\* they declare, patching the nodes is what Manifest.tla says: the named
\* containers get what the patch has, all else of them and all other
\* containers stay.  (Nulls and aliases in the place of mappings and
\* quantities do not have that form; aliases elsewhere may.)
PatchesAsPromised ==
    [][outcome' = "patched" =>
          \A i \in DOMAIN docs : Plain(docs[i]) =>
              LET before == [canonical |-> TRUE, res |-> Resources(docs[i])]
                  patch == [name \in DOMAIN patches' \cap DOMAIN before.res |->
                               Overlaid(before.res[name], patches'[name])]
              IN  Resources(docs'[i]) = Promise!ApplyDeploymentPatches(before, patch).res]_treeVars

\* "A typo in a controller-generated patch can never silently no-op"
\* (patch.go:47): in a stream of Deployments a name is missed exactly when no
\* Deployment has such a container or init container.
TyposAreReported ==
    (\A i \in DOMAIN docs : IsDeployment(docs[i])) =>
        LET declared == UNION {ContainerNames(docs[i]) : i \in DOMAIN docs}
        IN  \A ps \in PatchSets :
                ContainerNotFound(docs, ps) <=>
                    Promise!ContainerNotFound([res |-> [n \in declared |-> ps]], ps)

\* What is patched can be parsed and patched again: anchors outlive the values
\* they stand on.  An aliased quantity is the exception: the alias is renamed to
\* the quantity (patch.go:203).
StaysParsable ==
    [][LET Unshared(doc) ==
              \A c \in Visited(doc), s \in Sections, d \in Dimensions :
                  LET p == Append(Section(c, s), d) IN p \in DOMAIN doc => doc[p].kind # "alias"
       IN  Parses(docs) /\ (\A i \in DOMAIN docs : Unshared(docs[i])) => Parses(docs')]_treeVars

\* Once a stream is patched, patching it the same way again finds the same
\* containers and changes nothing, so that the worktree is clean
\* (gitops.go:149) -- with nulls and aliases, too, where the first time may
\* have had no effect.
AgainIsClean ==
    outcome = "patched" =>
        ~ContainerNotFound(docs, patches) /\ ApplyDeploymentPatches(docs, patches) = docs
=============================================================================
