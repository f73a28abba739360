--------------------------- MODULE MCManifestTree ---------------------------
(***************************************************************************)
(* Streams for ManifestTree: Deployments that declare more or less of      *)
(* their resources, in one document or beside others, and the forms YAML   *)
(* gives them.                                                             *)
(***************************************************************************)
EXTENDS ManifestTree

MCTexts == STRING

\* The tree of a node with these subtrees, a function from keys to trees.
Tree(kind, below) ==
    LET node == [kind |-> kind, value |-> "", anchor |-> ""]
        places == UNION {{<<key>> \o p : p \in DOMAIN below[key]} : key \in DOMAIN below}
    IN  (<<>> :> node) @@ [p \in places |-> below[Head(p)][Tail(p)]]

Text(value) == <<>> :> Scalar(value)
Alias(anchor) == <<>> :> [Scalar(anchor) EXCEPT !.kind = "alias"]
Anchored(tree) == [tree EXCEPT ![<<>>].anchor = "shared"]
Map(below) == Tree("mapping", below)

Indices == <<"0", "1", "2">>
Items(trees) ==
    Tree("sequence", [i \in ToSet(SubSeq(Indices, 1, Len(trees))) |->
                         trees[CHOOSE n \in DOMAIN trees : Indices[n] = i]])

List(cpu, memory) == Map([cpu |-> Text(cpu), memory |-> Text(memory)])
OnlyCPU == Map([requests |-> Map([cpu |-> Text("1")])])
Full == Map([requests |-> List("1", "1"), limits |-> List("2", "2")])
NullRequests == Map([requests |-> Text("null")])
SharedCPU == Map([requests |-> Map([cpu |-> Alias("shared")])])
Empty == Map(<<>>)

Bare(name) == Map([name |-> Text(name)])
Container(name, resources) == Map([name |-> Text(name), resources |-> resources])

Proxy == Container("proxy", Full)

Workload(kind, podSpec) ==
    Map([kind |-> Text(kind), spec |-> Map([template |-> Map([spec |-> podSpec])])])

Deployment(containers) == Workload("Deployment", Map([containers |-> Items(containers)]))

WithInit ==
    Workload("Deployment", Map([initContainers |-> Items(<<Bare("migrate")>>),
                                containers |-> Items(<<Bare("app"), Proxy>>)]))

\* A list of the same name below a container, which the walk does not enter.
Nested == Map([name |-> Text("app"), containers |-> Items(<<Bare("migrate")>>)])

\* An aliased quantity that another field of the container repeats.
Echo ==
    Map([name |-> Text("app"), args |-> Items(<<Alias("shared")>>),
         resources |-> Map([requests |-> Map([cpu |-> Anchored(Text("1"))])])])

Apps == {Bare("app"), Nested} \cup
    {Container("app", r) : r \in {Empty, OnlyCPU, Full, NullRequests, Text("null")}}

MCManifests ==
    {<<Deployment(<<app, Proxy>>)>> : app \in Apps}
        \cup {<<WithInit>>, <<Map([kind |-> Text("Service"), spec |-> Empty]), WithInit>>,
              <<WithInit, Workload("Job", Map([containers |-> Items(<<Bare("app")>>)]))>>,
              <<Deployment(<<Bare("app")>>), Deployment(<<Proxy, Container("app", OnlyCPU)>>)>>,
              <<Deployment(<<Container("app", Anchored(Full)),
                             Container("proxy", Alias("shared"))>>)>>,
              <<Deployment(<<Container("proxy", Anchored(Full)),
                             Container("app", SharedCPU)>>)>>,
              <<Deployment(<<Echo>>)>>}

Patches(requests, limits) ==
    [requests |-> [cpu |-> requests[1], memory |-> requests[2]],
     limits |-> [cpu |-> limits[1], memory |-> limits[2]]]

Nothing == <<Untouched, Untouched>>

\* The controller's patches are complete; the patcher takes others, too.
Complete == Patches(<<"3", "3">>, <<"6", "6">>)
CPURequest == Patches(<<"4", Untouched>>, Nothing)
MemoryLimit == Patches(Nothing, <<Untouched, "8">>)

MCPatchSets ==
    {"app" :> patch : patch \in {Complete, CPURequest, MemoryLimit}}
        \cup {"app" :> Complete @@ "proxy" :> patch : patch \in {Complete, MemoryLimit}}
        \cup {"migrate" :> Complete, "migrate" :> CPURequest,
              "app" :> Complete @@ "typo" :> Complete}
=============================================================================
