---------------------------- MODULE MCReleaseRun ----------------------------
EXTENDS ReleaseRun

\* app and kit depend on lib, tool on kit; app uses tool for its own tests.
Edge(f, t, k) == [from |-> f, to |-> t, kind |-> k]
MCPackages == <<"lib", "kit", "tool", "app">>
MCEdges == <<Edge("kit", "lib", "normal"), Edge("tool", "kit", "normal"),
             Edge("app", "lib", "normal"), Edge("app", "tool", "dev")>>
MCOrder == <<"version", "commit", "publish", "tag", "push", "release">>
MCLater == {[name |-> "lib", bump |-> Patch]}

Workspace(ops, linked, fixed, files, ignored, pre, cs, t, n, versions) ==
    [ops |-> ops, linked |-> linked, fixed |-> fixed, files |-> files,
     ignored |-> ignored, preMajor |-> pre, threshold |-> Patch, changesets |-> cs,
     trouble |-> t, more |-> n, versions |-> versions]
Versions(a, b) == [p \in ToSet(MCPackages) |-> IF p = "lib" THEN a ELSE
                                               IF p = "app" THEN b ELSE <<1, 0, 0>>]
Change(p, b) == [name |-> p, bump |-> b]
Changes == [name : ToSet(MCPackages), bump : {Minor, Major}]
ChangeSets == {S \in SUBSET Changes : Cardinality(S) \in 1 .. 2}

\* Every way to plan, each released once and without trouble.
Ops(lib, other) == [e \in ToSet(MCEdges) |-> IF e.kind = "dev" THEN "exact" ELSE
                                             IF e.to = "lib" THEN lib ELSE other]
Groupings == {<<l, f>> \in {<<>>, <<<<"lib", "app">>>>, <<<<"kit", "app">>>>}
                     \X {<<>>, <<<<"lib", "kit">>>>, <<<<"tool", "app">>>>} :
                \A m \in ToSet(l), n \in ToSet(f) : ToSet(m) \cap ToSet(n) = {}}
Smooth ==
    {Workspace(Ops(a, b), g[1], g[2], {}, {}, pre, cs, 0, 0, Versions(v, <<1, 2, 0>>)) :
       a, b \in {"caret", "exact", "none"}, g \in Groupings, pre \in BOOLEAN,
       cs \in ChangeSets, v \in {<<0, 1, 0>>, <<1, 1, 0>>}}
Passive ==   \* an ignored package, alone or reading a shared version file
    {Workspace(Ops("caret", b), <<>>, <<>>, f, {"app"}, FALSE, cs, 0, 0,
               Versions(<<1, 0, 0>>, <<1, 0, 0>>)) :
       b \in {"caret", "exact"}, f \in {{}, {<<"lib", "kit">>}}, cs \in ChangeSets}

\* A few that are cut short, fail and are killed, and release once more.
Old == Versions(<<0, 1, 0>>, <<1, 2, 0>>)
Rough ==
    {Workspace(Ops("caret", "exact"), <<>>, <<<<"lib", "app">>>>, {}, {}, TRUE,
               {Change("lib", Major)}, 2, 1, Old),
     Workspace(Ops("none", "none"), <<>>, <<>>, {<<"lib", "kit", "tool">>}, {"app"}, FALSE,
               {Change("kit", Minor)}, 1, 1, Versions(<<1, 0, 0>>, <<1, 0, 0>>)),
     Workspace(Ops("caret", "caret"), <<<<"kit", "app">>>>, <<>>, {}, {}, FALSE,
               {Change("lib", Minor), Change("tool", Major)}, 1, 1, Old)}

MCWorkspaces == Smooth \cup Passive \cup Rough

\* What the theorems about versions assume of ignored packages (IgnoredApart in
\* ReleaseRunProofs) is so in each of them.
ASSUME IgnoredApartHere == \A w \in Workspaces :
    /\ \A e \in Edges : e.to \in w.ignored => w.ops[e] = "none"
    /\ \A g \in w.files : ToSet(g) \cap w.ignored = {}
=============================================================================
