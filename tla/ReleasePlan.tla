---------------------------- MODULE ReleasePlan ----------------------------
(***************************************************************************)
(* core/planner: which packages a set of changesets releases, at which     *)
(* versions, and which dependency ranges are rewritten.                    *)
(*                                                                         *)
(* Plan repeats two passes until neither changes anything: a cascade over  *)
(* the dependency edges and the coordination of the linked, fixed and      *)
(* lockstep groups.  Each pass is an action here, so that its termination  *)
(* and the orders it is run in are questions for the model checker; the    *)
(* order of the changesets and of the lockstep groups (a Go map) is chosen *)
(* nondeterministically.                                                   *)
(*                                                                         *)
(* Versions are stable ones, <<major, minor, patch>>.  A range is a caret, *)
(* an exact version, or none (a project reference).  Changelog text,       *)
(* prereleases, snapshots and versions chosen by hand are left out.        *)
(***************************************************************************)
EXTENDS Integers, FiniteSets, Sequences, SequencesExt

CONSTANTS PackageSeq,  \* the workspace's packages, in discovery order
          EdgeSeq,     \* its dependencies, [from, to, kind], in declared order
          Workspaces   \* the configurations to plan for: see WorkspaceType

None == 0
Patch == 1
Minor == 2
Major == 3
Bumps == None .. Major
Unset == -1

\* Nothing is released from a repository without packages (forge/forge.go:120).
ASSUME PackageAssumption ==
    PackageSeq \in Seq(ToSet(PackageSeq)) /\ Len(PackageSeq) >= 1

Packages == ToSet(PackageSeq)
Edges == ToSet(EdgeSeq)
Groups == UNION {[1 .. n -> Packages] : n \in 1 .. Len(PackageSeq)}

WorkspaceType ==
    [ops : [Edges -> {"caret", "exact", "none"}],  \* the ranges' operators
     linked : Seq(Groups), fixed : Seq(Groups),    \* the config's groups
     files : SUBSET Groups,        \* packages that share a version file
     ignored : SUBSET Packages,
     preMajor : BOOLEAN,           \* versioning.bumpMinorPreMajor
     threshold : Bumps,            \* updateInternalDependencies
     versions : [Packages -> Nat \X Nat \X Nat],
     changesets : SUBSET [name : Packages, bump : Bumps],
     trouble : Nat, more : 0 .. 1] \* bounds: faults and unusual runs; later changesets
ASSUME WorkspaceAssumption ==
    \A w \in Workspaces : w \in WorkspaceType /\ IsFiniteSet(w.files)

ASSUME EdgeAssumption ==
    /\ EdgeSeq \in Seq(Edges)
    /\ \A e \in Edges : e.from # e.to /\ {e.from, e.to} \subseteq Packages
                        /\ e.kind \in {"normal", "dev"}

\* Packages that share a version file are read from it, and have its version
\* (dotnet.go: Discover).
ASSUME FileAssumption ==
    \A w \in Workspaces : \A g \in w.files : \A p, q \in ToSet(g) :
        w.versions[p] = w.versions[q]

\* Nothing in config rejects overlapping groups, but Plan need not end on
\* them: two groups that pull one package to two versions take turns.
Members(ws) == [i \in 1 .. Len(ws.linked \o ws.fixed) |->
                  ToSet((ws.linked \o ws.fixed)[i])]
ASSUME DisjointAssumption ==
    \A ws \in Workspaces :
        LET m == Members(ws)  f == {ToSet(g) : g \in ws.files}
        IN  /\ \A i, j \in DOMAIN m : i # j => m[i] \cap m[j] = {}
            /\ \A i \in DOMAIN m, g \in f : m[i] \cap g = {}
            /\ \A g, h \in f : g # h => g \cap h = {}

VARIABLES ws,       \* the workspace's configuration
          vers,     \* the version each manifest has
          ats,      \* the version each range has behind its operator
          pending,  \* changesets on disk
          phase,    \* of the plan: "none", "cascade", "coordinate", "planned"
          rel,      \* the modules in the plan, by name
          order,    \* their names in the order they joined
          plan      \* the finished plan: modules to write, in order

planVars == <<phase, rel, order, plan>>
----------------------------------------------------------------------------
\* Versions and ranges.

Raise(v, bump) ==
    CASE bump = Major -> <<v[1] + 1, 0, 0>>
      [] bump = Minor -> <<v[1], v[2] + 1, 0>>
      [] bump = Patch -> <<v[1], v[2], v[3] + 1>>
      [] OTHER -> v

Older(v, w) == \/ v[1] < w[1]
               \/ v[1] = w[1] /\ v[2] < w[2]
               \/ v[1] = w[1] /\ v[2] = w[2] /\ v[3] < w[3]

\* The first version a caret range on v leaves out.
CaretTop(v) == IF v[1] # 0 THEN <<v[1] + 1, 0, 0>>
               ELSE IF v[2] # 0 THEN <<0, v[2] + 1, 0>>
               ELSE <<0, 0, v[3] + 1>>

\* A reference with no range is out of every range.
InRange(op, at, v) ==
    CASE op = "caret" -> ~Older(v, at) /\ Older(v, CaretTop(at))
      [] op = "exact" -> v = at
      [] OTHER -> FALSE

Newest(names) == CHOOSE v \in {vers[p] : p \in names} :
                    \A p \in names : ~Older(v, vers[p])
Highest(S) == CHOOSE b \in S : \A c \in S : c <= b
----------------------------------------------------------------------------
\* Modules.  group is the bump a group gave, Unset if none did.

New(p) == [current |-> vers[p], asked |-> None, cascade |-> None, group |-> Unset]

HighestBump(m) ==
    IF m.group # Unset THEN m.group
    ELSE LET h == Highest({m.cascade, m.asked})
         IN  IF h = Major /\ ws.preMajor /\ m.current[1] = 0 THEN Minor ELSE h

NewVersion(m) == Raise(m.current, HighestBump(m))

Kept == {c \in pending : c.name \in ws.ignored}
Asked(p) == Highest({None} \cup {c.bump : c \in {d \in pending \ Kept : d.name = p}})

EnterUnlisted(st, p) ==   \* mutant: the package is not put in the order
    [st EXCEPT !.rel = [q \in DOMAIN @ \cup {p} |-> IF q = p THEN New(p) ELSE @[q]]]
Enter(st, p) ==
    [st EXCEPT !.rel = [q \in DOMAIN @ \cup {p} |-> IF q = p THEN New(p) ELSE @[q]],
               !.order = Append(@, p)]

PullNew(st, e, v) ==   \* mutant: a package in the plan already is not pulled again
    IF InRange(ws.ops[e], ats[e], v) \/ e.from \in DOMAIN st.rel THEN st
    ELSE LET s == [Enter(st, e.from) EXCEPT !.changed = TRUE]
         IN  IF e.kind = "dev" THEN s ELSE [s EXCEPT !.rel[e.from].cascade = Patch]

\* One dependent of a releasing package, whose new version is v.
Pull(st, e, v) ==
    LET s == IF e.from \in DOMAIN st.rel THEN st
             ELSE [Enter(st, e.from) EXCEPT !.changed = TRUE]
    IN  IF InRange(ws.ops[e], ats[e], v) THEN st
        ELSE IF e.kind = "dev" \/ s.rel[e.from].cascade >= Patch THEN s
        ELSE [s EXCEPT !.rel[e.from].cascade = Patch, !.changed = TRUE]

Visit(st, p) ==
    IF HighestBump(st.rel[p]) = None THEN st
    ELSE LET v == NewVersion(st.rel[p])
             Step(s, e) == IF e.to = p THEN Pull(s, e, v) ELSE s
         IN  FoldLeft(Step, st, EdgeSeq)

Releasing(r, names) == {p \in names \cap DOMAIN r : HighestBump(r[p]) # None}

CoordinateAlways(st, p, v, bump) ==   \* mutant: every visit counts
    [st EXCEPT !.rel[p] = [@ EXCEPT !.current = v, !.group = bump],
               !.changed = TRUE]

\* A member takes its group's version and bump; one that already has them
\* does not count as a change.
Coordinate(st, p, v, bump) ==
    LET m == st.rel[p]
    IN  IF m.group = bump /\ m.current = v THEN st
        ELSE [st EXCEPT !.rel[p] = [@ EXCEPT !.current = v, !.group = bump],
                        !.changed = TRUE]

Pulled(st, g, p, v, bump) ==
    IF g.kind = "linked"
    THEN IF p \in Releasing(st.rel, {p}) THEN Coordinate(st, p, v, bump) ELSE st
    ELSE IF p \in ws.ignored THEN st
    ELSE Coordinate(IF p \in DOMAIN st.rel THEN st ELSE Enter(st, p), p, v, bump)

CoordinateGroupOwn(st, g) ==   \* mutant: the group moves from its members' own versions
    LET releasing == Releasing(st.rel, ToSet(g.names))
        bump == Highest({HighestBump(st.rel[p]) : p \in releasing})
        Step(s, p) == Pulled(s, g, p, vers[p], bump)
    IN  IF releasing = {} THEN st ELSE FoldLeft(Step, st, g.names)
CoordinateGroup(st, g) ==
    LET releasing == Releasing(st.rel, ToSet(g.names))
        bump == Highest({HighestBump(st.rel[p]) : p \in releasing})
        v == Newest(ToSet(g.names))
        Step(s, p) == Pulled(s, g, p, v, bump)
    IN  IF releasing = {} THEN st ELSE FoldLeft(Step, st, g.names)

AsGroups(kind, s) == [i \in 1 .. Len(s) |-> [kind |-> kind, names |-> s[i]]]
----------------------------------------------------------------------------
\* The finished plan.

\* The edges of p that its release (or its range-only rewrite) follows.
Links(p) ==
    {e \in Edges : e.from = p /\ e.to \in Releasing(rel, Packages)
        /\ (InRange(ws.ops[e], ats[e], NewVersion(rel[e.to]))
              => HighestBump(rel[p]) # None
                 /\ HighestBump(rel[e.to]) >= ws.threshold)}
Rewrites(p) == {e \in Links(p) : ws.ops[e] # "none"}

\* An ignored package is demoted to its range rewrites; what a group set stays.
Demote(m) == [m EXCEPT !.cascade = None, !.asked = None]

Planned(p) == IF p \in ws.ignored THEN Rewrites(p) # {}
              ELSE HighestBump(rel[p]) # None \/ Rewrites(p) # {}

Module(p) ==
    [name |-> p,
     version |-> NewVersion(IF p \in ws.ignored THEN Demote(rel[p]) ELSE rel[p]),
     rangeOnly |-> p \in ws.ignored \/ HighestBump(rel[p]) = None,
     ranges |-> [e \in Rewrites(p) |-> NewVersion(rel[e.to])]]

Joined(modules, p) == IF Planned(p) THEN Append(modules, Module(p)) ELSE modules
Assemble == FoldLeft(Joined, <<>>, order)
----------------------------------------------------------------------------
\* Plan: the modules the changesets name, then passes until nothing changes.

Named == {c.name : c \in pending \ Kept}

BeginPlan ==
    /\ phase = "none"
    /\ phase' = "cascade"
    /\ order' \in SetToSeqs(Named)
    /\ rel' = [p \in Named |-> [New(p) EXCEPT !.asked = Asked(p)]]
    /\ UNCHANGED <<ws, vers, ats, pending, plan>>

Cascade ==
    /\ phase = "cascade"
    /\ LET st == FoldLeft(Visit, [rel |-> rel, order |-> order, changed |-> FALSE],
                          order)
       IN  /\ rel' = st.rel /\ order' = st.order
           /\ phase' = IF st.changed THEN "cascade" ELSE "coordinate"
    /\ UNCHANGED <<ws, vers, ats, pending, plan>>

CoordinateGroups ==
    /\ phase = "coordinate"
    /\ \E files \in SetToSeqs(ws.files) :
          LET groups == AsGroups("linked", ws.linked) \o AsGroups("fixed", ws.fixed)
                          \o AsGroups("lockstep", files)
              st == FoldLeft(CoordinateGroup,
                             [rel |-> rel, order |-> order, changed |-> FALSE], groups)
          IN  /\ rel' = st.rel /\ order' = st.order
              /\ phase' = IF st.changed THEN "cascade" ELSE "planned"
    /\ plan' = IF phase' = "planned" THEN Assemble ELSE plan
    /\ UNCHANGED <<ws, vers, ats, pending>>

PlanNext == BeginPlan \/ Cascade \/ CoordinateGroups
----------------------------------------------------------------------------
\* A set of packages that answers for itself at the versions planned: it has
\* what was asked for, a dependent of every member out of its range, and the
\* whole of every fixed or lockstep group it touches.
ClosedUnder(S) ==
    /\ {p \in Packages : Asked(p) # None} \subseteq S
    /\ \A e \in Edges :
          e.kind = "normal" /\ e.to \in S
             /\ ~InRange(ws.ops[e], ats[e], NewVersion(rel[e.to]))
          => e.from \in S
    /\ \A g \in ToSet(ws.fixed) \cup ws.files :
          ToSet(g) \cap S # {} => ToSet(g) \ ws.ignored \subseteq S
=============================================================================
