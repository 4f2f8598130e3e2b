---------------------------- MODULE ReleaseRun ----------------------------
(***************************************************************************)
(* shiprig release: the steps of a release run in order (version, commit,  *)
(* build, publish, tag, push, release ...), stopping at the first failure; *)
(* the run records the step it stopped at, and a later run starts there.   *)
(*                                                                         *)
(* A run lives in one process: it can fail at any step, an upload can      *)
(* succeed and be reported as failed, and a kill records nothing.  What    *)
(* outlives it is the working tree (ReleasePlan's versions, ranges and     *)
(* changesets), the commit, the tags, the registries, the forge and the    *)
(* resume file.  The version step runs the planner and writes its plan     *)
(* under a file transaction.                                               *)
(*                                                                         *)
(* Hooks, scripts, confirmation gates and custom commands fail or not, and *)
(* are part of their step; --local, --rehearse and --dry-run are not       *)
(* modelled: they neither read nor write the resume file.  build, sign and *)
(* issues change nothing the model keeps.  The configured steps stay the   *)
(* same from run to run, so the resume file names one of them (the guard   *)
(* lets a run pass that finds a name it does not know); a disabled step is *)
(* one left out of Order, and conditions of steps (if) are not modelled.   *)
(***************************************************************************)
EXTENDS ReleasePlan

CONSTANTS Order,    \* names of the steps, in the order they run
          Later     \* changesets that land once a release is out

\* --from and the resume file know a step by its name.
ASSUME OrderAssumption ==
    /\ Order \in Seq(STRING) /\ Len(Order) >= 1
    /\ \A j, k \in DOMAIN Order : Order[j] = Order[k] => j = k

ASSUME LaterAssumption == Later \subseteq [name : Packages, bump : Bumps]

VARIABLES run,       \* the process's options, or Idle
          at,        \* the step it is at; Len(Order) + 1: the global after hooks
          i,         \* how far it is inside that step
          saved,     \* the transaction's copies of versions and ranges
          todo,      \* consumed changesets it has still to remove
          resume,    \* the resume file: the step to start from, 0 if none
          head,      \* the versions in the last commit
          tags,      \* local tags: [name, version, holds]
          remote,    \* pushed tags
          registry,  \* <<package, version>> published
          forge,     \* <<package, version>> with a forge release
          trouble, more,   \* faults and unusual runs, later changesets left (bounds)
          base, goal,      \* ghost: versions before this release, and its first plan
          owed,            \* ghost: steps of the release not completed yet
          mishaps          \* ghost: what happened that a guarantee does not cover

outside == <<head, tags, remote, registry, forge>>
ghosts == <<base, goal, owed, mishaps>>
bounds == <<trouble, more>>
tree == <<vers, ats, pending>>
vars == <<ws, tree, planVars, run, at, i, saved, todo, resume, outside, bounds, ghosts>>

Idle == [from |-> 0, to |-> 0, skip |-> {}, force |-> FALSE, empty |-> FALSE,
         live |-> FALSE]
Steps == 1 .. Len(Order)
Options == [from : 0 .. Len(Order), to : 0 .. Len(Order), skip : SUBSET Steps,
            force : BOOLEAN, empty : BOOLEAN, live : BOOLEAN]

\* What PendingRelease and nothingToVersion look at.
Waiting == {c \in pending \ Kept : c.bump # None}
----------------------------------------------------------------------------
\* The resolved steps of a run with options o, and the resume guard.

SkipReason(k, o) ==
    IF o.empty /\ Order[k] = "version" THEN "nothing"
    ELSE IF k < o.from THEN "from"
    ELSE IF o.to # 0 /\ k > o.to THEN "to"
    ELSE IF k \in o.skip THEN "skip"
    ELSE "run"
Enabled(o) == {k \in Steps : SkipReason(k, o) = "run"}

NextStep(o, k) == LET rest == {j \in Enabled(o) : j > k}
                  IN  IF rest = {} THEN Len(Order) + 1
                      ELSE CHOOSE j \in rest : \A l \in rest : j <= l

NeverRanPast(o) ==   \* mutant: the step the run stopped at counts as run
    IF resume = 0 \/ o.from <= resume THEN {}
    ELSE {k \in (resume + 1) .. (o.from - 1) : SkipReason(k, o) = "from"}

\* The steps a --from leaves out although the unfinished release never ran them.
NeverRan(o) ==
    IF resume = 0 \/ o.from <= resume THEN {}
    ELSE {k \in resume .. (o.from - 1) : SkipReason(k, o) = "from"}

RecordedPlainly(ok, stopped) ==   \* mutant: a narrowed run clears it like any other
    IF ~ok THEN stopped
    ELSE IF run.to \in 1 .. (Len(Order) - 1) THEN run.to + 1 ELSE 0

\* What recordResumeState writes: ok, or stopped at a step.
Recorded(ok, stopped) ==
    LET next == IF ~ok THEN stopped
                ELSE IF run.to \in 1 .. (Len(Order) - 1) THEN run.to + 1 ELSE 0
    IN  IF run.skip # {} /\ resume # 0 /\ (next = 0 \/ resume < next)
        THEN resume ELSE next
----------------------------------------------------------------------------
RunStep(name) == run.live /\ at \in Steps /\ Order[at] = name

\* Leaving the process: its plan and its transaction are gone.
Exit == /\ run' = Idle /\ at' = 0 /\ i' = 0 /\ saved' = <<>> /\ todo' = {}
        /\ phase' = "none" /\ rel' = <<>> /\ order' = <<>> /\ plan' = <<>>

StepDone == /\ at' = NextStep(run, at)
            /\ i' = 0
            /\ owed' = owed \ {at}

\* A step that fails ends the run, with its position on file.
Stop(why) == /\ Exit
             /\ resume' = Recorded(FALSE, at)
             /\ why = "trouble" => trouble > 0
             /\ trouble' = IF why = "trouble" THEN trouble - 1 ELSE trouble

Start(o) ==
    /\ ~run.live
    /\ NeverRan(o) = {} \/ o.force
    /\ run' = o
    /\ at' = NextStep(o, 0)
    \* ghost: a full run from the top owes every step, another only its own
    /\ owed' = owed \cup Enabled(IF o.from = 0 /\ o.skip = {} THEN [o EXCEPT !.to = 0] ELSE o)
    /\ mishaps' = mishaps \cup (IF o.skip # {} THEN {"narrowed"} ELSE {})
                          \cup (IF NeverRan(o) # {} THEN {"forced"} ELSE {})
    /\ UNCHANGED <<ws, tree, planVars, i, saved, todo, resume, outside, more, base, goal>>

\* Everything this tree says is released is out.
AllOut ==
    /\ Waiting = {}
    /\ \A p \in Packages \ ws.ignored :
          /\ <<p, vers[p]>> \in registry \cap forge
          /\ \E t \in remote : t.name = p /\ t.version = vers[p]

\* The operator runs the release again while it is not out: from the recorded
\* step, or from the top when there is something to version.
Retry == /\ ~AllOut
         /\ Start([from |-> IF Waiting = {} THEN resume ELSE 0, to |-> 0, skip |-> {},
                   force |-> FALSE, empty |-> Waiting = {}, live |-> TRUE])
         /\ UNCHANGED trouble

\* A run the operator narrows, cuts short or starts elsewhere.
OtherRun ==
    /\ trouble > 0
    /\ trouble' = trouble - 1
    /\ \E from \in 0 .. Len(Order), to \in 0 .. Len(Order),
          skip \in {{}} \cup {{k} : k \in Steps}, force \in BOOLEAN :
          Start([from |-> from, to |-> to, skip |-> skip, force |-> force,
                 empty |-> Waiting = {}, live |-> TRUE])
----------------------------------------------------------------------------
\* version: plan, write the modules one by one, then remove the changesets.

\* A version file's new version is that of every package that reads it.
Sharers(p) == {p} \cup UNION {ToSet(g) : g \in {f \in ws.files : p \in ToSet(f)}}
Written(v, mod) == [p \in Packages |-> IF p \in Sharers(mod.name) THEN mod.version ELSE v[p]]

Planning == /\ RunStep("version")
            /\ PlanNext
            /\ UNCHANGED <<run, at, i, saved, todo, resume, outside, bounds, ghosts>>

SetVersion ==
    /\ RunStep("version") /\ phase = "planned" /\ i < Len(plan)
    /\ i' = i + 1
    /\ saved' = IF i = 0 THEN <<vers, ats>> ELSE saved
    /\ vers' = Written(vers, plan[i + 1])
    /\ ats' = [e \in Edges |-> IF e \in DOMAIN plan[i + 1].ranges
                               THEN plan[i + 1].ranges[e] ELSE ats[e]]
    /\ todo' = IF i' = Len(plan) THEN pending \ Kept ELSE todo
    /\ goal' = IF i = 0 /\ goal = base THEN FoldLeft(Written, vers, plan) ELSE goal
    /\ UNCHANGED <<ws, pending, planVars, run, at, resume, outside, bounds, base, owed, mishaps>>

RollbackNothing == UNCHANGED <<vers, ats>>   \* mutant: earlier writes stay
\* A write that fails: what was written is put back, and the step fails.
Rollback == /\ vers' = IF saved = <<>> THEN vers ELSE saved[1]
            /\ ats' = IF saved = <<>> THEN ats ELSE saved[2]

SetVersionFails ==
    /\ RunStep("version") /\ phase = "planned" /\ i < Len(plan)
    /\ Rollback
    /\ Stop("trouble")
    /\ UNCHANGED <<ws, pending, outside, more, ghosts>>

\* A changeset that cannot be removed is only warned about.
RemoveChangeset ==
    /\ RunStep("version") /\ phase = "planned" /\ i = Len(plan)
    /\ \E c \in todo :
          /\ todo' = todo \ {c}
          /\ \/ pending' = pending \ {c} /\ UNCHANGED <<trouble, mishaps>>
             \/ /\ trouble > 0 /\ trouble' = trouble - 1
                /\ mishaps' = mishaps \cup {"left"} /\ UNCHANGED pending
    /\ UNCHANGED <<ws, vers, ats, planVars, run, at, i, saved, resume, outside, more,
                   base, goal, owed>>

VersionDone ==
    /\ RunStep("version") /\ phase = "planned" /\ i = Len(plan) /\ todo = {}
    /\ StepDone
    /\ phase' = "none" /\ rel' = <<>> /\ order' = <<>> /\ plan' = <<>> /\ saved' = <<>>
    /\ UNCHANGED <<ws, tree, run, todo, resume, outside, bounds, base, goal, mishaps>>
----------------------------------------------------------------------------
\* The other steps.  Each goes through the packages in order and passes over
\* what is there already; an ignored package has nothing outside.

Plain == {k \in Steps : Order[k] \notin {"version", "publish", "tag", "push", "release"}}

\* build, sign, issues; and commit, whose index may be clean already.
PlainStep ==
    /\ run.live /\ at \in Plain
    /\ head' = IF Order[at] = "commit" THEN vers ELSE head
    /\ StepDone
    /\ UNCHANGED <<ws, tree, planVars, run, saved, todo, resume, tags, remote, registry,
                   forge, bounds, base, goal, mishaps>>

Here == PackageSeq[i + 1]
Advance == IF i + 1 = Len(PackageSeq) THEN StepDone
           ELSE i' = i + 1 /\ UNCHANGED <<at, owed>>

\* What the step at hand does for the package at hand.
Tag(p) == [name |-> p, version |-> vers[p], holds |-> head[p]]
PublishOne(p) == registry' = registry \cup {<<p, vers[p]>>} /\ UNCHANGED <<tags, forge>>
TagOne(p) ==
    /\ tags' = IF \E t \in tags : t.name = p /\ t.version = vers[p]
               THEN tags ELSE tags \cup {Tag(p)}
    /\ UNCHANGED <<registry, forge>>
ReleaseOne(p) == forge' = forge \cup {<<p, vers[p]>>} /\ UNCHANGED <<registry, tags>>

ForPackage(p) ==
    IF p \in ws.ignored THEN UNCHANGED <<registry, tags, forge>>
    ELSE \/ Order[at] = "publish" /\ PublishOne(p)
         \/ Order[at] = "tag" /\ TagOne(p)
         \/ Order[at] = "release" /\ ReleaseOne(p)

\* publish refuses while changesets wait: these are the last release's versions.
Refused == Order[at] = "publish" /\ Waiting # {}

PackageStep ==
    /\ run.live /\ at \in Steps /\ Order[at] \in {"publish", "tag", "release"}
    /\ ~Refused
    /\ ForPackage(Here)
    /\ Advance
    /\ UNCHANGED <<ws, tree, planVars, run, saved, todo, resume, head, remote, bounds,
                   base, goal, mishaps>>

\* The registry or the forge has it, and the answer does not say so.
PackageLate ==
    /\ run.live /\ at \in Steps /\ Order[at] \in {"publish", "release"}
    /\ ~Refused
    /\ ForPackage(Here)
    /\ Stop("trouble")
    /\ UNCHANGED <<ws, tree, head, remote, more, ghosts>>

PublishRefused ==
    /\ run.live /\ at \in Steps /\ Refused
    /\ Stop("refused")
    /\ UNCHANGED <<ws, tree, outside, more, ghosts>>

\* git push --follow-tags takes every tag along.
Push ==
    /\ RunStep("push")
    /\ remote' = remote \cup tags
    /\ StepDone
    /\ UNCHANGED <<ws, tree, planVars, run, saved, todo, resume, head, tags, registry, forge,
                   bounds, base, goal, mishaps>>

\* Any other failure of a step: a hook, a command, a credential, a declined gate.
StepFails ==
    /\ run.live /\ at \in Steps
    /\ ~(Order[at] = "version" /\ phase = "planned")
    /\ Stop("trouble")
    /\ UNCHANGED <<ws, tree, outside, more, ghosts>>
----------------------------------------------------------------------------
\* The end of a run.

Finish ==
    /\ run.live /\ at = Len(Order) + 1
    /\ resume' = Recorded(TRUE, 0)
    /\ Exit
    /\ UNCHANGED <<ws, tree, outside, bounds, ghosts>>

\* A global after hook that fails records nothing: no step stopped the run.
AfterHookFails ==
    /\ run.live /\ at = Len(Order) + 1 /\ trouble > 0
    /\ trouble' = trouble - 1
    /\ mishaps' = mishaps \cup (IF run.to # 0 THEN {"unrecorded"} ELSE {})
    /\ Exit
    /\ UNCHANGED <<ws, tree, resume, outside, more, base, goal, owed>>

Killed ==
    /\ run.live /\ trouble > 0
    /\ trouble' = trouble - 1
    /\ mishaps' = mishaps \cup {"killed"}
         \cup (IF saved # <<>> THEN {"halfversioned"} ELSE {})
    /\ Exit
    /\ UNCHANGED <<ws, tree, resume, outside, more, base, goal, owed>>

\* The next changesets, once this release is out.
Land ==
    /\ ~run.live /\ AllOut /\ more > 0
    /\ more' = more - 1
    /\ pending' = pending \cup Later
    /\ base' = vers /\ goal' = vers
    /\ UNCHANGED <<ws, vers, ats, planVars, run, at, i, saved, todo, resume, outside,
                   trouble, owed, mishaps>>

\* The last release is complete and its changesets are gone.
Init ==
    /\ ws \in Workspaces
    /\ vers = ws.versions
    /\ ats = [e \in Edges |-> ws.versions[e.to]]
    /\ pending = ws.changesets
    /\ phase = "none" /\ rel = <<>> /\ order = <<>> /\ plan = <<>>
    /\ run = Idle /\ at = 0 /\ i = 0 /\ saved = <<>> /\ todo = {} /\ resume = 0
    /\ head = vers
    /\ tags = {[name |-> p, version |-> vers[p], holds |-> vers[p]] :
                 p \in Packages \ ws.ignored}
    /\ remote = tags
    /\ registry = {<<p, vers[p]>> : p \in Packages \ ws.ignored}
    /\ forge = registry
    /\ trouble = ws.trouble /\ more = ws.more
    /\ base = vers /\ goal = vers /\ owed = {} /\ mishaps = {}

Works == \/ Planning \/ SetVersion \/ RemoveChangeset \/ VersionDone \/ PlainStep
         \/ PackageStep \/ PublishRefused \/ Push \/ Finish
Next == \/ Works \/ Retry \/ OtherRun \/ SetVersionFails \/ PackageLate \/ StepFails
        \/ AfterHookFails \/ Killed \/ Land
Spec == Init /\ [][Next]_vars

\* A live process goes on; an operator whose release is not out tries again.
\* (The first is WF_vars(Works): a live run has a step in Works, always.)
GoesOn == []<>(~run.live) \/ []<><<Works>>_vars
FairSpec == Spec /\ GoesOn /\ WF_vars(Retry)
----------------------------------------------------------------------------
TypeOK ==
    /\ run \in Options
    /\ at \in 0 .. (Len(Order) + 1) /\ i \in Nat /\ resume \in 0 .. Len(Order)
    /\ DOMAIN vers = Packages /\ DOMAIN head = Packages /\ DOMAIN ats = Edges
    /\ pending \subseteq [name : Packages, bump : Bumps] /\ todo \subseteq pending
    /\ phase \in {"none", "cascade", "coordinate", "planned"}
    /\ DOMAIN rel = ToSet(order) /\ Len(order) = Cardinality(ToSet(order))
    /\ remote \subseteq tags
    /\ saved # <<>> => RunStep("version") /\ phase = "planned"
    /\ owed \subseteq Steps

\* The plan releases every package it has to and none that it need not:
\* whatever order the changesets and the groups came in, the releasing
\* packages are the least set that answers for itself at the final versions
\* (planner.go: the cascade and the groups feed each other, and a version a
\* package had halfway must not have released anybody).  A kill between two
\* writes can leave a range ahead of the version it is for; the next plan's
\* halfway versions are then out of it when the final one is not.
PlanIsLeast ==
    (phase = "planned" /\ saved = <<>> /\ "halfversioned" \notin mishaps) =>
        LET S == Releasing(rel, Packages)
        IN  ClosedUnder(S) /\ \A T \in SUBSET S : ClosedUnder(T) => T = S

\* Whatever failed and was retried, a package has moved by one plan: it is at
\* the version before the release or at the one its first plan named
\* (version.go's file transaction: otherwise "a re-run bumped them a second
\* time").  Only a kill between two writes, or a changeset that could not be
\* removed, does that.
BumpedOnce ==
    (mishaps \cap {"halfversioned", "left"} = {}) =>
        \A p \in Packages : vers[p] \in {base[p], goal[p]}

\* Between version steps the tree agrees with itself: every range admits its
\* dependency's version, and the members of a group that moved are at one
\* version (the planner's links and groups, written out module by module).
TreeAgrees ==
    (saved = <<>> /\ mishaps \cap {"halfversioned", "left"} = {}) =>
        /\ \A e \in Edges : ws.ops[e] # "none" => InRange(ws.ops[e], ats[e], vers[e.to])
        /\ \A g \in ToSet(ws.fixed) \cup ToSet(ws.linked) \cup ws.files :
              LET members == ToSet(g) \ ws.ignored
                  moved == {p \in members : vers[p] # base[p]}
                  whole == IF g \in ToSet(ws.linked) \/ moved = {} THEN moved ELSE members
              IN  \A p, q \in whole : vers[p] = vers[q]

\* A stopped release leaves no step behind the point a resume starts from:
\* if steps are owed, the file names one no later than the first of them
\* (resume.go: "a narrowed run may move the resume point earlier but never
\* later, and never clears it").
ResumeCoversOwed ==
    (~run.live /\ mishaps \cap {"killed", "forced", "unrecorded"} = {}) =>
        (owed # {} => (resume # 0 /\ \A k \in owed : resume <= k))

\* What is outside follows in order, over any failures and resumes: a tag is
\* on a commit that holds its version, a pushed tag's version is published,
\* and a forge release hangs off a pushed tag.
OutwardOrder ==
    (mishaps \cap {"killed", "forced", "narrowed", "unrecorded"} = {}) =>
        /\ \A t \in tags : t.holds = t.version
        /\ \A t \in remote : <<t.name, t.version>> \in registry
        /\ \A r \in forge : \E t \in remote : <<t.name, t.version>> = r

\* A release that is retried goes out, wherever it was stopped or killed; in
\* particular the planner ends.
RetriesFinish == Waiting # {} ~> AllOut
=============================================================================
