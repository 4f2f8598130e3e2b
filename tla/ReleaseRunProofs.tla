-------------------------- MODULE ReleaseRunProofs --------------------------
(***************************************************************************)
(* Proofs about ReleaseRun, for any workspace, any planner's plan and any  *)
(* order of steps that has each step once: where a resume may start; in    *)
(* the default order, in which order what is outside appears; and, from    *)
(* the least set of packages that answers the changesets (Needed) and the  *)
(* tree it leads to (Fate, FateAts), both said without the planner's       *)
(* passes, that a release bumps no package twice, leaves the groups        *)
(* together and has no package that is not needed.                         *)
(***************************************************************************)
EXTENDS ReleaseRun, FiniteSetTheorems, WellFoundedInduction, TLAPS

\* What a run knows of its own options.
RunInv ==
    /\ resume \in 0 .. Len(Order) /\ owed \subseteq Steps
    /\ run.live => /\ run \in Options
                   /\ at \in Enabled(run) \cup {Len(Order) + 1}
                   /\ run.skip # {} => "narrowed" \in mishaps
                   /\ run.empty => Waiting = {}

\* A version step that is owed has something to version, until the run that is
\* at it has written its plan.
VersionOwed(k) ==
    \/ Waiting # {}
    \/ run.live /\ at = k /\ phase = "planned" /\ i = Len(plan)
Spared == mishaps \cap {"killed", "forced", "unrecorded"} = {}
VersionInv == Spared => \A k \in owed : Order[k] = "version" => VersionOwed(k)

\* A step that is owed is ahead of the run, or after its --to; a narrowed run
\* need not come by it, and then the file names one before it.
Ahead(k) == k >= at \/ (run.to # 0 /\ k > run.to)
Covered(k) == resume # 0 /\ resume <= k
ResumeInv == Spared => \A k \in owed :
    IF ~run.live THEN Covered(k)
    ELSE IF run.skip = {} THEN Ahead(k)
    ELSE Covered(k) \/ (k \in Enabled(run) /\ k >= at)

-----------------------------------------------------------------------------
\* The order is a sequence of names, each there once.
LEMMA OrderParts ==
    /\ Len(Order) \in Nat \ {0} /\ Steps = 1 .. Len(Order) /\ DOMAIN Order = Steps
    /\ \A j, k \in Steps : Order[j] = Order[k] => j = k
BY OrderAssumption DEF OrderAssumption, Steps

\* A set of numbers that is not empty has a least one.
Less == {ss \in Nat \X Nat : ss[1] < ss[2]}

LEMMA Least ==
    ASSUME NEW S \in SUBSET Nat, S # {}
    PROVE  \E x \in S : \A y \in S : x <= y
<1>1. IsWellFoundedOn(Less, Nat)
  BY NatLessThanWellFounded DEF OpToRel, Less
<1>2. PICK x \in S : \A y \in S : ~ (<<y, x>> \in Less)
  BY <1>1, WFMin
<1>3. ASSUME NEW y \in S PROVE x <= y
  <2>1. x \in Nat /\ y \in Nat /\ <<y, x>> \notin Less
    BY <1>2, <1>3
  <2>2. ASSUME y < x PROVE <<y, x>> \in Less
    <3>1. <<y, x>> \in Nat \X Nat /\ <<y, x>>[1] < <<y, x>>[2]
      BY <2>1, <2>2
    <3>2. QED
      BY <3>1 DEF Less
  <2>3. QED
    BY <2>1, <2>2
<1>4. QED
  BY <1>2, <1>3

\* The next step is the first enabled one behind the present, or the end.
LEMMA NextParts ==
    ASSUME NEW o, NEW k \in Int
    PROVE  /\ Enabled(o) \subseteq Steps
           /\ NextStep(o, k) \in Enabled(o) \cup {Len(Order) + 1}
           /\ NextStep(o, k) \in Enabled(o) => NextStep(o, k) > k
           /\ \A j \in Enabled(o) : j > k => NextStep(o, k) <= j
<1> DEFINE rest == {j \in Enabled(o) : j > k}
<1>1. Enabled(o) \subseteq Steps /\ rest \subseteq Nat
  BY OrderParts DEF Enabled
<1>2. CASE rest = {}
  <2>1. NextStep(o, k) = Len(Order) + 1
    BY <1>2 DEF NextStep
  <2>2. QED
    BY <1>1, <1>2, <2>1, OrderParts
<1>3. CASE rest # {}
  <2>1. \E j \in rest : \A l \in rest : j <= l
    BY <1>1, <1>3, Least
  <2>2. NextStep(o, k) \in rest /\ \A l \in rest : NextStep(o, k) <= l
    BY <1>3, <2>1 DEF NextStep
  <2>3. QED
    BY <1>1, <2>2
<1>4. QED
  BY <1>2, <1>3

\* What an enabled step is, and a step that is not.
LEMMA EnabledParts ==
    ASSUME NEW o \in Options, NEW k \in Steps
    PROVE  /\ k \in Enabled(o) <=> /\ ~(o.empty /\ Order[k] = "version")
                                   /\ k >= o.from /\ (o.to = 0 \/ k <= o.to)
                                   /\ k \notin o.skip
           /\ o.from \in 0 .. Len(Order) /\ o.to \in 0 .. Len(Order)
           /\ o.empty \in BOOLEAN /\ o.live \in BOOLEAN /\ o.skip \subseteq Steps
BY OrderParts DEF Enabled, SkipReason, Options
-----------------------------------------------------------------------------
\* What the steps do to a run, whatever step of the release they are at.

\* A step is done, and the run goes on to the next.
Goes == /\ run.live /\ at \in Steps /\ StepDone
        /\ UNCHANGED <<ws, pending, run, resume, mishaps>>

\* A run goes on inside a step.
Inside == /\ run.live /\ UNCHANGED <<ws, run, at, resume, owed>>
          /\ mishaps \subseteq mishaps' /\ Spared' = Spared

\* A step fails, and its position is on file.
Halts == /\ run.live /\ at \in Steps /\ ~run'.live /\ resume' = Recorded(FALSE, at)
         /\ ~(Order[at] = "version" /\ phase = "planned" /\ i = Len(plan))
         /\ UNCHANGED <<ws, pending, owed, mishaps>>

\* A run is at its end, or it is over and nothing is recorded.
Ends == /\ run.live /\ at = Len(Order) + 1 /\ ~run'.live
        /\ UNCHANGED <<ws, pending, owed>>
        /\ \/ resume' = Recorded(TRUE, 0) /\ mishaps' = mishaps
           \/ resume' = resume /\ (Spared' => Spared /\ run.to = 0)

\* A run begins.
Starts(o) == Start(o) /\ o \in Options /\ o.live /\ (o.empty <=> Waiting = {})

\* No changes to a run that is not there.
Rests == /\ ~run.live /\ ~run'.live /\ UNCHANGED <<ws, resume, owed, mishaps>>
         /\ pending \subseteq pending'

\* Every step is one of these, a kill, or nothing.
LEMMA StepKinds ==
    ASSUME [Next]_vars, resume \in 0 .. Len(Order)
    PROVE  \/ Goes
           \/ Inside /\ (UNCHANGED <<pending, phase, i, plan>> \/ Planning \/ SetVersion
                          \/ RemoveChangeset \/ PackageStep)
           \/ Halts \/ Ends
           \/ \E o \in Options : Starts(o)
           \/ Rests
           \/ Killed
           \/ UNCHANGED vars
<1>0. Idle.live = FALSE
  BY DEF Idle
<1>1. CASE VersionDone \/ Push
  BY <1>1 DEF VersionDone, Push, RunStep, Goes, tree, bounds, ghosts
<1>2. CASE PlainStep
  BY <1>2 DEF PlainStep, Plain, Goes, tree
<1>3. CASE PackageStep
  <2>1. CASE StepDone
    BY <1>3, <2>1 DEF PackageStep, Goes, tree
  <2>2. CASE ~StepDone
    BY <1>3, <2>2 DEF PackageStep, Advance, Inside, Spared, tree
  <2>3. QED
    BY <2>1, <2>2
<1>4. CASE Planning
  BY <1>4 DEF Planning, RunStep, Inside, Spared, PlanNext, BeginPlan, Cascade,
              CoordinateGroups, ghosts
<1>5. CASE SetVersion \/ RemoveChangeset
  BY <1>5 DEF SetVersion, RemoveChangeset, RunStep, Inside, Spared
<1>6. CASE SetVersionFails
  BY <1>0, <1>6 DEF SetVersionFails, Stop, Exit, RunStep, Halts, ghosts
<1>7. CASE PackageLate \/ PublishRefused \/ StepFails
  BY <1>0, <1>7 DEF PackageLate, PublishRefused, Refused, StepFails, Stop, Exit, Halts, ghosts, tree
<1>8. CASE Finish \/ AfterHookFails
  BY <1>0, <1>8 DEF Finish, AfterHookFails, Exit, Ends, Spared, ghosts, tree
<1>9. CASE Retry \/ OtherRun
  <2>1. ASSUME NEW from \in 0 .. Len(Order), NEW to \in 0 .. Len(Order),
               NEW skip \in SUBSET Steps, NEW force \in BOOLEAN,
               Start([from |-> from, to |-> to, skip |-> skip, force |-> force,
                      empty |-> Waiting = {}, live |-> TRUE])
        PROVE  \E o \in Options : Starts(o)
    <3> DEFINE o == [from |-> from, to |-> to, skip |-> skip, force |-> force,
                     empty |-> Waiting = {}, live |-> TRUE]
    <3>1. o \in Options /\ o.live /\ (o.empty <=> Waiting = {})
      BY DEF Options
    <3>2. Starts(o)
      BY <2>1, <3>1 DEF Starts
    <3>3. QED
      BY <3>1, <3>2
  <2>2. CASE Retry
    <3>1. (IF Waiting = {} THEN resume ELSE 0) \in 0 .. Len(Order) /\ 0 \in 0 .. Len(Order)
      BY OrderParts
    <3>2. QED
      BY <2>1, <2>2, <3>1 DEF Retry
  <2>3. CASE OtherRun
    <3>1. PICK from \in 0 .. Len(Order), to \in 0 .. Len(Order),
               skip \in {{}} \cup {{k} : k \in Steps}, force \in BOOLEAN :
            Start([from |-> from, to |-> to, skip |-> skip, force |-> force,
                   empty |-> Waiting = {}, live |-> TRUE])
      BY <2>3 DEF OtherRun
    <3>2. skip \in SUBSET Steps
      OBVIOUS
    <3>3. QED
      BY <2>1, <3>1, <3>2
  <2>4. QED
    BY <1>9, <2>2, <2>3
<1>10. CASE Land
  BY <1>10 DEF Land, Rests
<1>11. QED
  BY <1>1, <1>2, <1>3, <1>4, <1>5, <1>6, <1>7, <1>8, <1>9, <1>10 DEF Next, Works
-----------------------------------------------------------------------------
\* A run that begins is at a step it is to run, with everything owed ahead of
\* it or covered by the file.
LEMMA StartParts ==
    ASSUME NEW o \in Options, Starts(o), owed \subseteq Steps
    PROVE  /\ ~run.live /\ run' = o /\ run'.live /\ at' = NextStep(o, 0)
           /\ UNCHANGED <<ws, pending, resume>>
           /\ mishaps \subseteq mishaps' /\ (o.skip # {} => "narrowed" \in mishaps')
           /\ NeverRan(o) # {} => "forced" \in mishaps'
           /\ owed' \subseteq Steps
           /\ \A k \in owed' \ owed : \/ k \in Enabled(o)
                                      \/ /\ o.skip = {} /\ o.to # 0 /\ k > o.to
                                         /\ ~(o.empty /\ Order[k] = "version")
<1> DEFINE wide == [o EXCEPT !.to = 0]
<1>1. /\ wide \in Options /\ wide.to = 0 /\ wide.from = o.from /\ wide.skip = o.skip
      /\ wide.empty = o.empty
  BY OrderParts DEF Options
<1> HIDE DEF wide
<1>2. owed' = owed \cup Enabled(IF o.from = 0 /\ o.skip = {} THEN wide ELSE o)
  BY DEF Starts, Start, wide
<1>3. Enabled(o) \subseteq Steps /\ Enabled(wide) \subseteq Steps
  BY DEF Enabled
<1>4. ASSUME NEW k \in Enabled(wide), o.skip = {}, k \notin Enabled(o)
      PROVE  o.to # 0 /\ k > o.to /\ ~(o.empty /\ Order[k] = "version")
  BY <1>1, <1>3, <1>4, EnabledParts, OrderParts
<1>5. ASSUME NEW k \in owed' \ owed
      PROVE  \/ k \in Enabled(o)
             \/ o.skip = {} /\ o.to # 0 /\ k > o.to /\ ~(o.empty /\ Order[k] = "version")
  BY <1>2, <1>4, <1>5
<1>6. o.empty \in BOOLEAN
  BY DEF Options
<1>7. QED
  BY <1>2, <1>3, <1>5, <1>6 DEF Starts, Start, tree

\* What the resume guard lets pass: a run that starts behind the point on file
\* leaves out a version step with nothing to version, and no other.
LEMMA GuardParts ==
    ASSUME NEW o \in Options, NeverRan(o) = {}, resume \in 1 .. Len(Order), o.from > resume
    PROVE  /\ o.empty /\ Order[resume] = "version"
           /\ \A k \in Steps : k >= resume /\ k # resume => k >= o.from
<1>2. o.from \in 0 .. Len(Order)
  BY DEF Options
<1>1. \A k \in resume .. (o.from - 1) : SkipReason(k, o) # "from"
  <2>1. ~(resume = 0 \/ o.from <= resume)
    BY <1>2, OrderParts
  <2>2. QED
    BY <2>1 DEF NeverRan
<1>3. ASSUME NEW k \in resume .. (o.from - 1) PROVE o.empty /\ Order[k] = "version"
  BY <1>1, <1>2, <1>3, OrderParts DEF SkipReason
<1>4. o.empty /\ Order[resume] = "version"
  BY <1>2, <1>3
<1>5. ASSUME NEW k \in Steps, k > resume, k < o.from PROVE FALSE
  <2>1. Order[k] = "version"
    BY <1>2, <1>3, <1>5, OrderParts
  <2>2. QED
    BY <1>4, <1>5, <2>1, OrderParts
<1>6. QED
  BY <1>2, <1>4, <1>5, OrderParts

\* What is written at the end of a run.
LEMMA RecordedParts ==
    ASSUME resume \in 0 .. Len(Order), run \in Options
    PROVE  /\ Recorded(TRUE, 0) \in 0 .. Len(Order)
           /\ \A s \in Steps : Recorded(FALSE, s) \in Steps
           /\ \A s \in Steps : Recorded(FALSE, s) =
                 IF run.skip # {} /\ resume # 0 /\ resume < s THEN resume ELSE s
           /\ run.skip = {} => Recorded(TRUE, 0) =
                 IF run.to \in 1 .. (Len(Order) - 1) THEN run.to + 1 ELSE 0
BY OrderParts DEF Recorded, Options

\* The options of a run, through every step.
LEMMA RunStepInv == RunInv /\ [Next]_vars => RunInv'
<1> SUFFICES ASSUME RunInv, [Next]_vars PROVE RunInv'
  OBVIOUS
<1>1. CASE Goes
  <2>1. run' = run /\ at' = NextStep(run, at) /\ owed' \subseteq owed /\ Waiting' = Waiting
    BY <1>1 DEF Goes, StepDone, Waiting, Kept
  <2>2. at' \in Enabled(run) \cup {Len(Order) + 1} /\ Enabled(run)' = Enabled(run)
    BY <1>1, <2>1, NextParts, OrderParts DEF Goes, Enabled, SkipReason
  <2>3. QED
    BY <1>1, <2>1, <2>2 DEF RunInv, Goes
<1>2. CASE /\ Inside
           /\ UNCHANGED <<pending, phase, i, plan>> \/ Planning \/ SetVersion
                \/ RemoveChangeset \/ PackageStep
  <2>1. pending' \subseteq pending
    BY <1>2 DEF Planning, PlanNext, BeginPlan, Cascade, CoordinateGroups, SetVersion,
                RemoveChangeset, PackageStep, tree
  <2>2. Waiting' \subseteq Waiting /\ Enabled(run)' = Enabled(run)
    BY <1>2, <2>1 DEF Waiting, Kept, Inside, Enabled, SkipReason
  <2>3. QED
    BY <1>2, <2>2 DEF RunInv, Inside
<1>3. CASE Halts \/ Ends
  <2>1. run \in Options /\ ~run'.live /\ owed' = owed
    BY <1>3 DEF RunInv, Halts, Ends
  <2>2. resume' \in 0 .. Len(Order)
    <3>1. CASE Halts
      <4>1. at \in Steps /\ resume' = Recorded(FALSE, at)
        BY <3>1 DEF Halts
      <4>2. resume' \in Steps
        BY <2>1, <4>1, RecordedParts DEF RunInv
      <4>3. QED
        BY <4>2, OrderParts
    <3>2. CASE Ends
      BY <2>1, <3>2, RecordedParts DEF RunInv, Ends
    <3>3. QED
      BY <1>3, <3>1, <3>2
  <2>3. QED
    BY <2>1, <2>2 DEF RunInv
<1>4. ASSUME NEW o \in Options, Starts(o) PROVE RunInv'
  <2>1. Waiting' = Waiting /\ Enabled(run)' = Enabled(o)
    BY <1>4, StartParts DEF Waiting, Kept, RunInv, Enabled, SkipReason
  <2>2. NextStep(o, 0) \in Enabled(o) \cup {Len(Order) + 1}
    BY NextParts
  <2>3. QED
    BY <1>4, <2>1, <2>2, StartParts DEF RunInv, Starts
<1>5. CASE Rests \/ Killed
  <2>1. ~run'.live /\ resume' = resume /\ owed' = owed
    BY <1>5 DEF Rests, Killed, Exit, Idle
  <2>2. QED
    BY <2>1 DEF RunInv
<1>6. CASE UNCHANGED vars
  BY <1>6 DEF RunInv, vars, tree, ghosts, Waiting, Kept, Enabled, SkipReason
<1>7. QED
  BY <1>1, <1>2, <1>3, <1>4, <1>5, <1>6, StepKinds DEF RunInv

\* What went wrong stays on record.
LEMMA MishapsStay == [Next]_vars => mishaps \subseteq mishaps'
<1> SUFFICES ASSUME [Next]_vars PROVE mishaps \subseteq mishaps'
  OBVIOUS
<1>1. CASE Retry \/ OtherRun
  <2>1. \E o : Start(o)
    BY <1>1 DEF Retry, OtherRun
  <2>2. QED
    BY <2>1 DEF Start
<1>2. CASE SetVersionFails \/ AfterHookFails \/ Killed \/ Land \/ UNCHANGED vars
  BY <1>2 DEF SetVersionFails, AfterHookFails, Killed, Land, ghosts, vars
<1>3. CASE PackageLate \/ StepFails \/ PublishRefused \/ Finish
  BY <1>3 DEF PackageLate, StepFails, PublishRefused, Finish, ghosts
<1>4. CASE Planning \/ SetVersion \/ RemoveChangeset
  BY <1>4 DEF Planning, SetVersion, RemoveChangeset, ghosts
<1>5. CASE VersionDone \/ PlainStep \/ PackageStep \/ Push
  BY <1>5 DEF VersionDone, PlainStep, PackageStep, Push
<1>6. QED
  BY <1>1, <1>2, <1>3, <1>4, <1>5 DEF Next, Works

\* So what a guarantee covers after a step it covered before.
LEMMA SparedBefore == [Next]_vars /\ Spared' => Spared
BY MishapsStay DEF Spared

\* A version step that is owed has something to version: the changesets go only
\* in the step, and then it is done.
LEMMA VersionStep == RunInv /\ VersionInv /\ [Next]_vars => VersionInv'
<1> SUFFICES ASSUME RunInv, VersionInv, [Next]_vars, Spared',
                    NEW k \in owed', Order[k] = "version"
             PROVE  VersionOwed(k)'
  BY DEF VersionInv
<1>0. Spared /\ owed \subseteq Steps /\ ~Killed
  BY SparedBefore DEF RunInv, Killed, Spared
<1>1. k \in owed => VersionOwed(k)
  BY <1>0 DEF VersionInv
<1>2. UNCHANGED <<ws, pending>> => Waiting' = Waiting
  BY DEF Waiting, Kept
<1>3. CASE Goes
  <2>1. k \in owed /\ k # at /\ UNCHANGED <<ws, pending>>
    BY <1>3 DEF Goes, StepDone
  <2>2. QED
    BY <1>1, <1>2, <2>1 DEF VersionOwed
<1>4. CASE Inside /\ UNCHANGED <<pending, phase, i, plan>>
  BY <1>1, <1>2, <1>4 DEF Inside, VersionOwed
<1>5. CASE Inside /\ (Planning \/ SetVersion)
  <2>1. k \in owed /\ UNCHANGED <<ws, pending>>
    BY <1>5 DEF Inside, Planning, PlanNext, BeginPlan, Cascade, CoordinateGroups, SetVersion
  <2>2. ~(phase = "planned" /\ i = Len(plan))
    <3>1. CASE Planning
      BY <3>1 DEF Planning, PlanNext, BeginPlan, Cascade, CoordinateGroups
    <3>2. CASE SetVersion
      BY <3>2 DEF SetVersion
    <3>3. QED
      BY <1>5, <3>1, <3>2
  <2>3. QED
    BY <1>1, <1>2, <2>1, <2>2 DEF VersionOwed
<1>6. CASE Inside /\ RemoveChangeset
  <2>1. /\ run.live /\ at \in Steps /\ Order[at] = "version" /\ phase = "planned" /\ i = Len(plan)
        /\ UNCHANGED <<run, at, phase, i, plan, owed>>
    BY <1>6 DEF RemoveChangeset, RunStep, planVars
  <2>2. k = at
    BY <1>0, <2>1, OrderParts
  <2>3. QED
    BY <2>1, <2>2 DEF VersionOwed
<1>7. CASE Inside /\ PackageStep
  <2>1. k \in owed /\ Order[at] # "version" /\ UNCHANGED <<ws, pending>>
    BY <1>7 DEF Inside, PackageStep, tree
  <2>2. QED
    BY <1>1, <1>2, <2>1 DEF VersionOwed
<1>8. CASE Halts \/ Ends
  <2>1. k \in owed /\ UNCHANGED <<ws, pending>>
    BY <1>8 DEF Halts, Ends
  <2>2. ~(at = k /\ phase = "planned" /\ i = Len(plan))
    <3>1. CASE Halts
      BY <3>1 DEF Halts
    <3>2. CASE Ends
      BY <1>0, <2>1, <3>2, OrderParts DEF Ends
    <3>3. QED
      BY <1>8, <3>1, <3>2
  <2>3. QED
    BY <1>1, <1>2, <2>1, <2>2 DEF VersionOwed
<1>9. ASSUME NEW o \in Options, Starts(o) PROVE VersionOwed(k)'
  <2>1. ~run.live /\ UNCHANGED <<ws, pending>> /\ (o.empty <=> Waiting = {})
    BY <1>0, <1>9, StartParts DEF Starts
  <2>2. CASE k \in owed
    BY <1>1, <1>2, <2>1, <2>2 DEF VersionOwed
  <2>3. CASE k \notin owed
    <3>1. ~(o.empty /\ Order[k] = "version")
      BY <1>0, <1>9, <2>3, StartParts, EnabledParts
    <3>2. QED
      BY <1>2, <2>1, <3>1 DEF VersionOwed
  <2>4. QED
    BY <2>2, <2>3
<1>10. CASE Rests
  <2>1. k \in owed /\ Waiting \subseteq Waiting' /\ ~run.live
    BY <1>10 DEF Rests, Waiting, Kept
  <2>2. QED
    BY <1>1, <2>1 DEF VersionOwed
<1>11. CASE UNCHANGED vars
  BY <1>1, <1>2, <1>11 DEF vars, tree, planVars, ghosts, VersionOwed
<1>12. QED
  BY <1>0, <1>3, <1>4, <1>5, <1>6, <1>7, <1>8, <1>9, <1>10, <1>11, StepKinds DEF RunInv

\* A step done: of the steps still owed the run is not past any, for the next
\* step is the first it runs, and it runs all but a version step with nothing
\* to version.
LEMMA ResumeGoes == RunInv /\ VersionInv /\ ResumeInv /\ Goes => ResumeInv'
<1> SUFFICES ASSUME RunInv, VersionInv, ResumeInv, Goes, Spared', NEW k \in owed'
             PROVE  IF ~run'.live THEN Covered(k)'
                    ELSE IF run'.skip = {} THEN Ahead(k)'
                    ELSE Covered(k)' \/ (k \in Enabled(run)' /\ k >= at')
  BY DEF ResumeInv
<1>1. /\ run' = run /\ run.live /\ at \in Steps /\ at' = NextStep(run, at) /\ k \in owed /\ k # at
      /\ resume' = resume /\ Spared /\ owed \subseteq Steps /\ run \in Options
      /\ at \in Enabled(run)
  BY OrderParts DEF Goes, StepDone, Spared, RunInv
<1>2. Enabled(run)' = Enabled(run)
  BY <1>1 DEF Enabled, SkipReason
<1>3. /\ at \in Nat /\ k \in Nat /\ NextStep(run, at) \in Nat
      /\ \A j \in Enabled(run) : j > at => NextStep(run, at) <= j
  BY <1>1, OrderParts, NextParts
<1>4. CASE run.skip = {}
  <2>1. Ahead(k)
    BY <1>1, <1>4 DEF ResumeInv
  <2>2. CASE run.to # 0 /\ k > run.to
    BY <1>1, <1>4, <2>2 DEF Ahead
  <2>3. CASE ~(run.to # 0 /\ k > run.to)
    <3>1. k > at
      BY <1>1, <1>3, <2>1, <2>3 DEF Ahead
    <3>2. ~(run.empty /\ Order[k] = "version")
      BY <1>1 DEF VersionInv, VersionOwed, RunInv
    <3>3. k \in Enabled(run)
      BY <1>1, <1>3, <1>4, <2>3, <3>1, <3>2, EnabledParts, OrderParts
    <3>4. QED
      BY <1>1, <1>3, <1>4, <3>1, <3>3 DEF Ahead
  <2>4. QED
    BY <2>2, <2>3
<1>5. CASE run.skip # {}
  <2>1. Covered(k) \/ (k \in Enabled(run) /\ k >= at)
    BY <1>1, <1>5 DEF ResumeInv
  <2>2. QED
    BY <1>1, <1>2, <1>3, <1>5, <2>1 DEF Covered
<1>6. QED
  BY <1>4, <1>5

\* A run that stops or ends records a point that covers what is owed.
LEMMA ResumeHalts == RunInv /\ ResumeInv /\ (Halts \/ Ends) => ResumeInv'
<1> SUFFICES ASSUME RunInv, ResumeInv, Halts \/ Ends, Spared', NEW k \in owed'
             PROVE  ~run'.live /\ Covered(k)'
  BY DEF ResumeInv
<1>1. /\ run.live /\ ~run'.live /\ k \in owed /\ Spared /\ run \in Options
      /\ owed \subseteq Steps /\ resume \in 0 .. Len(Order)
  BY DEF Halts, Ends, Spared, RunInv
<1>2. /\ k \in 1 .. Len(Order) /\ run.to \in 0 .. Len(Order) /\ Len(Order) \in Nat
      /\ Enabled(run) \subseteq Steps
  BY <1>1, OrderParts, EnabledParts DEF Enabled
<1>3. CASE Halts
  <2>1. /\ at \in 1 .. Len(Order) /\ at \in Enabled(run)
        /\ resume' = IF run.skip # {} /\ resume # 0 /\ resume < at THEN resume ELSE at
    <3>1. at \in Steps /\ resume' = Recorded(FALSE, at) /\ at \in Enabled(run)
      BY <1>1, <1>3, OrderParts DEF Halts, RunInv
    <3>2. \A s \in Steps : Recorded(FALSE, s) =
             IF run.skip # {} /\ resume # 0 /\ resume < s THEN resume ELSE s
      BY <1>1, RecordedParts
    <3>3. QED
      BY <3>1, <3>2, OrderParts
  <2>2. run.to = 0 \/ at <= run.to
    BY <1>1, <2>1, OrderParts, EnabledParts
  <2>3. CASE run.skip = {}
    BY <1>1, <1>2, <2>1, <2>2, <2>3 DEF ResumeInv, Ahead, Covered
  <2>4. CASE run.skip # {}
    BY <1>1, <1>2, <2>1, <2>4 DEF ResumeInv, Covered
  <2>5. QED
    BY <1>1, <2>3, <2>4
<1>4. CASE Ends
  <2>1. at = Len(Order) + 1
    BY <1>4 DEF Ends
  <2>2. CASE run.skip = {}
    <3>1. run.to # 0 /\ k > run.to
      BY <1>1, <1>2, <2>1, <2>2 DEF ResumeInv, Ahead
    <3>2. resume' = run.to + 1
      <4>1. resume' = Recorded(TRUE, 0)
        BY <1>4, <3>1 DEF Ends
      <4>2. Recorded(TRUE, 0) = IF run.to \in 1 .. (Len(Order) - 1) THEN run.to + 1 ELSE 0
        BY <1>1, <2>2, RecordedParts
      <4>3. run.to \in 1 .. (Len(Order) - 1)
        BY <1>2, <3>1
      <4>4. QED
        BY <4>1, <4>2, <4>3
    <3>3. QED
      BY <1>1, <1>2, <3>1, <3>2 DEF Covered
  <2>3. CASE run.skip # {}
    <3>1. Covered(k)
      BY <1>1, <1>2, <2>1, <2>3, OrderParts DEF ResumeInv
    <3>2. resume' \in {resume} \/ (resume' \in Nat \ {0} /\ resume' <= resume)
      BY <1>1, <1>2, <1>4, <2>3, <3>1 DEF Ends, Recorded, Covered
    <3>3. QED
      BY <1>1, <1>2, <3>1, <3>2 DEF Covered
  <2>4. QED
    BY <2>2, <2>3
<1>5. QED
  BY <1>3, <1>4

\* A run that begins has what was owed before it ahead of it, for it starts at
\* the point on file or before, or leaves out a version step that is not owed.
LEMMA ResumeStarts ==
    ASSUME NEW o \in Options, RunInv, VersionInv, ResumeInv, Starts(o)
    PROVE  ResumeInv'
<1> SUFFICES ASSUME Spared', NEW k \in owed'
             PROVE  IF o.skip = {} THEN Ahead(k)'
                    ELSE Covered(k)' \/ (k \in Enabled(run)' /\ k >= at')
  BY StartParts DEF ResumeInv, RunInv
<1>1. /\ ~run.live /\ run' = o /\ at' = NextStep(o, 0) /\ resume' = resume
      /\ NeverRan(o) = {} /\ Spared /\ k \in Steps /\ owed \subseteq Steps
      /\ resume \in 0 .. Len(Order) /\ UNCHANGED ws /\ (o.empty <=> Waiting = {})
  BY StartParts DEF RunInv, Spared, Starts
<1>2. Enabled(run)' = Enabled(o)
  BY <1>1 DEF Enabled, SkipReason
<1>3. k \in 1 .. Len(Order) /\ Len(Order) \in Nat /\ o.to \in 0 .. Len(Order)
      /\ o.from \in 0 .. Len(Order)
  BY <1>1, OrderParts, EnabledParts
<1>4. k \in Enabled(o) => NextStep(o, 0) <= k /\ NextStep(o, 0) \in Nat
  BY <1>3, NextParts, OrderParts
<1>5. CASE k \in Enabled(o)
  BY <1>1, <1>2, <1>3, <1>4, <1>5 DEF Ahead
<1>6. CASE k \notin Enabled(o) /\ k \notin owed
  <2>1. o.skip = {} /\ o.to # 0 /\ k > o.to
    BY <1>1, <1>6, StartParts
  <2>2. QED
    BY <1>1, <2>1 DEF Ahead
<1>7. CASE k \notin Enabled(o) /\ k \in owed
  <2>1. Covered(k)
    BY <1>1, <1>7 DEF ResumeInv
  <2>2. CASE o.skip # {}
    BY <1>1, <2>1, <2>2 DEF Covered
  <2>3. CASE o.skip = {}
    <3>1. ~(o.empty /\ Order[k] = "version")
      BY <1>1, <1>7 DEF VersionInv, VersionOwed
    <3>2. k >= o.from
      <4>1. CASE o.from <= resume
        BY <1>1, <1>3, <2>1, <4>1 DEF Covered
      <4>2. CASE o.from > resume
        <5>1. resume \in 1 .. Len(Order)
          BY <1>1, <1>3, <2>1 DEF Covered
        <5>2. o.empty /\ Order[resume] = "version" /\ (k >= resume /\ k # resume => k >= o.from)
          BY <1>1, <4>2, <5>1, GuardParts
        <5>3. QED
          BY <2>1, <3>1, <5>2 DEF Covered
      <4>3. QED
        BY <1>1, <1>3, <4>1, <4>2
    <3>3. o.to # 0 /\ k > o.to
      BY <1>1, <1>3, <1>7, <2>3, <3>1, <3>2, EnabledParts
    <3>4. QED
      BY <1>1, <2>3, <3>3 DEF Ahead
  <2>4. QED
    BY <2>2, <2>3
<1>8. QED
  BY <1>5, <1>6, <1>7

\* And so for every step.
LEMMA ResumeNext == RunInv /\ VersionInv /\ ResumeInv /\ [Next]_vars => ResumeInv'
<1> SUFFICES ASSUME RunInv, VersionInv, ResumeInv, [Next]_vars, Spared' PROVE ResumeInv'
  BY DEF ResumeInv
<1>1. Spared /\ ~Killed
  BY SparedBefore DEF Killed, Spared
<1>2. CASE Inside \/ Rests \/ UNCHANGED vars
  <2>1. UNCHANGED <<ws, resume, owed>> /\ (UNCHANGED <<run, at>> \/ (~run.live /\ ~run'.live))
    BY <1>2 DEF Inside, Rests, vars, ghosts
  <2>2. Enabled(run)' = Enabled(run) \/ (~run.live /\ ~run'.live)
    BY <2>1 DEF Enabled, SkipReason
  <2>3. QED
    BY <1>1, <2>1, <2>2 DEF ResumeInv, Covered, Ahead
<1>3. QED
  BY <1>1, <1>2, ResumeGoes, ResumeHalts, ResumeStarts, StepKinds DEF RunInv

\* A stopped release leaves no step behind the point a resume starts from,
\* whatever runs were narrowed, cut short or started elsewhere before: the rule
\* of recordResumeState and neverRan in resume.go.
THEOREM ResumePointHolds == Spec => []ResumeCoversOwed
<1>1. Init => RunInv /\ VersionInv /\ ResumeInv
  BY OrderParts DEF Init, RunInv, VersionInv, ResumeInv, Idle
<1>2. ResumeInv => ResumeCoversOwed
  BY DEF ResumeInv, ResumeCoversOwed, Spared, Covered
<1>3. QED
  BY <1>1, <1>2, RunStepInv, VersionStep, ResumeNext, PTL DEF Spec
-----------------------------------------------------------------------------
\* The default order of the steps the guarantee about the outside is about
\* (resolve.go's DefaultOrder); others may stand anywhere.
Known == {"version", "commit", "publish", "tag", "push", "release"}
Place(name) == CHOOSE k \in Steps : Order[k] = name
DefaultOrdered ==
    /\ \A name \in Known : \E k \in Steps : Order[k] = name
    /\ Place("version") < Place("commit") /\ Place("commit") < Place("publish")
    /\ Place("publish") < Place("tag") /\ Place("tag") < Place("push")
    /\ Place("push") < Place("release")

\* A step that has yet to be done: the run is not past it, or ends before it,
\* and between runs the file names one no later.
ToCome(s) == IF run.live THEN at <= s \/ (run.to # 0 /\ run.to < s) ELSE Covered(s)
Orderly == mishaps \cap {"killed", "forced", "narrowed", "unrecorded"} = {}

\* Of the step that goes through the packages: this one's turn has not come.
Missing(name, j) ==
    ToCome(Place(name)) /\ (run.live /\ at = Place(name) => j > i)

\* The place inside a step.
PackageNames == {"publish", "tag", "release"}
IndexInv ==
    /\ i \in Nat
    /\ ~run.live => i = 0
    /\ run.live /\ at \in Steps /\ Order[at] \in PackageNames => i < Len(PackageSeq)

\* What is not done has its step to come.
Tagged(p) == \E t \in tags : t.name = p /\ t.version = vers[p]
HeadInv == Orderly => (head # vers => ToCome(Place("commit")))
RegistryInv == Orderly => \A j \in DOMAIN PackageSeq :
    PackageSeq[j] \notin ws.ignored /\ <<PackageSeq[j], vers[PackageSeq[j]]>> \notin registry
        => Missing("publish", j)
TagInv == Orderly => \A j \in DOMAIN PackageSeq :
    PackageSeq[j] \notin ws.ignored /\ ~Tagged(PackageSeq[j]) => Missing("tag", j)
PushInv == Orderly => (~ (tags \subseteq remote) => ToCome(Place("push")))

\* And what is done was done in order.
OutInv == Orderly =>
    /\ remote \subseteq tags
    /\ \A t \in tags : t.holds = t.version /\ <<t.name, t.version>> \in registry
    /\ \A r \in forge : \E t \in remote : <<t.name, t.version>> = r

\* The packages are a sequence that is not empty.
LEMMA PackageParts ==
    /\ Len(PackageSeq) \in Nat \ {0} /\ DOMAIN PackageSeq = 1 .. Len(PackageSeq)
BY PackageAssumption DEF PackageAssumption

\* Each of the steps stands at its place, and nowhere else.
LEMMA Places ==
    ASSUME DefaultOrdered
    PROVE  /\ \A name \in Known : Place(name) \in Steps /\ Order[Place(name)] = name
           /\ \A name \in Known : \A k \in Steps : Order[k] = name <=> k = Place(name)
           /\ Place("version") < Place("commit") /\ Place("commit") < Place("publish")
           /\ Place("publish") < Place("tag") /\ Place("tag") < Place("push")
           /\ Place("push") < Place("release")
<1>1. ASSUME NEW name \in Known
      PROVE  /\ Place(name) \in Steps /\ Order[Place(name)] = name
             /\ \A k \in Steps : Order[k] = name <=> k = Place(name)
  <2>1. \E k \in Steps : Order[k] = name
    BY <1>1 DEF DefaultOrdered
  <2>2. Place(name) \in Steps /\ Order[Place(name)] = name
    BY <2>1 DEF Place
  <2>3. QED
    BY <2>2, OrderParts
<1>2. QED
  BY <1>1 DEF DefaultOrdered

\* What went wrong stays on record.
LEMMA OrderlyBefore == [Next]_vars /\ Orderly' => Orderly /\ Spared /\ Spared'
<1>1. Orderly => Spared
  BY DEF Orderly, Spared
<1>2. Orderly' => Spared'
  BY DEF Orderly, Spared
<1>3. [Next]_vars => mishaps \subseteq mishaps'
  BY MishapsStay
<1>4. QED
  BY <1>1, <1>2, <1>3, SparedBefore DEF Orderly

\* A step to come stays so until it is done, through failures, resumes and
\* runs that end before it; of all the steps only version may be left out.
LEMMA ToComeStays ==
    ASSUME RunInv, [Next]_vars, Orderly', NEW s \in Steps, Order[s] # "version",
           ToCome(s), ~ (Goes /\ at = s)
    PROVE  ToCome(s)'
<1>1. /\ Orderly /\ Spared /\ Spared' /\ ~Killed /\ resume \in 0 .. Len(Order)
      /\ owed \subseteq Steps
      /\ run.live => /\ run \in Options /\ run.skip = {}
                     /\ at \in Enabled(run) \cup {Len(Order) + 1}
  BY OrderlyBefore DEF RunInv, Orderly, Killed
<1>2. s \in 1 .. Len(Order) /\ Len(Order) \in Nat
  BY OrderParts
<1>3. CASE Goes
  <2>1. run' = run /\ run.live /\ at \in Steps /\ at' = NextStep(run, at) /\ at # s
    BY <1>3 DEF Goes, StepDone
  <2>2. CASE run.to # 0 /\ run.to < s
    BY <2>1, <2>2 DEF ToCome
  <2>3. CASE ~ (run.to # 0 /\ run.to < s)
    <3>1. at < s /\ at \in 1 .. Len(Order) /\ at \in Enabled(run)
      BY <1>1, <1>2, <2>1, <2>3, OrderParts DEF ToCome
    <3>2. at >= run.from /\ run.from \in 0 .. Len(Order) /\ run.to \in 0 .. Len(Order)
      BY <1>1, <2>1, <3>1, EnabledParts
    <3>3. s \in Enabled(run)
      BY <1>1, <1>2, <2>1, <2>3, <3>1, <3>2, EnabledParts
    <3>4. NextStep(run, at) <= s
      BY <1>2, <3>1, <3>3, NextParts
    <3>5. QED
      BY <2>1, <3>4 DEF ToCome
  <2>4. QED
    BY <2>2, <2>3
<1>4. CASE Inside \/ Rests \/ UNCHANGED vars
  <2>1. UNCHANGED resume /\ (UNCHANGED <<run, at>> \/ (~run.live /\ ~run'.live))
    BY <1>4 DEF Inside, Rests, vars
  <2>2. QED
    BY <2>1 DEF ToCome, Covered
<1>5. CASE Halts
  <2>1. /\ run.live /\ ~run'.live /\ at \in 1 .. Len(Order) /\ at \in Enabled(run)
        /\ resume' = at
    <3>1. \A k \in Steps : Recorded(FALSE, k) =
             IF run.skip # {} /\ resume # 0 /\ resume < k THEN resume ELSE k
      BY <1>1, <1>5, RecordedParts DEF Halts
    <3>2. run.live /\ ~run'.live /\ at \in Steps /\ resume' = Recorded(FALSE, at)
      BY <1>5 DEF Halts
    <3>3. run.skip = {} /\ at \in Enabled(run) /\ at \in 1 .. Len(Order)
      BY <1>1, <1>2, <3>2, OrderParts
    <3>4. Recorded(FALSE, at) = at
      BY <3>1, <3>2, <3>3
    <3>5. QED
      BY <3>2, <3>3, <3>4
  <2>2. (run.to = 0 \/ at <= run.to) /\ run.to \in 0 .. Len(Order)
    BY <1>1, <2>1, OrderParts, EnabledParts
  <2>3. QED
    BY <1>2, <2>1, <2>2 DEF ToCome, Covered
<1>6. CASE Ends
  <2>1. /\ run.live /\ ~run'.live /\ at = Len(Order) + 1 /\ run.to \in 0 .. Len(Order)
    BY <1>1, <1>2, <1>6, EnabledParts DEF Ends
  <2>2. run.to # 0 /\ run.to < s
    BY <1>2, <2>1 DEF ToCome
  <2>3. resume' = run.to + 1
    <3>1. resume' = Recorded(TRUE, 0)
      BY <1>1, <1>6, <2>2 DEF Ends
    <3>2. Recorded(TRUE, 0) = IF run.to \in 1 .. (Len(Order) - 1) THEN run.to + 1 ELSE 0
      BY <1>1, <2>1, RecordedParts
    <3>3. run.to \in 1 .. (Len(Order) - 1)
      BY <1>2, <2>1, <2>2
    <3>4. QED
      BY <3>1, <3>2, <3>3
  <2>4. QED
    BY <1>2, <2>1, <2>2, <2>3 DEF ToCome, Covered
<1>7. ASSUME NEW o \in Options, Starts(o) PROVE ToCome(s)'
  <2>1. /\ ~run.live /\ run' = o /\ run'.live /\ at' = NextStep(o, 0) /\ NeverRan(o) = {}
        /\ o.skip = {}
    BY <1>1, <1>7, StartParts DEF Orderly
  <2>2. resume \in 1 .. Len(Order) /\ resume <= s
    BY <1>1, <1>2, <2>1 DEF ToCome, Covered
  <2>3. o.from \in 0 .. Len(Order) /\ o.to \in 0 .. Len(Order)
    BY EnabledParts
  <2>4. s >= o.from
    <3>1. CASE o.from <= resume
      BY <1>2, <2>2, <2>3, <3>1
    <3>2. CASE o.from > resume
      <4>1. Order[resume] = "version" /\ \A k \in Steps : k >= resume /\ k # resume => k >= o.from
        BY <2>1, <2>2, <3>2, GuardParts
      <4>2. QED
        BY <2>2, <4>1
    <3>3. QED
      BY <2>2, <2>3, <3>1, <3>2
  <2>5. CASE o.to # 0 /\ o.to < s
    BY <2>1, <2>5 DEF ToCome
  <2>6. CASE ~ (o.to # 0 /\ o.to < s)
    <3>1. s \in Enabled(o)
      BY <1>2, <2>1, <2>3, <2>4, <2>6, EnabledParts
    <3>2. NextStep(o, 0) <= s
      BY <1>2, <3>1, NextParts
    <3>3. QED
      BY <2>1, <3>2 DEF ToCome
  <2>7. QED
    BY <2>5, <2>6
<1>8. QED
  BY <1>1, <1>3, <1>4, <1>5, <1>6, <1>7, StepKinds
-----------------------------------------------------------------------------
\* A process that is not there does not live.
LEMMA NotLive == ~Idle.live
BY DEF Idle

\* A run that begins, whatever its options.
LEMMA AnyStart == Retry \/ OtherRun => \E o : Start(o)
BY DEF Retry, OtherRun

\* Who goes on to the next step: the version step when it is done, a plain one,
\* the push, and a step that has come to its last package.
LEMMA GoesBy ==
    ASSUME RunInv, [Next]_vars, Goes
    PROVE  \/ VersionDone \/ PlainStep \/ Push
           \/ PackageStep /\ i + 1 = Len(PackageSeq)
<1>1. run.live /\ run'.live /\ at \in Steps /\ run' = run /\ at' = NextStep(run, at) /\ at' # at
  <2>1. run.live /\ at \in Steps /\ run' = run /\ at' = NextStep(run, at)
    BY DEF Goes, StepDone
  <2>2. /\ NextStep(run, at) \in Enabled(run) \cup {Len(Order) + 1}
        /\ NextStep(run, at) \in Enabled(run) => NextStep(run, at) > at
    BY <2>1, OrderParts, NextParts
  <2>3. QED
    BY <2>1, <2>2, OrderParts
<1>2. ~ (UNCHANGED vars) /\ ~Planning /\ ~SetVersion /\ ~RemoveChangeset
  BY <1>1 DEF vars, Planning, SetVersion, RemoveChangeset
<1>3. ~SetVersionFails /\ ~PackageLate /\ ~PublishRefused /\ ~StepFails
  BY <1>1, NotLive DEF SetVersionFails, PackageLate, PublishRefused, StepFails, Stop, Exit
<1>4. ~Finish /\ ~AfterHookFails /\ ~Killed
  BY <1>1, NotLive DEF Finish, AfterHookFails, Killed, Exit
<1>5. ~Retry /\ ~OtherRun /\ ~Land
  BY <1>1 DEF Retry, OtherRun, Start, Land
<1>6. PackageStep => i + 1 = Len(PackageSeq)
  BY <1>1 DEF PackageStep, Advance
<1>7. QED
  BY <1>2, <1>3, <1>4, <1>5, <1>6 DEF Next, Works

\* What a step may do to the versions and to what is outside.
LEMMA Effects ==
    ASSUME [Next]_vars
    PROVE  /\ ws' = ws
           /\ vers' # vers => SetVersion \/ SetVersionFails
           /\ head' # head => head' = vers /\ vers' = vers
           /\ registry \subseteq registry'
           /\ tags' # tags =>
                /\ run.live /\ at \in Steps /\ Order[at] = "tag"
                /\ Here \notin ws.ignored /\ tags' = tags \cup {Tag(Here)} /\ vers' = vers
           /\ remote' # remote => remote' = remote \cup tags /\ tags' = tags
           /\ forge' # forge =>
                /\ run.live /\ at \in Steps /\ Order[at] = "release"
                /\ Here \notin ws.ignored /\ forge' = forge \cup {<<Here, vers[Here]>>}
                /\ vers' = vers /\ remote' = remote
<1>1. CASE PackageStep \/ PackageLate
  <2>1. /\ run.live /\ at \in Steps /\ ForPackage(Here)
        /\ UNCHANGED <<ws, vers, head, remote>>
    BY <1>1 DEF PackageStep, PackageLate, tree
  <2>2. CASE Here \in ws.ignored
    BY <2>1, <2>2 DEF ForPackage
  <2>3. CASE Here \notin ws.ignored /\ Order[at] = "publish" /\ PublishOne(Here)
    BY <2>1, <2>3 DEF PublishOne
  <2>4. CASE Here \notin ws.ignored /\ Order[at] = "tag" /\ TagOne(Here)
    BY <2>1, <2>4 DEF TagOne
  <2>5. CASE Here \notin ws.ignored /\ Order[at] = "release" /\ ReleaseOne(Here)
    BY <2>1, <2>5 DEF ReleaseOne
  <2>6. QED
    BY <2>1, <2>2, <2>3, <2>4, <2>5 DEF ForPackage
<1>2. CASE Push
  BY <1>2 DEF Push, tree
<1>3. CASE PlainStep
  BY <1>3 DEF PlainStep, tree
<1>4. CASE SetVersion \/ SetVersionFails
  BY <1>4 DEF SetVersion, SetVersionFails, outside
<1>5. CASE Planning
  BY <1>5 DEF Planning, PlanNext, BeginPlan, Cascade, CoordinateGroups, outside
<1>6. CASE RemoveChangeset \/ VersionDone \/ PublishRefused \/ StepFails
  BY <1>6 DEF RemoveChangeset, VersionDone, PublishRefused, StepFails, outside, tree
<1>7. CASE Finish \/ AfterHookFails \/ Killed \/ Land \/ UNCHANGED vars
  BY <1>7 DEF Finish, AfterHookFails, Killed, Land, vars, outside, tree
<1>8. CASE Retry \/ OtherRun
  <2>1. PICK o : Start(o)
    BY <1>8 DEF Retry, OtherRun
  <2>2. QED
    BY <2>1 DEF Start, outside, tree
<1>9. QED
  BY <1>1, <1>2, <1>3, <1>4, <1>5, <1>6, <1>7, <1>8 DEF Next, Works

\* A step that goes through the packages begins with the first, and goes from
\* one to the next.
LEMMA Turn ==
    ASSUME IndexInv, [Next]_vars, run'.live, at' \in Steps, Order[at'] \in PackageNames
    PROVE  \/ i' = 0
           \/ /\ run.live /\ at' = at
              /\ i' = i \/ (PackageStep /\ i' = i + 1 /\ i + 1 # Len(PackageSeq))
<1>1. CASE SetVersion
  BY <1>1 DEF SetVersion, RunStep, PackageNames
<1>2. CASE PackageStep
  BY <1>2 DEF PackageStep, Advance, StepDone
<1>3. CASE Planning \/ RemoveChangeset \/ UNCHANGED vars
  BY <1>3 DEF Planning, RemoveChangeset, RunStep, vars, IndexInv
<1>4. CASE VersionDone \/ PlainStep \/ Push
  BY <1>4 DEF VersionDone, PlainStep, Push, StepDone
<1>5. CASE Retry \/ OtherRun \/ Land
  BY <1>5, AnyStart DEF Start, Land, IndexInv
<1>6. ~SetVersionFails /\ ~PackageLate /\ ~PublishRefused /\ ~StepFails
  BY NotLive DEF SetVersionFails, PackageLate, PublishRefused, StepFails, Stop, Exit
<1>7. ~Finish /\ ~AfterHookFails /\ ~Killed
  BY NotLive DEF Finish, AfterHookFails, Killed, Exit
<1>8. QED
  BY <1>1, <1>2, <1>3, <1>4, <1>5, <1>6, <1>7 DEF Next, Works

\* The place inside a step, through every step.
LEMMA IndexStep == IndexInv /\ [Next]_vars => IndexInv'
<1> SUFFICES ASSUME IndexInv, [Next]_vars PROVE IndexInv'
  OBVIOUS
<1>1. i' \in Nat /\ (~run'.live => i' = 0)
  <2>1. CASE SetVersion
    BY <2>1 DEF SetVersion, RunStep, IndexInv
  <2>2. CASE PackageStep
    BY <2>2 DEF PackageStep, Advance, StepDone, IndexInv
  <2>3. CASE Planning \/ RemoveChangeset \/ Land \/ UNCHANGED vars
    BY <2>3 DEF Planning, RemoveChangeset, Land, vars, IndexInv
  <2>4. CASE VersionDone \/ PlainStep \/ Push
    BY <2>4 DEF VersionDone, PlainStep, Push, RunStep, StepDone
  <2>5. CASE Retry \/ OtherRun
    BY <2>5, AnyStart DEF Start, IndexInv
  <2>6. Exit => i' = 0
    BY DEF Exit
  <2>7. SetVersionFails \/ PackageLate \/ PublishRefused \/ StepFails => Exit
    BY DEF SetVersionFails, PackageLate, PublishRefused, StepFails, Stop
  <2>8. Finish \/ AfterHookFails \/ Killed => Exit
    BY DEF Finish, AfterHookFails, Killed
  <2>9. QED
    BY <2>1, <2>2, <2>3, <2>4, <2>5, <2>6, <2>7, <2>8 DEF Next, Works
<1>2. ASSUME run'.live, at' \in Steps, Order[at'] \in PackageNames PROVE i' < Len(PackageSeq)
  <2>1. CASE i' = 0
    BY <2>1, PackageParts
  <2>2. CASE i' # 0
    <3>1. run.live /\ at' = at /\ (i' = i \/ (i' = i + 1 /\ i + 1 # Len(PackageSeq)))
      BY <1>2, <2>2, Turn
    <3>2. i < Len(PackageSeq) /\ i \in Nat
      BY <1>2, <3>1 DEF IndexInv
    <3>3. CASE i' = i
      BY <3>2, <3>3
    <3>4. CASE i' = i + 1 /\ i + 1 # Len(PackageSeq)
      <4>1. Len(PackageSeq) \in Nat
        BY PackageParts
      <4>2. QED
        BY <3>2, <3>4, <4>1
    <3>5. QED
      BY <3>1, <3>3, <3>4
  <2>3. QED
    BY <2>1, <2>2
<1>3. QED
  BY <1>1, <1>2, OrderParts DEF IndexInv, Steps
-----------------------------------------------------------------------------
\* Where a run that is past a step stands: it has come there, so the step was
\* one of its own, and is done.
LEMMA Past ==
    ASSUME RunInv, run.live, at \in Steps, NEW s \in Steps, s < at
    PROVE  ~ToCome(s)
<1>1. at \in Enabled(run) /\ run \in Options /\ at \in 1 .. Len(Order) /\ s \in 1 .. Len(Order)
  BY OrderParts DEF RunInv
<1>2. (run.to = 0 \/ at <= run.to) /\ run.to \in 0 .. Len(Order)
  BY <1>1, OrderParts, EnabledParts
<1>3. QED
  BY <1>1, <1>2 DEF ToCome

\* When the versions change, all that comes after the version step is to come.
LEMMA VersionsMove ==
    ASSUME RunInv, [Next]_vars, Orderly', vers' # vers,
           DefaultOrdered, NEW s \in Steps, Place("version") < s
    PROVE  ToCome(s)' /\ (run'.live => at' # s)
<1>1. SetVersion \/ SetVersionFails
  BY Effects
<1>2. /\ run.live /\ at \in Steps /\ Order[at] = "version"
  BY <1>1 DEF SetVersion, SetVersionFails, RunStep
<1>3. at = Place("version") /\ at \in 1 .. Len(Order) /\ s \in 1 .. Len(Order)
  BY <1>2, Places, OrderParts DEF Known
<1>4. CASE SetVersion
  <2>1. run' = run /\ at' = at
    BY <1>4 DEF SetVersion
  <2>2. run'.live /\ at' <= s /\ at' # s
    BY <1>2, <1>3, <2>1, OrderParts
  <2>3. QED
    BY <2>2 DEF ToCome
<1>5. CASE SetVersionFails
  <2>1. ~run'.live /\ resume' = Recorded(FALSE, at)
    BY <1>5, NotLive DEF SetVersionFails, Stop, Exit
  <2>2. run.skip = {} /\ run \in Options /\ resume \in 0 .. Len(Order)
    BY <1>2, OrderlyBefore DEF RunInv, Orderly
  <2>3. resume' = at
    BY <1>2, <2>1, <2>2, RecordedParts
  <2>4. resume' # 0 /\ resume' <= s
    BY <1>3, <2>3, OrderParts
  <2>5. QED
    BY <2>1, <2>4 DEF ToCome, Covered
<1>6. QED
  BY <1>1, <1>4, <1>5

\* The commit has the versions of the tree once the commit step is done.
LEMMA HeadStep ==
    ASSUME DefaultOrdered, RunInv, HeadInv, [Next]_vars
    PROVE  HeadInv'
<1> SUFFICES ASSUME Orderly', head' # vers' PROVE ToCome(Place("commit"))'
  BY DEF HeadInv, Place, Steps
<1> DEFINE C == Place("commit")
<1>1. /\ C \in Steps /\ Order[C] = "commit" /\ Place("version") < C /\ Orderly
  BY Places, OrderlyBefore DEF Known
<1>2. CASE vers' # vers
  BY <1>1, <1>2, VersionsMove
<1>3. CASE vers' = vers
  <2>1. head' = head /\ ToCome(C)
    BY <1>1, <1>3, Effects DEF HeadInv
  <2>2. ~ (Goes /\ at = C)
    <3>1. SUFFICES ASSUME Goes, at = C PROVE FALSE
      OBVIOUS
    <3>2. PlainStep
      BY <1>1, <3>1, GoesBy DEF VersionDone, Push, PackageStep, RunStep
    <3>3. QED
      BY <1>1, <1>3, <3>1, <3>2 DEF PlainStep
  <2>3. QED
    BY <1>1, <2>1, <2>2, ToComeStays
<1>4. QED
  BY <1>2, <1>3

\* A package's turn is still to come after a step that does not do it.
LEMMA TurnStays ==
    ASSUME DefaultOrdered, RunInv, IndexInv, [Next]_vars, Orderly',
           NEW name \in PackageNames, NEW j \in DOMAIN PackageSeq, Missing(name, j),
           ~ (PackageStep /\ at = Place(name) /\ j = i + 1)
    PROVE  Missing(name, j)'
<1> DEFINE P == Place(name)
<1>1. P \in Steps /\ Order[P] = name /\ name \in Known /\ name # "version"
  BY Places DEF Known, PackageNames
<1>2. j \in 1 .. Len(PackageSeq) /\ Len(PackageSeq) \in Nat /\ i \in Nat /\ i' \in Nat
  BY PackageParts, IndexStep DEF IndexInv
<1>3. ~ (Goes /\ at = P)
  <2>1. SUFFICES ASSUME Goes, at = P PROVE FALSE
    OBVIOUS
  <2>2. PackageStep /\ i + 1 = Len(PackageSeq) /\ run.live
    BY <1>1, <2>1, GoesBy DEF VersionDone, Push, PlainStep, Plain, RunStep, PackageNames, Goes
  <2>3. j > i
    BY <2>1, <2>2 DEF Missing
  <2>4. QED
    BY <1>2, <2>1, <2>2, <2>3
<1>4. ToCome(P)'
  <2>1. ToCome(P)
    BY DEF Missing
  <2>2. QED
    BY <1>1, <1>3, <2>1, ToComeStays
<1>5. ASSUME run'.live, at' = P PROVE j > i'
  <2>1. at' \in Steps /\ Order[at'] \in PackageNames
    BY <1>1, <1>5
  <2>2. \/ i' = 0
        \/ run.live /\ at' = at /\ (i' = i \/ (PackageStep /\ i' = i + 1))
    BY <1>5, <2>1, Turn
  <2>3. CASE i' = 0
    BY <1>2, <2>3
  <2>4. CASE run.live /\ at' = at /\ i' = i
    BY <1>5, <2>4 DEF Missing
  <2>5. CASE run.live /\ at' = at /\ PackageStep /\ i' = i + 1
    <3>1. j > i /\ j # i + 1
      BY <1>5, <2>5 DEF Missing
    <3>2. QED
      BY <1>2, <2>5, <3>1
  <2>6. QED
    BY <2>2, <2>3, <2>4, <2>5
<1>6. QED
  BY <1>4, <1>5 DEF Missing, Place, Steps

\* What a new tag says.
LEMMA TagParts ==
    \A p : Tag(p).name = p /\ Tag(p).version = vers[p] /\ Tag(p).holds = head[p]
BY DEF Tag

\* A version the registry has not is still to be published.
LEMMA RegistryStep ==
    ASSUME DefaultOrdered, RunInv, IndexInv, RegistryInv, [Next]_vars
    PROVE  RegistryInv'
<1> SUFFICES ASSUME Orderly', NEW j \in DOMAIN PackageSeq, PackageSeq[j] \notin ws.ignored,
                    <<PackageSeq[j], vers'[PackageSeq[j]]>> \notin registry'
             PROVE  Missing("publish", j)'
  BY Effects DEF RegistryInv
<1>1. /\ "publish" \in PackageNames /\ Place("publish") \in Steps
      /\ Order[Place("publish")] = "publish" /\ Place("version") < Place("publish")
  <2>1. \A name \in {"version", "commit", "publish"} : Place(name) \in Steps
    BY Places DEF Known
  <2>2. QED
    BY <2>1, Places, OrderParts DEF Known, PackageNames
<1>2. CASE vers' # vers
  BY <1>1, <1>2, VersionsMove DEF Missing, Place, Steps
<1>3. CASE vers' = vers
  <2>1. Missing("publish", j)
    BY <1>3, Effects, OrderlyBefore DEF RegistryInv
  <2>2. ~ (PackageStep /\ at = Place("publish") /\ j = i + 1)
    <3>1. SUFFICES ASSUME PackageStep, at = Place("publish"), j = i + 1 PROVE FALSE
      OBVIOUS
    <3>2. ForPackage(Here) /\ Here = PackageSeq[j] /\ Order[at] = "publish"
      BY <1>1, <3>1 DEF PackageStep, Here
    <3>3. PublishOne(Here)
      BY <3>2 DEF ForPackage
    <3>4. QED
      BY <1>3, <3>2, <3>3 DEF PublishOne
  <2>3. QED
    BY <1>1, <2>1, <2>2, TurnStays
<1>4. QED
  BY <1>2, <1>3

\* A version without a tag is still to be tagged.
LEMMA TagStep ==
    ASSUME DefaultOrdered, RunInv, IndexInv, TagInv, [Next]_vars
    PROVE  TagInv'
<1> SUFFICES ASSUME Orderly', NEW j \in DOMAIN PackageSeq, PackageSeq[j] \notin ws.ignored,
                    ~ \E t \in tags' : t.name = PackageSeq[j] /\ t.version = vers'[PackageSeq[j]]
             PROVE  Missing("tag", j)'
  BY Effects DEF TagInv, Tagged
<1>1. /\ "tag" \in PackageNames /\ Place("tag") \in Steps /\ Order[Place("tag")] = "tag"
      /\ Place("version") < Place("tag")
  <2>1. \A name \in {"version", "commit", "publish", "tag"} : Place(name) \in Steps
    BY Places DEF Known
  <2>2. QED
    BY <2>1, Places, OrderParts DEF Known, PackageNames
<1>2. CASE vers' # vers
  BY <1>1, <1>2, VersionsMove DEF Missing, Place, Steps
<1>3. CASE vers' = vers
  <2>1. tags \subseteq tags'
    BY Effects
  <2>2. Missing("tag", j)
    BY <1>3, <2>1, OrderlyBefore DEF TagInv, Tagged
  <2>3. ~ (PackageStep /\ at = Place("tag") /\ j = i + 1)
    <3>1. SUFFICES ASSUME PackageStep, at = Place("tag"), j = i + 1 PROVE FALSE
      OBVIOUS
    <3>2. ForPackage(Here) /\ Here = PackageSeq[j] /\ Order[at] = "tag"
      BY <1>1, <3>1 DEF PackageStep, Here
    <3>3. TagOne(Here)
      BY <3>2 DEF ForPackage
    <3>4. \E t \in tags' : t.name = Here /\ t.version = vers[Here]
      BY <3>3, TagParts DEF TagOne
    <3>5. QED
      BY <1>3, <3>2, <3>4
  <2>4. QED
    BY <1>1, <2>2, <2>3, TurnStays
<1>4. QED
  BY <1>2, <1>3

\* A tag that is not pushed is still to be pushed.
LEMMA PushStep ==
    ASSUME DefaultOrdered, RunInv, PushInv, [Next]_vars
    PROVE  PushInv'
<1> SUFFICES ASSUME Orderly', ~ (tags' \subseteq remote') PROVE ToCome(Place("push"))'
  BY DEF PushInv, Place, Steps
<1>1. /\ Place("push") \in Steps /\ Order[Place("push")] = "push"
      /\ Place("tag") \in Steps /\ Place("tag") < Place("push")
      /\ \A k \in Steps : Order[k] = "tag" => k = Place("tag")
  BY Places DEF Known
<1>2. CASE tags' # tags
  <2>1. run.live /\ at = Place("tag")
    BY <1>1, <1>2, Effects
  <2>2. at <= Place("push") /\ at # Place("push")
    BY <1>1, <2>1, OrderParts
  <2>3. ToCome(Place("push"))
    BY <2>1, <2>2 DEF ToCome
  <2>4. QED
    BY <1>1, <2>2, <2>3, ToComeStays
<1>3. CASE tags' = tags
  <2>1. remote' = remote
    BY <1>3, Effects
  <2>2. ToCome(Place("push"))
    BY <1>3, <2>1, OrderlyBefore DEF PushInv
  <2>3. ~ (Goes /\ at = Place("push"))
    <3>1. SUFFICES ASSUME Goes, at = Place("push") PROVE FALSE
      OBVIOUS
    <3>2. Push
      BY <1>1, <3>1, GoesBy DEF VersionDone, PlainStep, Plain, PackageStep, RunStep
    <3>3. QED
      BY <1>3, <3>2 DEF Push
  <2>4. QED
    BY <1>1, <2>2, <2>3, ToComeStays
<1>4. QED
  BY <1>2, <1>3

\* What appears outside is in order: a tag when its version is committed and
\* published, a forge release when its tag is pushed.
LEMMA OutStep ==
    ASSUME DefaultOrdered, RunInv, IndexInv, HeadInv, RegistryInv, TagInv, PushInv, OutInv,
           [Next]_vars
    PROVE  OutInv'
<1> SUFFICES ASSUME Orderly' PROVE OutInv'
  BY DEF OutInv
<1>1. Orderly
  BY OrderlyBefore
<1>2. /\ remote \subseteq tags
      /\ \A t \in tags : t.holds = t.version /\ <<t.name, t.version>> \in registry
      /\ \A r \in forge : \E t \in remote : <<t.name, t.version>> = r
  BY <1>1 DEF OutInv
<1>3. \A name \in Known : Place(name) \in Steps
  BY Places
<1>4. /\ Place("commit") < Place("tag") /\ Place("publish") < Place("tag")
      /\ Place("tag") < Place("release") /\ Place("push") < Place("release")
  BY <1>3, Places, OrderParts DEF Known
<1>5. at \in Steps /\ Order[at] \in PackageNames /\ run.live
        => \E j \in DOMAIN PackageSeq : Here = PackageSeq[j]
  BY PackageParts DEF IndexInv, Here
<1>6. ASSUME tags' # tags
      PROVE  \A t \in tags' : t.holds = t.version /\ <<t.name, t.version>> \in registry
  <2>1. /\ run.live /\ at \in Steps /\ Order[at] = "tag" /\ Here \notin ws.ignored
        /\ tags' = tags \cup {Tag(Here)}
    BY <1>6, Effects
  <2>2. at = Place("tag")
    BY <2>1, Places DEF Known
  <2>3. ~ToCome(Place("commit")) /\ ~ToCome(Place("publish"))
    BY <1>3, <1>4, <2>1, <2>2, Past DEF Known
  <2>4. head = vers
    BY <1>1, <2>3 DEF HeadInv
  <2>5. <<Here, vers[Here]>> \in registry
    <3>1. PICK j \in DOMAIN PackageSeq : Here = PackageSeq[j]
      BY <1>5, <2>1 DEF PackageNames
    <3>2. QED
      BY <1>1, <2>1, <2>3, <3>1 DEF RegistryInv, Missing
  <2>6. Tag(Here).holds = Tag(Here).version
        /\ <<Tag(Here).name, Tag(Here).version>> \in registry
    <3>1. Tag(Here).name = Here /\ Tag(Here).version = vers[Here] /\ Tag(Here).holds = head[Here]
      BY TagParts
    <3>2. QED
      BY <2>4, <2>5, <3>1
  <2>7. ASSUME NEW t \in tags' PROVE t.holds = t.version /\ <<t.name, t.version>> \in registry
    <3>1. t \in tags \/ t = Tag(Here)
      BY <2>1
    <3>2. CASE t \in tags
      BY <1>2, <3>2
    <3>3. CASE t = Tag(Here)
      BY <2>6, <3>3
    <3>4. QED
      BY <3>1, <3>2, <3>3
  <2>8. QED
    BY <2>7
<1>7. ASSUME forge' # forge
      PROVE  \A r \in forge' : \E t \in remote' : <<t.name, t.version>> = r
  <2>1. /\ run.live /\ at \in Steps /\ Order[at] = "release" /\ Here \notin ws.ignored
        /\ forge' = forge \cup {<<Here, vers[Here]>>} /\ remote' = remote
    BY <1>7, Effects
  <2>2. at = Place("release")
    BY <2>1, Places DEF Known
  <2>3. ~ToCome(Place("tag")) /\ ~ToCome(Place("push"))
    BY <1>3, <1>4, <2>1, <2>2, Past DEF Known
  <2>4. PICK t \in tags : t.name = Here /\ t.version = vers[Here]
    <3>1. PICK j \in DOMAIN PackageSeq : Here = PackageSeq[j]
      BY <1>5, <2>1 DEF PackageNames
    <3>2. QED
      BY <1>1, <2>1, <2>3, <3>1 DEF TagInv, Tagged, Missing
  <2>5. t \in remote'
    BY <1>1, <2>1, <2>3, <2>4 DEF PushInv
  <2>6. <<t.name, t.version>> = <<Here, vers[Here]>>
    BY <2>4
  <2>7. QED
    BY <1>2, <2>1, <2>5, <2>6
<1>8. /\ registry \subseteq registry' /\ tags \subseteq tags' /\ remote \subseteq remote'
      /\ remote' \subseteq remote \cup tags
  BY Effects
<1>9. QED
  BY <1>2, <1>6, <1>7, <1>8 DEF OutInv

\* Whatever a release stopped at and was resumed from, and however often: a tag
\* is on a commit that holds its version and only once that is published, a
\* pushed one too, and a forge release hangs off a pushed tag.  It is so in the
\* default order of the steps, and unless the operator forced a start, left
\* steps out, or the process was killed.
THEOREM OutsideInOrder == ASSUME DefaultOrdered PROVE Spec => []OutwardOrder
<1> DEFINE Inv == /\ RunInv /\ IndexInv /\ HeadInv /\ RegistryInv /\ TagInv /\ PushInv
                  /\ OutInv
<1>1. Init => Inv
  <2> SUFFICES ASSUME Init PROVE Inv
    OBVIOUS
  <2>1. RunInv /\ IndexInv
    BY OrderParts DEF Init, RunInv, IndexInv, Idle
  <2>2. HeadInv /\ PushInv
    BY DEF Init, HeadInv, PushInv
  <2>3. PackageSeq[1] \in Packages /\ \A j \in DOMAIN PackageSeq : PackageSeq[j] \in Packages
    BY PackageParts DEF Packages, ToSet
  <2> DEFINE one(p) == [name |-> p, version |-> vers[p], holds |-> vers[p]]
  <2>4. /\ tags = {one(p) : p \in Packages \ ws.ignored} /\ remote = tags
        /\ registry = {<<p, vers[p]>> : p \in Packages \ ws.ignored} /\ forge = registry
    BY DEF Init
  <2>5. \A p : one(p).name = p /\ one(p).version = vers[p] /\ one(p).holds = vers[p]
    OBVIOUS
  <2> HIDE DEF one
  <2>6. RegistryInv /\ TagInv
    BY <2>3, <2>4, <2>5 DEF RegistryInv, TagInv, Tagged
  <2>7. OutInv
    BY <2>4, <2>5 DEF OutInv
  <2>8. QED
    BY <2>1, <2>2, <2>6, <2>7
<1>2. Inv /\ [Next]_vars => Inv'
  BY RunStepInv, IndexStep, HeadStep, RegistryStep, TagStep, PushStep, OutStep
<1>3. Inv => OutwardOrder
  BY DEF OutInv, Orderly, OutwardOrder
<1>4. QED
  BY <1>1, <1>2, <1>3, PTL DEF Spec
-----------------------------------------------------------------------------
\* Folds over a sequence.  FoldLeft takes the positions of the sequence in the
\* order of their size; what it chooses exists, and is built position by
\* position.

\* What holds at 0 and passes on holds up to n.
LEMMA Climb ==
    ASSUME NEW n \in Nat, NEW S, 0 \in S, \A k \in 1 .. n : k - 1 \in S => k \in S
    PROVE  \A k \in 0 .. n : k \in S
<1> DEFINE bad == (0 .. n) \ S
<1>1. SUFFICES ASSUME bad # {} PROVE FALSE
  OBVIOUS
<1>2. bad \in SUBSET Nat
  OBVIOUS
<1>3. PICK k \in bad : \A j \in bad : k <= j
  BY <1>1, <1>2, Least
<1>4. k \in 1 .. n /\ k - 1 \in 0 .. n /\ k - 1 \notin bad
  BY <1>3
<1>5. QED
  BY <1>3, <1>4

\* A nonempty set of positions has a last one.
LEMMA MaxParts ==
    ASSUME NEW n \in Nat, NEW s \in SUBSET (1 .. n), s # {}
    PROVE  Max(s) \in s /\ \A y \in s : y <= Max(s)
<1> DEFINE below == {n - y : y \in s}
<1>1. below \subseteq Nat /\ below # {}
  <2>1. \A y \in s : n - y \in Nat
    OBVIOUS
  <2>2. QED
    BY <2>1
<1>2. PICK x \in below : \A y \in below : x <= y
  BY <1>1, Least
<1>3. PICK z \in s : x = n - z
  BY <1>2
<1>4. ASSUME NEW y \in s PROVE z >= y
  <2>1. n - y \in below
    BY <1>4
  <2>2. n - z <= n - y
    BY <1>2, <1>3, <2>1
  <2>3. QED
    BY <2>2, <1>3
<1>5. \E m \in s : \A y \in s : m >= y
  BY <1>4
<1>6. Max(s) \in s /\ \A y \in s : Max(s) >= y
  BY <1>5 DEF Max
<1>7. QED
  BY <1>6

\* What is left when the last position goes ends before it.
LEMMA MaxLess ==
    ASSUME NEW n \in Nat, NEW s \in SUBSET (1 .. n), s # {}, s \ {Max(s)} # {}
    PROVE  Max(s \ {Max(s)}) < Max(s)
<1>1. Max(s) \in s /\ \A y \in s : y <= Max(s)
  BY MaxParts
<1>2. s \ {Max(s)} \in SUBSET (1 .. n)
  OBVIOUS
<1>3. Max(s \ {Max(s)}) \in s \ {Max(s)}
  BY <1>2, MaxParts
<1>4. Max(s) \in 1 .. n /\ Max(s \ {Max(s)}) \in 1 .. n
  BY <1>1, <1>3
<1>5. Max(s \ {Max(s)}) <= Max(s) /\ Max(s \ {Max(s)}) # Max(s)
  BY <1>1, <1>3
<1>6. QED
  BY <1>4, <1>5

\* FoldLeft chooses a function g of sets of positions; F is a step of it.
IsFold(g, F, B, Q, n) == g = [s \in SUBSET (1 .. n) |->
                                IF s = {} THEN B ELSE F[<<g[s \ {Max(s)}], Q[Max(s)]>>]]
Keeps(F, Q, n, St) == \A st \in St, k \in 1 .. n : F[<<st, Q[k]>>] \in St
Unfolds(h, F, B, Q, n, St) ==
    /\ h[{}] = B
    /\ \A s \in SUBSET (1 .. n) : (s # {} /\ h[s \ {Max(s)}] \in St) =>
           h[s] = F[<<h[s \ {Max(s)}], Q[Max(s)]>>]
IsChain(f, F, B, h, Q, n, St) ==
    /\ f \in [0 .. n -> St] /\ f[0] = B /\ f[n] = h[1 .. n]
    /\ \A k \in 1 .. n : f[k] = F[<<f[k - 1], Q[k]>>]

\* What FoldLeft chooses exists, for any function of a state and an element.
LEMMA FoldExists ==
    ASSUME NEW F, NEW B, NEW Q, NEW n \in Nat
    PROVE  \E g : IsFold(g, F, B, Q, n)
<1> DEFINE D == SUBSET (1 .. n)
           Upto(u, k) == /\ u = [s \in D |-> u[s]] /\ u[{}] = B
                         /\ \A s \in D : (s # {} /\ Max(s) <= k) =>
                                u[s] = F[<<u[s \ {Max(s)}], Q[Max(s)]>>]
<1>0. \A s \in D : s # {} => Max(s) \in 1 .. n
  BY MaxParts
<1>1. \E u : Upto(u, 0)
  <2> DEFINE u == [s \in D |-> B]
  <2>1. Upto(u, 0)
    BY <1>0
  <2> HIDE DEF u
  <2>2. QED
    BY <2>1
<1>2. ASSUME NEW k \in 1 .. n, NEW u, Upto(u, k - 1) PROVE \E w : Upto(w, k)
  <2> DEFINE w == [s \in D |-> IF s # {} /\ Max(s) = k
                               THEN F[<<u[s \ {Max(s)}], Q[Max(s)]>>] ELSE u[s]]
  <2>2. w = [s \in D |-> w[s]] /\ w[{}] = B
    BY <1>2
  <2>3. ASSUME NEW s \in D, s # {}, Max(s) <= k
        PROVE  w[s] = F[<<w[s \ {Max(s)}], Q[Max(s)]>>]
    <3>1. s \ {Max(s)} \in D
      OBVIOUS
    <3>2. w[s \ {Max(s)}] = u[s \ {Max(s)}]
      <4>1. ASSUME s \ {Max(s)} # {} PROVE Max(s \ {Max(s)}) # k
        <5>1. Max(s \ {Max(s)}) < Max(s)
          BY <2>3, <4>1, MaxLess
        <5>2. Max(s) \in 1 .. n /\ Max(s \ {Max(s)}) \in 1 .. n
          BY <2>3, <1>0, <3>1, <4>1
        <5>3. QED
          BY <5>1, <5>2, <2>3
      <4>2. QED
        BY <3>1, <4>1
    <3>3. CASE Max(s) = k
      BY <3>2, <3>3, <2>3
    <3>4. CASE Max(s) # k
      <4>1. Max(s) <= k - 1
        BY <1>0, <2>3, <3>4
      <4>2. u[s] = F[<<u[s \ {Max(s)}], Q[Max(s)]>>]
        BY <1>2, <2>3, <4>1
      <4>3. QED
        BY <4>2, <3>2, <3>4
    <3>5. QED
      BY <3>3, <3>4
  <2>4. Upto(w, k)
    BY <2>2, <2>3
  <2> HIDE DEF w
  <2>5. QED
    BY <2>4
<1>3. \E u : Upto(u, n)
  <2> HIDE DEF Upto
  <2> DEFINE S == {k \in 0 .. n : \E u : Upto(u, k)}
  <2>1. 0 \in S
    BY <1>1
  <2>2. ASSUME NEW k \in 1 .. n, k - 1 \in S PROVE k \in S
    BY <1>2, <2>2
  <2> HIDE DEF S
  <2>3. n \in S
    BY <2>1, <2>2, Climb
  <2>4. QED
    BY <2>3 DEF S
<1>4. PICK g : Upto(g, n)
  BY <1>3
<1>5. ASSUME NEW s \in D
      PROVE  g[s] = IF s = {} THEN B ELSE F[<<g[s \ {Max(s)}], Q[Max(s)]>>]
  <2>1. CASE s = {}
    BY <1>4, <2>1
  <2>2. CASE s # {}
    <3>1. Max(s) <= n
      BY <1>0, <2>2
    <3>2. QED
      BY <1>4, <2>2, <3>1
  <2>3. QED
    BY <2>1, <2>2
<1>6. g = [s \in D |-> IF s = {} THEN B ELSE F[<<g[s \ {Max(s)}], Q[Max(s)]>>]]
  <2>1. g = [s \in D |-> g[s]]
    BY <1>4
  <2> HIDE DEF D, Upto
  <2>2. QED
    BY <2>1, <1>5
<1>7. IsFold(g, F, B, Q, n)
  BY <1>6 DEF IsFold
<1>8. QED
  BY <1>7

\* If the function keeps to a set of states, so does the fold.
LEMMA FoldTyped ==
    ASSUME NEW St, NEW B \in St, NEW F, NEW Q, NEW n \in Nat, NEW g,
           Keeps(F, Q, n, St), IsFold(g, F, B, Q, n)
    PROVE  \A s \in SUBSET (1 .. n) : g[s] \in St
<1> DEFINE D == SUBSET (1 .. n)
           S == {k \in 0 .. n : \A s \in D : (s # {} => Max(s) <= k) => g[s] \in St}
<1>0. \A s \in D : s # {} => Max(s) \in 1 .. n
  BY MaxParts
<1>1. \A s \in D : g[s] = IF s = {} THEN B ELSE F[<<g[s \ {Max(s)}], Q[Max(s)]>>]
  <2>1. g = [s \in D |-> IF s = {} THEN B ELSE F[<<g[s \ {Max(s)}], Q[Max(s)]>>]]
    BY DEF IsFold
  <2> HIDE DEF D
  <2>2. QED
    BY <2>1
<1>2. 0 \in S
  <2>1. ASSUME NEW s \in D, s # {} => Max(s) <= 0 PROVE g[s] \in St
    <3>1. s = {}
      BY <1>0, <2>1
    <3>2. QED
      BY <1>1, <3>1
  <2> HIDE DEF D
  <2>2. QED
    BY <2>1
<1>3. ASSUME NEW k \in 1 .. n, k - 1 \in S PROVE k \in S
  <2>1. ASSUME NEW s \in D, s # {}, Max(s) <= k PROVE g[s] \in St
    <3>1. s \ {Max(s)} \in D
      OBVIOUS
    <3>2. ASSUME s \ {Max(s)} # {} PROVE Max(s \ {Max(s)}) <= k - 1
      <4>1. Max(s \ {Max(s)}) < Max(s)
        BY <2>1, <3>2, MaxLess
      <4>2. Max(s) \in 1 .. n /\ Max(s \ {Max(s)}) \in 1 .. n
        BY <2>1, <1>0, <3>1, <3>2
      <4>3. QED
        BY <4>1, <4>2, <2>1
    <3>3. g[s \ {Max(s)}] \in St
      BY <1>3, <3>1, <3>2
    <3>4. QED
      BY <3>3, <2>1, <1>0, <1>1 DEF Keeps
  <2>2. \A s \in D : s = {} => g[s] \in St
    BY <1>1
  <2>3. \A s \in D : (s # {} => Max(s) <= k) => g[s] \in St
    BY <2>1, <2>2
  <2>4. k \in 0 .. n
    OBVIOUS
  <2> HIDE DEF D
  <2>5. QED
    BY <2>3, <2>4, Zenon
<1>4. n \in S
  <2> HIDE DEF S
  <2>1. QED
    BY <1>2, <1>3, Climb
<1>5. \A s \in D : (s # {} => Max(s) <= n) => g[s] \in St
  <2> HIDE DEF D
  <2>1. QED
    BY <1>4
<1>6. \A s \in D : s # {} => Max(s) <= n
  BY <1>0
<1>7. QED
  BY <1>5, <1>6

\* The states the fold goes through, one for each position.
LEMMA FoldValue ==
    ASSUME NEW St, NEW B \in St, NEW F, NEW Q, NEW n \in Nat, NEW h,
           Keeps(F, Q, n, St), Unfolds(h, F, B, Q, n, St)
    PROVE  \E f : IsChain(f, F, B, h, Q, n, St)
<1> DEFINE S == {k \in 0 .. n : h[1 .. k] \in St}
           f == [k \in 0 .. n |-> h[1 .. k]]
<1>1. ASSUME NEW k \in 1 .. n, h[1 .. (k - 1)] \in St
      PROVE  h[1 .. k] = F[<<h[1 .. (k - 1)], Q[k]>>]
  <2>1. (1 .. k) \in SUBSET (1 .. n) /\ 1 .. k # {}
    OBVIOUS
  <2>2. Max(1 .. k) = k
    <3>1. Max(1 .. k) \in 1 .. k /\ \A y \in 1 .. k : y <= Max(1 .. k)
      BY <2>1, MaxParts
    <3>2. QED
      BY <3>1
  <2>3. (1 .. k) \ {k} = 1 .. (k - 1)
    OBVIOUS
  <2>4. QED
    BY <2>1, <2>2, <2>3, <1>1 DEF Unfolds
<1>2. 1 .. 0 = {} /\ 0 \in S
  BY DEF Unfolds
<1>3. ASSUME NEW k \in 1 .. n, k - 1 \in S PROVE k \in S
  <2>1. h[1 .. (k - 1)] \in St
    BY <1>3
  <2>2. F[<<h[1 .. (k - 1)], Q[k]>>] \in St
    BY <2>1 DEF Keeps
  <2>3. QED
    BY <1>1, <2>1, <2>2
<1>4. \A k \in 0 .. n : k \in S
  <2> HIDE DEF S
  <2>1. QED
    BY <1>2, <1>3, Climb
<1>5. f \in [0 .. n -> St] /\ f[0] = B /\ f[n] = h[1 .. n]
  BY <1>2, <1>4 DEF Unfolds
<1>6. ASSUME NEW k \in 1 .. n PROVE f[k] = F[<<f[k - 1], Q[k]>>]
  <2>1. k - 1 \in 0 .. n /\ k \in 0 .. n
    OBVIOUS
  <2>2. QED
    BY <2>1, <1>1, <1>4
<1> HIDE DEF f
<1>7. IsChain(f, F, B, h, Q, n, St)
  BY <1>5, <1>6 DEF IsChain
<1>8. QED
  BY <1>7

\* A fold whose last state says that nothing changed stood still, if no step of
\* it can take the mark of a change away.
LEMMA FoldQuiet ==
    ASSUME NEW n \in Nat, NEW f, f[n].changed = FALSE,
           \A k \in 1 .. n : f[k].changed = FALSE => f[k] = f[k - 1]
    PROVE  \A k \in 0 .. n : f[k] = f[0]
<1> DEFINE S == {k \in 0 .. n : f[n - k] = f[n]}
<1>1. 0 \in S
  OBVIOUS
<1>2. ASSUME NEW k \in 1 .. n, k - 1 \in S PROVE k \in S
  <2>1. n - k + 1 \in 1 .. n /\ n - k + 1 - 1 = n - k /\ n - (k - 1) = n - k + 1
    OBVIOUS
  <2>2. f[n - k + 1] = f[n]
    BY <1>2, <2>1
  <2>3. f[n - k + 1] = f[n - k]
    BY <2>1, <2>2
  <2>4. QED
    BY <2>2, <2>3
<1>3. \A k \in 0 .. n : k \in S
  <2> HIDE DEF S
  <2>1. QED
    BY <1>1, <1>2, Climb
<1>4. ASSUME NEW k \in 0 .. n PROVE f[k] = f[n]
  <2>1. n - k \in 0 .. n /\ n - (n - k) = k
    OBVIOUS
  <2>2. n - k \in S
    BY <2>1, <1>3
  <2>3. QED
    BY <2>1, <2>2
<1>5. QED
  BY <1>4
-----------------------------------------------------------------------------
\* Versions and bumps.

Versions == Nat \X Nat \X Nat

\* A version is its three numbers.
LEMMA VersionParts ==
    ASSUME NEW v \in Versions
    PROVE  v[1] \in Nat /\ v[2] \in Nat /\ v[3] \in Nat /\ v = <<v[1], v[2], v[3]>>
BY DEF Versions

\* Three numbers are a version.
LEMMA VersionIn ==
    ASSUME NEW a \in Nat, NEW b \in Nat, NEW c \in Nat
    PROVE  /\ <<a, b, c>> \in Versions
           /\ <<a, b, c>>[1] = a /\ <<a, b, c>>[2] = b /\ <<a, b, c>>[3] = c
BY DEF Versions

\* Older is a total order.
LEMMA OlderOrders ==
    ASSUME NEW u \in Versions, NEW v \in Versions, NEW w \in Versions
    PROVE  /\ ~Older(u, u)
           /\ Older(u, v) => ~Older(v, u)
           /\ (~Older(u, v) /\ ~Older(v, w)) => ~Older(u, w)
           /\ (~Older(u, v) /\ ~Older(v, u)) => u = v
<1>1. /\ u[1] \in Nat /\ u[2] \in Nat /\ u[3] \in Nat
      /\ v[1] \in Nat /\ v[2] \in Nat /\ v[3] \in Nat
      /\ w[1] \in Nat /\ w[2] \in Nat /\ w[3] \in Nat
      /\ u = <<u[1], u[2], u[3]>> /\ v = <<v[1], v[2], v[3]>>
  BY VersionParts
<1>2. ASSUME ~Older(u, v), ~Older(v, u) PROVE u = v
  <2>1. u[1] = v[1] /\ u[2] = v[2] /\ u[3] = v[3]
    BY <1>1, <1>2 DEF Older
  <2>2. QED
    BY <1>1, <2>1
<1>3. ~Older(u, u) /\ (Older(u, v) => ~Older(v, u))
  BY <1>1 DEF Older
<1>4. (~Older(u, v) /\ ~Older(v, w)) => ~Older(u, w)
  BY <1>1 DEF Older
<1>5. QED
  BY <1>2, <1>3, <1>4

\* A bump raises a version, a larger one or one on a newer version no less.
LEMMA RaiseParts ==
    ASSUME NEW v \in Versions, NEW b \in Bumps
    PROVE  /\ Raise(v, b) \in Versions
           /\ b # None => Older(v, Raise(v, b))
           /\ b = None => Raise(v, b) = v
<1>1. /\ v[1] \in Nat /\ v[2] \in Nat /\ v[3] \in Nat
      /\ v = <<v[1], v[2], v[3]>>
  BY VersionParts
<1>2. CASE b = None
  <2>1. Raise(v, b) = v
    BY <1>2 DEF Raise, None, Patch, Minor, Major
  <2>2. QED
    BY <1>2, <2>1
<1>3. CASE b = Patch
  <2>1. Raise(v, b) = <<v[1], v[2], v[3] + 1>>
    BY <1>3 DEF Raise, None, Patch, Minor, Major
  <2>2. QED
    BY <1>1, <1>3, <2>1, VersionIn DEF Older, None, Patch
<1>4. CASE b = Minor
  <2>1. Raise(v, b) = <<v[1], v[2] + 1, 0>>
    BY <1>4 DEF Raise, None, Patch, Minor, Major
  <2>2. QED
    BY <1>1, <1>4, <2>1, VersionIn DEF Older, None, Minor
<1>5. CASE b = Major
  <2>1. Raise(v, b) = <<v[1] + 1, 0, 0>>
    BY <1>5 DEF Raise, None, Patch, Minor, Major
  <2>2. QED
    BY <1>1, <1>5, <2>1, VersionIn DEF Older, None, Major
<1>6. QED
  BY <1>2, <1>3, <1>4, <1>5 DEF Bumps, None, Patch, Minor, Major

\* A later version with a larger bump is raised to a later version.
LEMMA RaiseGrows ==
    ASSUME NEW v \in Versions, NEW w \in Versions, NEW b \in 1 .. 3, NEW c \in 1 .. 3,
           ~Older(w, v), b <= c
    PROVE  ~Older(Raise(w, c), Raise(v, b))
<1>1. /\ v[1] \in Nat /\ v[2] \in Nat /\ v[3] \in Nat
      /\ w[1] \in Nat /\ w[2] \in Nat /\ w[3] \in Nat
  BY VersionParts
<1> DEFINE R(x, d) == IF d = 3 THEN <<x[1] + 1, 0, 0>>
                      ELSE IF d = 2 THEN <<x[1], x[2] + 1, 0>>
                      ELSE <<x[1], x[2], x[3] + 1>>
<1>2. Raise(w, c) = R(w, c) /\ Raise(v, b) = R(v, b)
  BY DEF Raise, None, Patch, Minor, Major
<1>3. \/ v[1] < w[1]
      \/ v[1] = w[1] /\ v[2] < w[2]
      \/ v[1] = w[1] /\ v[2] = w[2] /\ v[3] <= w[3]
  BY <1>1 DEF Older
<1>4. CASE b = 1 /\ c = 1
  BY <1>1, <1>2, <1>3, <1>4, VersionIn DEF Older
<1>5. CASE b = 1 /\ c = 2
  BY <1>1, <1>2, <1>3, <1>5, VersionIn DEF Older
<1>6. CASE c = 3 /\ b # 3
  BY <1>1, <1>2, <1>3, <1>6, VersionIn DEF Older
<1>7. CASE b = 2 /\ c = 2
  BY <1>1, <1>2, <1>3, <1>7, VersionIn DEF Older
<1>8. CASE b = 3 /\ c = 3
  BY <1>1, <1>2, <1>3, <1>8, VersionIn DEF Older
<1>9. QED
  BY <1>4, <1>5, <1>6, <1>7, <1>8

\* A range admits the version it was written for; one that leaves out a version
\* it does not lag behind leaves out every newer one.
LEMMA RangeParts ==
    ASSUME NEW op \in {"caret", "exact", "none"}, NEW a \in Versions, NEW v \in Versions
    PROVE  /\ op # "none" => InRange(op, v, v)
           /\ InRange(op, a, v) => ~Older(v, a)
           /\ \A w \in Versions :
                 (~Older(w, v) /\ (op # "none" => ~Older(v, a)) /\ ~InRange(op, a, v))
                    => ~InRange(op, a, w)
<1>0. CaretTop(a) \in Versions /\ CaretTop(v) \in Versions /\ Older(v, CaretTop(v))
  <2>1. /\ v[1] \in Nat /\ v[2] \in Nat /\ v[3] \in Nat
        /\ a[1] \in Nat /\ a[2] \in Nat /\ a[3] \in Nat
    BY VersionParts
  <2>2. CaretTop(a) \in Versions /\ CaretTop(v) \in Versions
    BY <2>1, VersionIn DEF CaretTop
  <2>3. Older(v, CaretTop(v))
    BY <2>1, VersionIn DEF CaretTop, Older
  <2>4. QED
    BY <2>2, <2>3
<1>1. op # "none" => InRange(op, v, v)
  BY <1>0, OlderOrders DEF InRange
<1>2. InRange(op, a, v) => ~Older(v, a)
  BY OlderOrders DEF InRange
<1>3. ASSUME NEW w \in Versions, ~Older(w, v), op # "none" => ~Older(v, a), ~InRange(op, a, v)
      PROVE  ~InRange(op, a, w)
  <2>1. CASE op = "none"
    BY <2>1 DEF InRange
  <2>2. CASE op = "caret"
    <3>1. ~Older(v, CaretTop(a))
      BY <1>3, <2>2 DEF InRange
    <3>2. ~Older(w, CaretTop(a))
      BY <1>0, <1>3, <3>1, OlderOrders
    <3>3. QED
      BY <2>2, <3>2 DEF InRange
  <2>3. CASE op = "exact"
    <3>1. v # a /\ ~Older(v, a)
      BY <1>3, <2>3 DEF InRange
    <3>2. ASSUME w = a PROVE FALSE
      BY <1>3, <3>1, <3>2, OlderOrders
    <3>3. QED
      BY <2>3, <3>2 DEF InRange
  <2>4. QED
    BY <2>1, <2>2, <2>3
<1>4. QED
  BY <1>1, <1>2, <1>3

\* The highest of some bumps.
LEMMA HighestParts ==
    ASSUME NEW S \in SUBSET Bumps, S # {}
    PROVE  Highest(S) \in S /\ \A b \in S : b <= Highest(S)
<1>1. Bumps = {0, 1, 2, 3}
  BY DEF Bumps, None, Major
<1>2. \E b \in S : \A c \in S : c <= b
  <2>1. CASE 3 \in S
    BY <1>1, <2>1
  <2>2. CASE 3 \notin S /\ 2 \in S
    BY <1>1, <2>2
  <2>3. CASE 3 \notin S /\ 2 \notin S /\ 1 \in S
    BY <1>1, <2>3
  <2>4. CASE 3 \notin S /\ 2 \notin S /\ 1 \notin S
    <3>1. \A c \in S : c = 0
      BY <1>1, <2>4
    <3>2. QED
      BY <3>1
  <2>5. QED
    BY <2>1, <2>2, <2>3, <2>4
<1>3. QED
  BY <1>2 DEF Highest
-----------------------------------------------------------------------------
\* Where a plan ends: what a tree with versions v and ranges a comes to, said
\* without the passes.

Changesets == [name : Packages, bump : Bumps]
\* What the tree of a workspace is made of, and its groups.
Trees == [Packages -> Versions]
Ranges == [Edges -> Versions]
Sources == ws \in Workspaces /\ pending \subseteq Changesets
AllGroups == ToSet(ws.linked) \cup ToSet(ws.fixed) \cup ws.files

\* The group whose version a package takes, if it is released.
Takes(g, p) ==
    \/ g \in ToSet(ws.linked) /\ p \in ToSet(g)
    \/ g \in ToSet(ws.fixed) \cup ws.files /\ p \in ToSet(g) \ ws.ignored
Grouped(p) == \E g \in AllGroups : Takes(g, p)
Mates(p) == UNION {ToSet(g) : g \in {h \in AllGroups : Takes(h, p)}}

\* The bump and the version a released package starts from, and its version.
Own(v, p) == IF Asked(p) = None THEN Patch
             ELSE IF Asked(p) = Major /\ ws.preMajor /\ v[p][1] = 0 THEN Minor
             ELSE Asked(p)
NewestOf(v, names) == CHOOSE u \in {v[p] : p \in names} :
                         \A p \in names : ~Older(u, v[p])
GroupBump(v, names) == Highest({Own(v, p) : p \in names})
FinalBump(v, p) == IF Grouped(p) THEN GroupBump(v, Mates(p)) ELSE Own(v, p)
FinalFrom(v, p) == IF Grouped(p) THEN NewestOf(v, Mates(p)) ELSE v[p]
Final(v, p) == Raise(FinalFrom(v, p), FinalBump(v, p))

\* The packages of a release: what was asked for, their dependents whose range
\* leaves them out, whole groups, and no others.
Answers(v, a, T) ==
    /\ {p \in Packages : Asked(p) # None} \subseteq T
    /\ \A e \in Edges :
          e.kind = "normal" /\ e.to \in T /\ ~InRange(ws.ops[e], a[e], Final(v, e.to))
          => e.from \in T
    /\ \A g \in ToSet(ws.fixed) \cup ws.files :
          ToSet(g) \cap T # {} => ToSet(g) \ ws.ignored \subseteq T
\* The least set of packages that answers.
IsNeeded(v, a, S) == /\ Answers(v, a, S)
                     /\ \A T \in SUBSET Packages : Answers(v, a, T) => S \subseteq T
Needed(v, a) == {p \in Packages :
                    \A T \in SUBSET Packages : Answers(v, a, T) => p \in T}

\* What the parts of a workspace are.
LEMMA WorkspaceParts ==
    ASSUME ws \in Workspaces
    PROVE  /\ ws.ops \in [Edges -> {"caret", "exact", "none"}]
           /\ ws.linked \in Seq(Groups) /\ ws.fixed \in Seq(Groups)
           /\ ws.files \in SUBSET Groups /\ ws.ignored \in SUBSET Packages
           /\ ws.preMajor \in BOOLEAN /\ ws.threshold \in Bumps
           /\ ws.versions \in Trees /\ ws.changesets \in SUBSET Changesets
           /\ ws.trouble \in Nat /\ ws.more \in 0 .. 1
           /\ AllGroups \subseteq Groups
<1>1. ws \in WorkspaceType
  BY WorkspaceAssumption DEF WorkspaceAssumption
<1>2. /\ ws.ops \in [Edges -> {"caret", "exact", "none"}]
      /\ ws.linked \in Seq(Groups) /\ ws.fixed \in Seq(Groups)
      /\ ws.files \in SUBSET Groups /\ ws.ignored \in SUBSET Packages
      /\ ws.preMajor \in BOOLEAN /\ ws.threshold \in Bumps
      /\ ws.versions \in Trees /\ ws.changesets \in SUBSET Changesets
      /\ ws.trouble \in Nat /\ ws.more \in 0 .. 1
  BY <1>1 DEF WorkspaceType, Trees, Versions, Changesets
<1>3. ToSet(ws.linked) \subseteq Groups /\ ToSet(ws.fixed) \subseteq Groups
  BY <1>2 DEF ToSet
<1>4. QED
  BY <1>2, <1>3 DEF AllGroups

\* Two sequences one after the other.
LEMMA ConcatParts ==
    ASSUME NEW S, NEW s \in Seq(S), NEW t \in Seq(S)
    PROVE  s \o t \in Seq(S) /\ ToSet(s \o t) = ToSet(s) \cup ToSet(t)
<1>1. /\ s \o t \in Seq(S) /\ Len(s) \in Nat /\ Len(t) \in Nat
      /\ Len(s \o t) = Len(s) + Len(t)
      /\ DOMAIN s = 1 .. Len(s) /\ DOMAIN t = 1 .. Len(t)
      /\ DOMAIN (s \o t) = 1 .. Len(s \o t)
      /\ \A j \in 1 .. Len(s) : (s \o t)[j] = s[j]
      /\ \A j \in 1 .. Len(t) : (s \o t)[j + Len(s)] = t[j]
  OBVIOUS
<1> DEFINE st == s \o t
<1> HIDE DEF st
<1>2. ASSUME NEW j \in 1 .. Len(s) PROVE s[j] \in ToSet(st)
  BY <1>1 DEF ToSet, st
<1>3. ASSUME NEW j \in 1 .. Len(t) PROVE t[j] \in ToSet(st)
  <2>1. j + Len(s) \in DOMAIN st /\ st[j + Len(s)] = t[j]
    BY <1>1 DEF st
  <2>2. QED
    BY <2>1 DEF ToSet
<1>4. ASSUME NEW j \in DOMAIN st PROVE st[j] \in ToSet(s) \cup ToSet(t)
  <2>1. CASE j <= Len(s)
    BY <1>1, <2>1 DEF ToSet, st
  <2>2. CASE j > Len(s)
    <3>1. j - Len(s) \in 1 .. Len(t) /\ st[j] = t[j - Len(s)]
      BY <1>1, <2>2 DEF st
    <3>2. QED
      BY <1>1, <3>1 DEF ToSet
  <2>3. QED
    BY <1>1, <2>1, <2>2 DEF st
<1>5. ToSet(st) = ToSet(s) \cup ToSet(t)
  BY <1>1, <1>2, <1>3, <1>4 DEF ToSet
<1>6. QED
  BY <1>1, <1>5 DEF st

\* A group has members, and they are packages.
LEMMA GroupMembers ==
    ASSUME NEW g \in Groups
    PROVE  /\ ToSet(g) \subseteq Packages /\ ToSet(g) # {}
           /\ g \in Seq(Packages) /\ Len(g) \in Nat \ {0} /\ DOMAIN g = 1 .. Len(g)
           /\ \A k \in 1 .. Len(g) : g[k] \in ToSet(g)
           /\ \A p \in ToSet(g) : \E k \in 1 .. Len(g) : p = g[k]
<1>1. PICK n \in 1 .. Len(PackageSeq) : g \in [1 .. n -> Packages]
  BY DEF Groups
<1>2. Len(PackageSeq) \in Nat
  BY PackageAssumption DEF PackageAssumption
<1>3. g \in Seq(Packages) /\ Len(g) = n /\ n \in Nat \ {0}
  BY <1>1, <1>2
<1>4. 1 \in 1 .. n /\ g[1] \in ToSet(g)
  BY <1>1, <1>3 DEF ToSet
<1>5. QED
  BY <1>1, <1>3, <1>4 DEF ToSet

\* A package is in one group at most.
LEMMA OneGroup ==
    ASSUME ws \in Workspaces, NEW g \in AllGroups, NEW h \in AllGroups, NEW p,
           p \in ToSet(g), p \in ToSet(h)
    PROVE  ToSet(g) = ToSet(h)
<1> DEFINE both == ws.linked \o ws.fixed
           m == Members(ws)
           f == {ToSet(k) : k \in ws.files}
<1>1. /\ \A j, k \in DOMAIN m : j # k => m[j] \cap m[k] = {}
      /\ \A j \in DOMAIN m, k \in f : m[j] \cap k = {}
      /\ \A j, k \in f : j # k => j \cap k = {}
  BY DisjointAssumption DEF DisjointAssumption
<1>2. ws.linked \in Seq(Groups) /\ ws.fixed \in Seq(Groups)
  BY WorkspaceParts
<1>3. both \in Seq(Groups) /\ DOMAIN m = 1 .. Len(both)
      /\ \A k \in DOMAIN m : m[k] = ToSet(both[k])
  <2>1. both \in Seq(Groups)
    BY <1>2
  <2>2. m = [k \in 1 .. Len(both) |-> ToSet(both[k])]
    BY DEF Members
  <2> HIDE DEF both, m
  <2>3. QED
    BY <2>1, <2>2
<1>4. ASSUME NEW k \in ToSet(ws.linked) \cup ToSet(ws.fixed)
      PROVE  \E j \in DOMAIN m : m[j] = ToSet(k)
  <2>1. k \in ToSet(both)
    BY <1>2, <1>4, ConcatParts
  <2> HIDE DEF m, both
  <2>2. PICK j \in 1 .. Len(both) : k = both[j]
    BY <1>3, <2>1 DEF ToSet
  <2>3. QED
    BY <1>3, <2>2
<1>5. CASE g \in ws.files /\ h \in ws.files
  BY <1>1, <1>5
<1>6. CASE g \notin ws.files /\ h \in ws.files
  BY <1>1, <1>4, <1>6 DEF AllGroups
<1>7. CASE g \in ws.files /\ h \notin ws.files
  BY <1>1, <1>4, <1>7 DEF AllGroups
<1>8. CASE g \notin ws.files /\ h \notin ws.files
  <2>1. PICK j \in DOMAIN m : m[j] = ToSet(g)
    BY <1>4, <1>8 DEF AllGroups
  <2>2. PICK k \in DOMAIN m : m[k] = ToSet(h)
    BY <1>4, <1>8 DEF AllGroups
  <2>3. QED
    BY <1>1, <2>1, <2>2
<1>9. QED
  BY <1>5, <1>6, <1>7, <1>8

\* A package takes the version of one group.
LEMMA TakesParts ==
    ASSUME ws \in Workspaces, NEW g, NEW p, Takes(g, p)
    PROVE  g \in AllGroups /\ p \in ToSet(g) /\ p \in Packages /\ Grouped(p)
           /\ Mates(p) = ToSet(g)
<1>1. g \in AllGroups /\ p \in ToSet(g)
  BY DEF Takes, AllGroups
<1>2. p \in Packages
  BY <1>1, WorkspaceParts, GroupMembers
<1>3. Grouped(p)
  BY <1>1 DEF Grouped
<1>4. ASSUME NEW h \in AllGroups, Takes(h, p) PROVE ToSet(h) = ToSet(g)
  <2>1. p \in ToSet(h)
    BY <1>4 DEF Takes
  <2>2. QED
    BY <1>1, <1>4, <2>1, OneGroup
<1>5. Mates(p) = ToSet(g)
  BY <1>1, <1>4 DEF Mates
<1>6. QED
  BY <1>1, <1>2, <1>3, <1>5

\* What the changesets ask of a package: the highest of its bumps.
LEMMA AskedParts ==
    ASSUME Sources, NEW p
    PROVE  /\ Asked(p) \in Bumps
           /\ \A c \in pending \ Kept : c.name = p => c.bump <= Asked(p)
           /\ Asked(p) # None => p \in Named
           /\ Asked(p) # None => \E c \in pending \ Kept : c.name = p /\ c.bump # None
           /\ Named \in SUBSET Packages
           /\ p \in Named => p \notin ws.ignored
<1> DEFINE mine == {c.bump : c \in {d \in pending \ Kept : d.name = p}}
<1>1. \A c \in pending : c.bump \in Bumps /\ c.name \in Packages
  BY DEF Sources, Changesets
<1>2. mine \in SUBSET Bumps
  BY <1>1
<1>3. {None} \cup mine \in SUBSET Bumps /\ {None} \cup mine # {}
  BY <1>2 DEF Bumps, None, Major
<1>4. Asked(p) \in {None} \cup mine /\ \A b \in {None} \cup mine : b <= Asked(p)
  BY <1>3, HighestParts DEF Asked
<1>5. \A c \in pending \ Kept : c.name = p => c.bump \in mine
  OBVIOUS
<1>6. Asked(p) # None => \E c \in pending \ Kept : c.name = p /\ c.bump = Asked(p)
  BY <1>4
<1>7. Named \in SUBSET Packages
  BY <1>1 DEF Named
<1>8. p \in Named => p \notin ws.ignored
  BY DEF Named, Kept
<1>9. QED
  BY <1>3, <1>4, <1>5, <1>6, <1>7, <1>8 DEF Named

\* The newest version in a group is one of its members', and no older than any.
LEMMA NewestParts ==
    ASSUME NEW v \in Trees, NEW g \in Groups
    PROVE  /\ NewestOf(v, ToSet(g)) \in Versions
           /\ \A p \in ToSet(g) : ~Older(NewestOf(v, ToSet(g)), v[p])
<1> DEFINE n == Len(g)
           S == {k \in 0 .. n : k = 0 \/ \E j \in 1 .. k : \A l \in 1 .. k :
                                              ~Older(v[g[j]], v[g[l]])}
<1>1. n \in Nat \ {0} /\ \A j \in 1 .. n : v[g[j]] \in Versions
  BY GroupMembers DEF Trees
<1> HIDE DEF n
<1>2. 0 \in S
  BY <1>1
<1>3. ASSUME NEW k \in 1 .. n, k - 1 \in S PROVE k \in S
  <2>1. CASE k = 1
    <3>1. \A l \in 1 .. 1 : ~Older(v[g[1]], v[g[l]])
      BY <1>1, OlderOrders, <2>1
    <3>2. QED
      BY <3>1, <2>1
  <2>2. CASE k # 1
    <3>1. PICK j \in 1 .. (k - 1) : \A l \in 1 .. (k - 1) : ~Older(v[g[j]], v[g[l]])
      BY <1>3, <2>2
    <3>2. CASE Older(v[g[j]], v[g[k]])
      <4>1. ASSUME NEW l \in 1 .. k PROVE ~Older(v[g[k]], v[g[l]])
        <5>1. CASE l = k
          BY <1>1, <5>1, OlderOrders
        <5>2. CASE l # k
          <6>1. ~Older(v[g[j]], v[g[l]]) /\ ~Older(v[g[k]], v[g[j]])
            BY <1>1, <3>1, <3>2, <5>2, OlderOrders
          <6>2. QED
            BY <1>1, <6>1, <5>2, OlderOrders
        <5>3. QED
          BY <5>1, <5>2
      <4>2. QED
        BY <4>1
    <3>3. CASE ~Older(v[g[j]], v[g[k]])
      <4>1. \A l \in 1 .. k : ~Older(v[g[j]], v[g[l]])
        BY <3>1, <3>3
      <4>2. QED
        BY <4>1
    <3>4. QED
      BY <3>2, <3>3
  <2>3. QED
    BY <2>1, <2>2
<1>4. n \in S
  <2> HIDE DEF S
  <2>1. QED
    BY <1>1, <1>2, <1>3, Climb
<1>5. PICK j \in 1 .. n : \A l \in 1 .. n : ~Older(v[g[j]], v[g[l]])
  BY <1>1, <1>4
<1>6. g[j] \in ToSet(g) /\ \A p \in ToSet(g) : ~Older(v[g[j]], v[p])
  BY <1>5, GroupMembers DEF n
<1>7. /\ NewestOf(v, ToSet(g)) \in {v[p] : p \in ToSet(g)}
      /\ \A p \in ToSet(g) : ~Older(NewestOf(v, ToSet(g)), v[p])
  BY <1>6 DEF NewestOf
<1>8. QED
  BY <1>7, GroupMembers DEF Trees

\* A package that is released is bumped.
LEMMA OwnParts ==
    ASSUME Sources, NEW v, NEW p PROVE Own(v, p) \in 1 .. 3
BY AskedParts DEF Own, Bumps, None, Patch, Minor, Major

\* The bump of a group is that of one of its members, and no less than any.
LEMMA GroupBumpParts ==
    ASSUME Sources, NEW v, NEW g \in Groups
    PROVE  /\ GroupBump(v, ToSet(g)) \in 1 .. 3
           /\ \E p \in ToSet(g) : GroupBump(v, ToSet(g)) = Own(v, p)
           /\ \A p \in ToSet(g) : Own(v, p) <= GroupBump(v, ToSet(g))
<1> DEFINE S == {Own(v, p) : p \in ToSet(g)}
<1>1. S \in SUBSET Bumps /\ S # {}
  BY OwnParts, GroupMembers DEF Bumps, None, Major
<1>2. GroupBump(v, ToSet(g)) \in S /\ \A b \in S : b <= GroupBump(v, ToSet(g))
  BY <1>1, HighestParts DEF GroupBump
<1>3. QED
  BY <1>2, OwnParts

\* A released package gets a later version, at least the one its own bump asks for.
LEMMA FinalParts ==
    ASSUME Sources, NEW v \in Trees, NEW p \in Packages
    PROVE  /\ FinalBump(v, p) \in 1 .. 3 /\ Own(v, p) <= FinalBump(v, p)
           /\ FinalFrom(v, p) \in Versions /\ ~Older(FinalFrom(v, p), v[p])
           /\ Final(v, p) \in Versions
           /\ ~Older(Final(v, p), Raise(v[p], Own(v, p)))
           /\ Older(v[p], Final(v, p))
           /\ Raise(v[p], Own(v, p)) \in Versions /\ ~Older(Raise(v[p], Own(v, p)), v[p])
<1>1. v[p] \in Versions /\ Own(v, p) \in 1 .. 3
  BY OwnParts DEF Trees
<1>2. /\ FinalBump(v, p) \in 1 .. 3 /\ Own(v, p) <= FinalBump(v, p)
      /\ FinalFrom(v, p) \in Versions /\ ~Older(FinalFrom(v, p), v[p])
  <2>1. CASE Grouped(p)
    <3>1. PICK g \in AllGroups : Takes(g, p)
      BY <2>1 DEF Grouped
    <3>2. Mates(p) = ToSet(g) /\ p \in ToSet(g) /\ g \in Groups
      BY <3>1, TakesParts, WorkspaceParts DEF Sources
    <3>3. QED
      BY <2>1, <3>2, GroupBumpParts, NewestParts DEF FinalBump, FinalFrom
  <2>2. CASE ~Grouped(p)
    BY <1>1, <2>2, OlderOrders DEF FinalBump, FinalFrom
  <2>3. QED
    BY <2>1, <2>2
<1>3. 1 .. 3 \subseteq Bumps /\ 0 \notin 1 .. 3
  BY DEF Bumps, None, Major
<1>4. Final(v, p) \in Versions /\ Older(FinalFrom(v, p), Final(v, p))
  BY <1>2, <1>3, RaiseParts DEF Final, None
<1>5. ~Older(Final(v, p), Raise(v[p], Own(v, p)))
  BY <1>1, <1>2, RaiseGrows DEF Final
<1>6. Raise(v[p], Own(v, p)) \in Versions /\ Older(v[p], Raise(v[p], Own(v, p)))
  BY <1>1, <1>3, RaiseParts DEF None
<1>7. Older(v[p], Final(v, p))
  <2>1. ASSUME ~Older(v[p], Final(v, p)) PROVE FALSE
    BY <1>1, <1>5, <1>6, <1>4, <2>1, OlderOrders
  <2>2. QED
    BY <2>1
<1>8. QED
  BY <1>1, <1>2, <1>4, <1>5, <1>6, <1>7, OlderOrders
-----------------------------------------------------------------------------
\* The states the passes go through.

Mods == [current : Versions, asked : Bumps, cascade : {None, Patch},
         group : {Unset, Patch, Minor, Major}]
Rels == UNION {[S -> Mods] : S \in SUBSET Packages}

\* A module that is where it starts, or where its group takes it.
Fits(m, p) ==
    /\ m \in Mods /\ m.asked = Asked(p)
    /\ IF m.group = Unset THEN m.current = vers[p]
       ELSE Grouped(p) /\ m.group = FinalBump(vers, p) /\ m.current = FinalFrom(vers, p)

\* No range is ahead of the version it is for.
Lags(v, a) == \A e \in Edges : ws.ops[e] # "none" => ~Older(v[e.to], a[e])

\* Every release from the tree has these packages.
Bound(r) == Lags(vers, ats) => \A T \in SUBSET Packages :
                Answers(vers, ats, T) => Releasing(r, Packages) \subseteq T
Must(p) == Lags(vers, ats) => \A T \in SUBSET Packages : Answers(vers, ats, T) => p \in T

\* A plan with its order, and a plan whose modules are where they belong.
Listed(r, o) ==
    /\ o \in Seq(Packages) /\ DOMAIN r = ToSet(o)
    /\ \A j, k \in DOMAIN o : o[j] = o[k] => j = k
GoodRel(r) ==
    /\ r \in Rels
    /\ \A p \in DOMAIN r : Fits(r[p], p)
    /\ {p \in Packages : Asked(p) # None} \subseteq DOMAIN r
    /\ Bound(r)
State(r, o, c) == [rel |-> r, order |-> o, changed |-> c]
PlanStates == {st \in [rel : Rels, order : Seq(Packages), changed : BOOLEAN] :
                 Listed(st.rel, st.order) /\ GoodRel(st.rel)}
Context == Sources /\ vers \in Trees /\ ats \in Ranges

\* What a plan in the making is.
LEMMA RelParts ==
    ASSUME NEW r \in Rels
    PROVE  DOMAIN r \subseteq Packages /\ r \in [DOMAIN r -> Mods]
BY DEF Rels

\* What the state of a pass is.
LEMMA StateParts ==
    ASSUME NEW st \in PlanStates
    PROVE  /\ st = State(st.rel, st.order, st.changed)
           /\ st.rel \in Rels /\ st.order \in Seq(Packages) /\ st.changed \in BOOLEAN
           /\ Listed(st.rel, st.order) /\ GoodRel(st.rel)
           /\ DOMAIN st.rel \subseteq Packages
BY RelParts DEF PlanStates, State

\* The bump and the version of a module of the plan, and when it is released.
LEMMA ModParts ==
    ASSUME Context, NEW p \in Packages, NEW m, Fits(m, p)
    PROVE  /\ HighestBump(m) \in Bumps /\ NewVersion(m) \in Versions
           /\ m.group # Unset => HighestBump(m) = FinalBump(vers, p)
                                 /\ NewVersion(m) = Final(vers, p)
           /\ m.group = Unset /\ HighestBump(m) # None =>
                 HighestBump(m) = Own(vers, p) /\ NewVersion(m) = Raise(vers[p], Own(vers, p))
           /\ HighestBump(m) # None =>
                 ~Older(NewVersion(m), vers[p]) /\ ~Older(Final(vers, p), NewVersion(m))
           /\ HighestBump(m) = None => NewVersion(m) = vers[p]
           /\ HighestBump(m) # None <=>
                 (m.group # Unset \/ m.cascade # None \/ Asked(p) # None)
<1>0. /\ m.current \in Versions /\ m.asked \in Bumps /\ m.cascade \in {None, Patch}
      /\ m.group \in {Unset, Patch, Minor, Major} /\ m.asked = Asked(p)
      /\ vers[p] \in Versions /\ Sources
  BY DEF Fits, Mods, Context, Trees
<1>1. Bumps = {0, 1, 2, 3} /\ None = 0 /\ Patch = 1 /\ Minor = 2 /\ Major = 3 /\ Unset = -1
  BY DEF Bumps, None, Patch, Minor, Major, Unset
<1>2. /\ FinalBump(vers, p) \in 1 .. 3 /\ FinalFrom(vers, p) \in Versions
      /\ Final(vers, p) \in Versions
      /\ ~Older(Final(vers, p), Raise(vers[p], Own(vers, p)))
      /\ Older(vers[p], Final(vers, p))
      /\ Raise(vers[p], Own(vers, p)) \in Versions
      /\ ~Older(Raise(vers[p], Own(vers, p)), vers[p])
      /\ Own(vers, p) \in 1 .. 3
  BY <1>0, FinalParts, OwnParts DEF Context
<1>3. CASE m.group # Unset
  <2>1. HighestBump(m) = FinalBump(vers, p)
    BY <1>3 DEF HighestBump, Fits
  <2>2. NewVersion(m) = Final(vers, p)
    BY <1>3, <2>1 DEF NewVersion, Final, Fits
  <2>3. QED
    BY <1>0, <1>1, <1>2, <1>3, <2>1, <2>2, OlderOrders
<1>4. CASE m.group = Unset
  <2> DEFINE h == Highest({m.cascade, m.asked})
  <2>1. m.current = vers[p]
    BY <1>4 DEF Fits
  <2>2. h \in {m.cascade, m.asked} /\ m.cascade <= h /\ m.asked <= h
    <3>1. {m.cascade, m.asked} \in SUBSET Bumps
      BY <1>0, <1>1
    <3>2. QED
      BY <3>1, HighestParts
  <2>3. HighestBump(m) = IF h = Major /\ ws.preMajor /\ vers[p][1] = 0 THEN Minor ELSE h
    BY <1>4, <2>1 DEF HighestBump
  <2> HIDE DEF h
  <2>4. CASE Asked(p) = None /\ m.cascade = None
    <3>1. HighestBump(m) = None
      BY <1>0, <1>1, <2>2, <2>3, <2>4
    <3>2. NewVersion(m) = vers[p]
      BY <1>0, <2>1, <3>1, <1>1, RaiseParts DEF NewVersion
    <3>3. QED
      BY <1>0, <1>1, <1>4, <2>4, <3>1, <3>2
  <2>5. CASE ~(Asked(p) = None /\ m.cascade = None)
    <3>1. HighestBump(m) = Own(vers, p)
      BY <1>0, <1>1, <2>2, <2>3, <2>5 DEF Own
    <3>2. NewVersion(m) = Raise(vers[p], Own(vers, p))
      BY <2>1, <3>1 DEF NewVersion
    <3>3. QED
      BY <1>0, <1>1, <1>2, <1>4, <2>5, <3>1, <3>2
  <2>6. QED
    BY <2>4, <2>5
<1>5. QED
  BY <1>3, <1>4

\* The releasing packages of a plan are those that are grouped, cascaded to or asked for.
LEMMA ReleasingParts ==
    ASSUME Context, NEW r, GoodRel(r)
    PROVE  /\ Releasing(r, Packages) \subseteq DOMAIN r /\ DOMAIN r \subseteq Packages
           /\ \A names : Releasing(r, names) = Releasing(r, Packages) \cap names
           /\ \A p : p \in Releasing(r, Packages) <=>
                 /\ p \in DOMAIN r
                 /\ r[p].group # Unset \/ r[p].cascade # None \/ Asked(p) # None
           /\ \A p \in Packages : Asked(p) # None => p \in Releasing(r, Packages)
<1>1. DOMAIN r \subseteq Packages /\ \A p \in DOMAIN r : Fits(r[p], p)
  BY RelParts DEF GoodRel
<1>2. \A p \in DOMAIN r : HighestBump(r[p]) # None <=>
          (r[p].group # Unset \/ r[p].cascade # None \/ Asked(p) # None)
  BY <1>1, ModParts
<1>3. QED
  BY <1>1, <1>2 DEF Releasing, GoodRel

\* Updates of a state.
LEMMA MarkParts ==
    ASSUME NEW st \in PlanStates
    PROVE  /\ [st EXCEPT !.changed = TRUE] \in PlanStates
           /\ [st EXCEPT !.changed = TRUE].rel = st.rel
           /\ [st EXCEPT !.changed = TRUE].order = st.order
           /\ [st EXCEPT !.changed = TRUE].changed = TRUE
<1> DEFINE u == [st EXCEPT !.changed = TRUE]
<1>1. st \in [rel : Rels, order : Seq(Packages), changed : BOOLEAN]
  BY DEF PlanStates
<1>2. /\ u \in [rel : Rels, order : Seq(Packages), changed : BOOLEAN]
      /\ u.rel = st.rel /\ u.order = st.order /\ u.changed = TRUE
  BY <1>1
<1> HIDE DEF u
<1>3. u \in PlanStates
  BY <1>2 DEF PlanStates
<1>4. QED
  BY <1>2, <1>3 DEF u

Change(st, x) == [st EXCEPT !.rel = x, !.changed = TRUE]
\* A pass that changes the plan goes from state to state.
LEMMA ChangeParts ==
    ASSUME NEW st \in PlanStates, NEW x, GoodRel(x), Listed(x, st.order)
    PROVE  /\ Change(st, x) \in PlanStates /\ Change(st, x).rel = x
           /\ Change(st, x).order = st.order /\ Change(st, x).changed = TRUE
<1> DEFINE u == Change(st, x)
<1>1. st \in [rel : Rels, order : Seq(Packages), changed : BOOLEAN] /\ x \in Rels
  BY DEF PlanStates, GoodRel
<1>2. /\ u \in [rel : Rels, order : Seq(Packages), changed : BOOLEAN]
      /\ u.rel = x /\ u.order = st.order /\ u.changed = TRUE
  BY <1>1 DEF Change
<1> HIDE DEF u
<1>3. u \in PlanStates
  BY <1>2 DEF PlanStates
<1>4. QED
  BY <1>2, <1>3 DEF u

Join(st, x, o) == [st EXCEPT !.rel = x, !.order = o]
\* So does one that adds to it.
LEMMA JoinParts ==
    ASSUME NEW st \in PlanStates, NEW x, NEW o, GoodRel(x), Listed(x, o)
    PROVE  /\ Join(st, x, o) \in PlanStates
           /\ Join(st, x, o).rel = x /\ Join(st, x, o).order = o
           /\ Join(st, x, o).changed = st.changed
<1> DEFINE u == Join(st, x, o)
<1>1. /\ st \in [rel : Rels, order : Seq(Packages), changed : BOOLEAN] /\ x \in Rels
      /\ o \in Seq(Packages)
  BY DEF PlanStates, GoodRel, Listed
<1>2. /\ u \in [rel : Rels, order : Seq(Packages), changed : BOOLEAN]
      /\ u.rel = x /\ u.order = o /\ u.changed = st.changed
  BY <1>1 DEF Join
<1> HIDE DEF u
<1>3. u \in PlanStates
  BY <1>2 DEF PlanStates
<1>4. QED
  BY <1>2, <1>3 DEF u

\* A package joins: it is new there, and not released yet.
LEMMA EnterParts ==
    ASSUME Context, NEW st \in PlanStates, NEW p \in Packages, p \notin DOMAIN st.rel
    PROVE  /\ Enter(st, p).rel = [q \in DOMAIN st.rel \cup {p} |->
                                    IF q = p THEN New(p) ELSE st.rel[q]]
           /\ Enter(st, p).changed = st.changed
           /\ Enter(st, p) \in PlanStates
           /\ [Enter(st, p) EXCEPT !.changed = TRUE] \in PlanStates
           /\ [Enter(st, p) EXCEPT !.changed = TRUE].rel = Enter(st, p).rel
           /\ [Enter(st, p) EXCEPT !.changed = TRUE].changed = TRUE
<1> DEFINE r == [q \in DOMAIN st.rel \cup {p} |-> IF q = p THEN New(p) ELSE st.rel[q]]
           o == Append(st.order, p)
<1>0. /\ Listed(st.rel, st.order) /\ GoodRel(st.rel) /\ st.rel \in [DOMAIN st.rel -> Mods]
      /\ DOMAIN st.rel \subseteq Packages /\ st.order \in Seq(Packages)
  BY StateParts, RelParts
<1>1. Enter(st, p) = [st EXCEPT !.rel = r, !.order = o]
  BY DEF Enter
<1>2. Asked(p) = None
  BY <1>0 DEF GoodRel
<1>3. New(p) \in Mods /\ Fits(New(p), p)
  <2>1. New(p) = [current |-> vers[p], asked |-> None, cascade |-> None, group |-> Unset]
    BY DEF New
  <2>2. vers[p] \in Versions /\ None \in Bumps
    BY DEF Context, Trees, Bumps, None, Major
  <2>3. New(p) \in Mods
    BY <2>1, <2>2 DEF Mods
  <2>4. QED
    BY <2>1, <2>3, <1>2 DEF Fits
<1>4. /\ DOMAIN r = DOMAIN st.rel \cup {p} /\ r[p] = New(p)
      /\ \A q \in DOMAIN st.rel : r[q] = st.rel[q]
  OBVIOUS
<1>5. r \in Rels
  <2>1. r \in [DOMAIN st.rel \cup {p} -> Mods] /\ DOMAIN st.rel \cup {p} \in SUBSET Packages
    BY <1>0, <1>3
  <2>2. QED
    BY <2>1 DEF Rels
<1> HIDE DEF r
<1>6. Releasing(r, Packages) = Releasing(st.rel, Packages)
  <2>1. HighestBump(New(p)) = None
    <3>1. New(p).group = Unset /\ New(p).cascade = None
      BY DEF New
    <3>2. QED
      BY <3>1, <1>2, <1>3, ModParts
  <2>2. QED
    BY <1>0, <1>4, <2>1 DEF Releasing
<1>7. GoodRel(r)
  BY <1>0, <1>3, <1>4, <1>5, <1>6 DEF GoodRel, Bound
<1>8. Listed(r, o)
  <2>1. /\ o \in Seq(Packages) /\ DOMAIN o = 1 .. (Len(st.order) + 1)
        /\ DOMAIN st.order = 1 .. Len(st.order) /\ Len(st.order) \in Nat
        /\ o[Len(st.order) + 1] = p /\ \A j \in 1 .. Len(st.order) : o[j] = st.order[j]
    BY <1>0
  <2> HIDE DEF o
  <2>2. ToSet(st.order) = DOMAIN st.rel /\ \A j, k \in DOMAIN st.order :
                                               st.order[j] = st.order[k] => j = k
    BY <1>0 DEF Listed
  <2>3. ToSet(o) = ToSet(st.order) \cup {p}
    BY <2>1 DEF ToSet
  <2>4. \A j \in 1 .. Len(st.order) : o[j] # p
    BY <2>1, <2>2 DEF ToSet
  <2>5. \A j, k \in DOMAIN o : o[j] = o[k] => j = k
    BY <2>1, <2>2, <2>4
  <2>6. QED
    BY <1>4, <2>1, <2>2, <2>3, <2>5 DEF Listed
<1> HIDE DEF o
<1> DEFINE u == Enter(st, p)
<1> HIDE DEF u
<1>9. u = Join(st, r, o)
  BY <1>1 DEF u, Join
<1>10. u \in PlanStates /\ u.rel = r /\ u.changed = st.changed
  BY <1>7, <1>8, <1>9, JoinParts
<1>11. /\ [u EXCEPT !.changed = TRUE] \in PlanStates
       /\ [u EXCEPT !.changed = TRUE].rel = u.rel
       /\ [u EXCEPT !.changed = TRUE].changed = TRUE
  BY <1>10, MarkParts
<1>12. QED
  BY <1>10, <1>11 DEF r, u

\* A module moves on to another that fits.
LEMMA SetParts ==
    ASSUME Context, NEW r, NEW o, Listed(r, o), GoodRel(r), NEW p \in DOMAIN r,
           NEW m, Fits(m, p), Must(p)
    PROVE  /\ GoodRel([r EXCEPT ![p] = m]) /\ Listed([r EXCEPT ![p] = m], o)
<1> DEFINE s == [r EXCEPT ![p] = m]
<1>1. r \in [DOMAIN r -> Mods] /\ DOMAIN r \subseteq Packages
  BY RelParts DEF GoodRel
<1>2. m \in Mods
  BY DEF Fits
<1>3. /\ s \in [DOMAIN r -> Mods] /\ DOMAIN s = DOMAIN r /\ s[p] = m
      /\ \A q \in DOMAIN r : q # p => s[q] = r[q]
  BY <1>1, <1>2
<1> HIDE DEF s
<1>4. s \in Rels
  BY <1>1, <1>3 DEF Rels
<1>5. \A q \in DOMAIN s : Fits(s[q], q)
  BY <1>3 DEF GoodRel
<1>6. Releasing(s, Packages) \subseteq Releasing(r, Packages) \cup {p}
  BY <1>3 DEF Releasing
<1>7. Bound(s)
  BY <1>6 DEF Bound, GoodRel, Must
<1>8. GoodRel(s) /\ Listed(s, o)
  BY <1>3, <1>4, <1>5, <1>7 DEF GoodRel, Listed
<1>9. QED
  BY <1>8 DEF s

\* What an edge is.
LEMMA EdgeParts ==
    ASSUME NEW e \in Edges
    PROVE  /\ e.from \in Packages /\ e.to \in Packages /\ e.from # e.to
           /\ e.kind \in {"normal", "dev"}
BY EdgeAssumption DEF EdgeAssumption

\* What Pull does to a state of the passes.
LEMMA PullParts ==
    ASSUME Context, NEW st \in PlanStates, NEW e \in Edges, NEW v,
           (e.kind = "normal" /\ ~InRange(ws.ops[e], ats[e], v)) => Must(e.from)
    PROVE  /\ Pull(st, e, v) \in PlanStates
           /\ DOMAIN st.rel \subseteq DOMAIN Pull(st, e, v).rel
           /\ Pull(st, e, v).changed = FALSE => Pull(st, e, v) = st
           /\ (Pull(st, e, v).changed = FALSE /\ ~InRange(ws.ops[e], ats[e], v)) =>
                 /\ e.from \in DOMAIN st.rel
                 /\ e.kind = "normal" => st.rel[e.from].cascade = Patch
<1> DEFINE s == IF e.from \in DOMAIN st.rel THEN st
                ELSE [Enter(st, e.from) EXCEPT !.changed = TRUE]
           p == e.from
           m == [s.rel[p] EXCEPT !.cascade = Patch]
           t == [s EXCEPT !.rel[p].cascade = Patch, !.changed = TRUE]
<1>0. e.kind \in {"normal", "dev"} /\ p \in Packages
  BY EdgeParts
<1>1. /\ s \in PlanStates /\ p \in DOMAIN s.rel /\ (s.changed = FALSE => s = st)
      /\ s = st => p \in DOMAIN st.rel
      /\ DOMAIN st.rel \subseteq DOMAIN s.rel
  <2>1. CASE p \in DOMAIN st.rel
    BY <2>1
  <2>2. CASE p \notin DOMAIN st.rel
    <3> DEFINE u == [Enter(st, p) EXCEPT !.changed = TRUE]
    <3>1. /\ u \in PlanStates /\ u.changed = TRUE /\ u.rel = Enter(st, p).rel
          /\ Enter(st, p).rel = [q \in DOMAIN st.rel \cup {p} |->
                                    IF q = p THEN New(p) ELSE st.rel[q]]
      BY <1>0, <2>2, EnterParts
    <3>2. s = u
      BY <2>2
    <3> HIDE DEF u, s
    <3>3. p \in DOMAIN u.rel /\ u.rel # st.rel /\ DOMAIN st.rel \subseteq DOMAIN u.rel
      BY <2>2, <3>1
    <3>4. QED
      BY <3>1, <3>2, <3>3
  <2>3. QED
    BY <2>1, <2>2
<1>2. Pull(st, e, v) = IF InRange(ws.ops[e], ats[e], v) THEN st
                       ELSE IF e.kind = "dev" \/ s.rel[p].cascade >= Patch THEN s ELSE t
  BY DEF Pull
<1> HIDE DEF s
<1>3. /\ Listed(s.rel, s.order) /\ GoodRel(s.rel) /\ s.rel \in [DOMAIN s.rel -> Mods]
  BY <1>1, StateParts, RelParts
<1>4. s.rel[p] \in Mods /\ Fits(s.rel[p], p)
  BY <1>1, <1>3 DEF GoodRel
<1>5. Fits(m, p)
  <2>1. m \in Mods /\ m.group = s.rel[p].group /\ m.current = s.rel[p].current
        /\ m.asked = s.rel[p].asked
    BY <1>4 DEF Mods
  <2>2. QED
    BY <1>4, <2>1 DEF Fits
<1> DEFINE x == [s.rel EXCEPT ![p] = m]
<1>6. t = Change(s, x)
  <2> HIDE DEF p
  <2>1. QED
    BY DEF Change
<1>7. ASSUME Must(p)
      PROVE  t \in PlanStates /\ t.changed = TRUE /\ DOMAIN t.rel = DOMAIN s.rel
  <2>1. GoodRel(x) /\ Listed(x, s.order)
    BY <1>1, <1>3, <1>5, <1>7, SetParts
  <2>2. DOMAIN x = DOMAIN s.rel
    BY <1>3
  <2> HIDE DEF t, x
  <2>3. QED
    BY <1>1, <1>6, <2>1, <2>2, ChangeParts
<1> HIDE DEF t, m
<1>8. s.rel[p].cascade >= Patch => s.rel[p].cascade = Patch
  BY <1>4 DEF Mods, None, Patch
<1>9. CASE InRange(ws.ops[e], ats[e], v)
  BY <1>2, <1>9
<1>10. CASE ~InRange(ws.ops[e], ats[e], v) /\ (e.kind = "dev" \/ s.rel[p].cascade >= Patch)
  <2>1. Pull(st, e, v) = s
    BY <1>2, <1>10
  <2>2. s = st => p \in DOMAIN st.rel /\ (e.kind = "normal" => st.rel[p].cascade = Patch)
    BY <1>1, <1>8, <1>10
  <2> HIDE DEF p
  <2>3. QED
    BY <1>1, <2>1, <2>2 DEF p
<1>11. CASE ~InRange(ws.ops[e], ats[e], v) /\ ~(e.kind = "dev" \/ s.rel[p].cascade >= Patch)
  <2>1. Pull(st, e, v) = t
    BY <1>2, <1>11
  <2>2. t \in PlanStates /\ t.changed = TRUE /\ DOMAIN t.rel = DOMAIN s.rel
    BY <1>0, <1>7, <1>11
  <2>3. QED
    BY <1>1, <2>1, <2>2
<1>12. QED
  BY <1>9, <1>10, <1>11
-----------------------------------------------------------------------------
\* The folds of the planner, as chains of states: the one before the first
\* element, and the one after each.

\* The dependencies are a sequence.
LEMMA EdgeSeqParts ==
    /\ Len(EdgeSeq) \in Nat /\ DOMAIN EdgeSeq = 1 .. Len(EdgeSeq)
    /\ \A k \in 1 .. Len(EdgeSeq) : EdgeSeq[k] \in Edges
    /\ \A e \in Edges : \E k \in 1 .. Len(EdgeSeq) : e = EdgeSeq[k]
<1>1. EdgeSeq \in Seq(Edges)
  BY EdgeAssumption DEF EdgeAssumption
<1>2. QED
  BY <1>1 DEF Edges, ToSet

\* What Visit does for each dependency.
EdgeStep(s, e, p, v) == IF e.to = p THEN Pull(s, e, v) ELSE s
EdgeFold(st, p, v) == LET Step(s, e) == IF e.to = p THEN Pull(s, e, v) ELSE s
                      IN  FoldLeft(Step, st, EdgeSeq)

\* What CoordinateGroup does for each member.
MemberFold(st, g, v, bump) == LET Step(s, p) == Pulled(s, g, p, v, bump)
                              IN  FoldLeft(Step, st, g.names)

\* The dependents of one package, in the edges' order.
EdgeChainKeeps(St, p, v) == \A st \in St, el \in Edges : EdgeStep(st, el, p, v) \in St
IsEdgeChain(f, St, B, p, v) ==
    /\ f \in [0 .. Len(EdgeSeq) -> St] /\ f[0] = B /\ f[Len(EdgeSeq)] = EdgeFold(B, p, v)
    /\ \A k \in 1 .. Len(EdgeSeq) : f[k] = EdgeStep(f[k - 1], EdgeSeq[k], p, v)
\* The chain of the fold over the edges exists.
LEMMA EdgeChain ==
    ASSUME NEW St, NEW B \in St, NEW p, NEW v,
           EdgeChainKeeps(St, p, v)
    PROVE  \E f : IsEdgeChain(f, St, B, p, v)
<1> DEFINE n == Len(EdgeSeq)
           D == SUBSET (1 .. n)
           F == [x \in St \X Edges |-> EdgeStep(x[1], x[2], p, v)]
           Is(h) == h = [s \in D |-> IF s = {} THEN B
                                        ELSE EdgeStep(h[s \ {Max(s)}], EdgeSeq[Max(s)], p, v)]
           c == CHOOSE h : Is(h)
<1>1. n \in Nat /\ DOMAIN EdgeSeq = 1 .. n /\ \A k \in 1 .. n : EdgeSeq[k] \in Edges
  BY EdgeSeqParts
<1>2. EdgeFold(B, p, v) = c[1 .. n]
  BY <1>1 DEF EdgeFold, EdgeStep, FoldLeft, MapThenFoldSet
<1> HIDE DEF n
<1>3. \A s \in D : s # {} => Max(s) \in 1 .. n
  BY <1>1, MaxParts
<1>4. \A st \in St, k \in 1 .. n : F[<<st, EdgeSeq[k]>>] = EdgeStep(st, EdgeSeq[k], p, v)
  BY <1>1
<1>5. Keeps(F, EdgeSeq, n, St)
  BY <1>1, <1>4 DEF Keeps, EdgeChainKeeps
<1> HIDE DEF F
<1>6. PICK h : IsFold(h, F, B, EdgeSeq, n)
  BY <1>1, FoldExists
<1>7. Is(h)
  <2>1. ASSUME NEW s \in D, s # {}
        PROVE  F[<<h[s \ {Max(s)}], EdgeSeq[Max(s)]>>] = EdgeStep(h[s \ {Max(s)}], EdgeSeq[Max(s)], p, v)
    <3>1. h[s \ {Max(s)}] \in St /\ Max(s) \in 1 .. n
      BY <1>1, <1>3, <1>5, <1>6, <2>1, FoldTyped
    <3>2. QED
      BY <1>4, <3>1
  <2>2. h = [s \in D |-> IF s = {} THEN B ELSE F[<<h[s \ {Max(s)}], EdgeSeq[Max(s)]>>]]
    BY <1>6 DEF IsFold
  <2>3. QED
    BY <2>1, <2>2
<1>8. Is(c)
  <2> HIDE DEF Is
  <2>1. QED
    BY <1>7
<1>9. Unfolds(c, F, B, EdgeSeq, n, St)
  <2>1. c[{}] = B /\ \A s \in D : s # {} => c[s] = EdgeStep(c[s \ {Max(s)}], EdgeSeq[Max(s)], p, v)
    <3> HIDE DEF c
    <3>1. QED
      BY <1>8
  <2> HIDE DEF c, Is
  <2>2. ASSUME NEW s \in D, s # {} /\ c[s \ {Max(s)}] \in St
        PROVE  c[s] = F[<<c[s \ {Max(s)}], EdgeSeq[Max(s)]>>]
    BY <1>3, <1>4, <2>1, <2>2
  <2>3. QED
    BY <2>1, <2>2 DEF Unfolds
<1> HIDE DEF c
<1>10. PICK f : IsChain(f, F, B, c, EdgeSeq, n, St)
  BY <1>1, <1>5, <1>9, FoldValue
<1>11. /\ f \in [0 .. n -> St] /\ f[0] = B /\ f[n] = c[1 .. n]
       /\ \A k \in 1 .. n : f[k] = F[<<f[k - 1], EdgeSeq[k]>>]
  BY <1>10 DEF IsChain
<1>12. \A k \in 1 .. n : f[k] = EdgeStep(f[k - 1], EdgeSeq[k], p, v)
  <2>1. \A k \in 1 .. n : k - 1 \in 0 .. n /\ f[k - 1] \in St
    BY <1>1, <1>11
  <2>2. QED
    BY <1>4, <1>11, <2>1
<1>13. IsEdgeChain(f, St, B, p, v)
  BY <1>2, <1>11, <1>12 DEF IsEdgeChain, n
<1>14. QED
  BY <1>13

\* One cascade: every module in the order.
CascadeChainKeeps(St, S, q) == \A st \in St, el \in S : Visit(st, el) \in St
IsCascadeChain(f, St, B, S, q) ==
    /\ f \in [0 .. Len(q) -> St] /\ f[0] = B /\ f[Len(q)] = FoldLeft(Visit, B, q)
    /\ \A k \in 1 .. Len(q) : f[k] = Visit(f[k - 1], q[k])
\* The chain of the fold of the cascade exists.
LEMMA CascadeChain ==
    ASSUME NEW St, NEW B \in St, NEW S, NEW q,
           q \in Seq(S),
           CascadeChainKeeps(St, S, q)
    PROVE  \E f : IsCascadeChain(f, St, B, S, q)
<1> DEFINE n == Len(q)
           D == SUBSET (1 .. n)
           F == [x \in St \X S |-> Visit(x[1], x[2])]
           Is(h) == h = [s \in D |-> IF s = {} THEN B
                                        ELSE Visit(h[s \ {Max(s)}], q[Max(s)])]
           c == CHOOSE h : Is(h)
<1>1. n \in Nat /\ DOMAIN q = 1 .. n /\ \A k \in 1 .. n : q[k] \in S
  OBVIOUS
<1>2. FoldLeft(Visit, B, q) = c[1 .. n]
  BY <1>1 DEF FoldLeft, MapThenFoldSet
<1> HIDE DEF n
<1>3. \A s \in D : s # {} => Max(s) \in 1 .. n
  BY <1>1, MaxParts
<1>4. \A st \in St, k \in 1 .. n : F[<<st, q[k]>>] = Visit(st, q[k])
  BY <1>1
<1>5. Keeps(F, q, n, St)
  BY <1>1, <1>4 DEF Keeps, CascadeChainKeeps
<1> HIDE DEF F
<1>6. PICK h : IsFold(h, F, B, q, n)
  BY <1>1, FoldExists
<1>7. Is(h)
  <2>1. ASSUME NEW s \in D, s # {}
        PROVE  F[<<h[s \ {Max(s)}], q[Max(s)]>>] = Visit(h[s \ {Max(s)}], q[Max(s)])
    <3>1. h[s \ {Max(s)}] \in St /\ Max(s) \in 1 .. n
      BY <1>1, <1>3, <1>5, <1>6, <2>1, FoldTyped
    <3>2. QED
      BY <1>4, <3>1
  <2>2. h = [s \in D |-> IF s = {} THEN B ELSE F[<<h[s \ {Max(s)}], q[Max(s)]>>]]
    BY <1>6 DEF IsFold
  <2>3. QED
    BY <2>1, <2>2
<1>8. Is(c)
  <2> HIDE DEF Is
  <2>1. QED
    BY <1>7
<1>9. Unfolds(c, F, B, q, n, St)
  <2>1. c[{}] = B /\ \A s \in D : s # {} => c[s] = Visit(c[s \ {Max(s)}], q[Max(s)])
    <3> HIDE DEF c
    <3>1. QED
      BY <1>8
  <2> HIDE DEF c, Is
  <2>2. ASSUME NEW s \in D, s # {} /\ c[s \ {Max(s)}] \in St
        PROVE  c[s] = F[<<c[s \ {Max(s)}], q[Max(s)]>>]
    BY <1>3, <1>4, <2>1, <2>2
  <2>3. QED
    BY <2>1, <2>2 DEF Unfolds
<1> HIDE DEF c
<1>10. PICK f : IsChain(f, F, B, c, q, n, St)
  BY <1>1, <1>5, <1>9, FoldValue
<1>11. /\ f \in [0 .. n -> St] /\ f[0] = B /\ f[n] = c[1 .. n]
       /\ \A k \in 1 .. n : f[k] = F[<<f[k - 1], q[k]>>]
  BY <1>10 DEF IsChain
<1>12. \A k \in 1 .. n : f[k] = Visit(f[k - 1], q[k])
  <2>1. \A k \in 1 .. n : k - 1 \in 0 .. n /\ f[k - 1] \in St
    BY <1>1, <1>11
  <2>2. QED
    BY <1>4, <1>11, <2>1
<1>13. IsCascadeChain(f, St, B, S, q)
  BY <1>2, <1>11, <1>12 DEF IsCascadeChain, n
<1>14. QED
  BY <1>13

\* The members of one group.
MemberChainKeeps(St, S, g, v, bump) == \A st \in St, el \in S : Pulled(st, g, el, v, bump) \in St
IsMemberChain(f, St, B, S, g, v, bump) ==
    /\ f \in [0 .. Len(g.names) -> St] /\ f[0] = B /\ f[Len(g.names)] = MemberFold(B, g, v, bump)
    /\ \A k \in 1 .. Len(g.names) : f[k] = Pulled(f[k - 1], g, g.names[k], v, bump)
\* The chain of the fold over the members of a group exists.
LEMMA MemberChain ==
    ASSUME NEW St, NEW B \in St, NEW S, NEW g, NEW v, NEW bump,
           g.names \in Seq(S),
           MemberChainKeeps(St, S, g, v, bump)
    PROVE  \E f : IsMemberChain(f, St, B, S, g, v, bump)
<1> DEFINE n == Len(g.names)
           D == SUBSET (1 .. n)
           F == [x \in St \X S |-> Pulled(x[1], g, x[2], v, bump)]
           Is(h) == h = [s \in D |-> IF s = {} THEN B
                                        ELSE Pulled(h[s \ {Max(s)}], g, g.names[Max(s)], v, bump)]
           c == CHOOSE h : Is(h)
<1>1. n \in Nat /\ DOMAIN g.names = 1 .. n /\ \A k \in 1 .. n : g.names[k] \in S
  OBVIOUS
<1>2. MemberFold(B, g, v, bump) = c[1 .. n]
  BY <1>1 DEF MemberFold, FoldLeft, MapThenFoldSet
<1> HIDE DEF n
<1>3. \A s \in D : s # {} => Max(s) \in 1 .. n
  BY <1>1, MaxParts
<1>4. \A st \in St, k \in 1 .. n : F[<<st, g.names[k]>>] = Pulled(st, g, g.names[k], v, bump)
  BY <1>1
<1>5. Keeps(F, g.names, n, St)
  BY <1>1, <1>4 DEF Keeps, MemberChainKeeps
<1> HIDE DEF F
<1>6. PICK h : IsFold(h, F, B, g.names, n)
  BY <1>1, FoldExists
<1>7. Is(h)
  <2>1. ASSUME NEW s \in D, s # {}
        PROVE  F[<<h[s \ {Max(s)}], g.names[Max(s)]>>] = Pulled(h[s \ {Max(s)}], g, g.names[Max(s)], v, bump)
    <3>1. h[s \ {Max(s)}] \in St /\ Max(s) \in 1 .. n
      BY <1>1, <1>3, <1>5, <1>6, <2>1, FoldTyped
    <3>2. QED
      BY <1>4, <3>1
  <2>2. h = [s \in D |-> IF s = {} THEN B ELSE F[<<h[s \ {Max(s)}], g.names[Max(s)]>>]]
    BY <1>6 DEF IsFold
  <2>3. QED
    BY <2>1, <2>2
<1>8. Is(c)
  <2> HIDE DEF Is
  <2>1. QED
    BY <1>7
<1>9. Unfolds(c, F, B, g.names, n, St)
  <2>1. c[{}] = B /\ \A s \in D : s # {} => c[s] = Pulled(c[s \ {Max(s)}], g, g.names[Max(s)], v, bump)
    <3> HIDE DEF c
    <3>1. QED
      BY <1>8
  <2> HIDE DEF c, Is
  <2>2. ASSUME NEW s \in D, s # {} /\ c[s \ {Max(s)}] \in St
        PROVE  c[s] = F[<<c[s \ {Max(s)}], g.names[Max(s)]>>]
    BY <1>3, <1>4, <2>1, <2>2
  <2>3. QED
    BY <2>1, <2>2 DEF Unfolds
<1> HIDE DEF c
<1>10. PICK f : IsChain(f, F, B, c, g.names, n, St)
  BY <1>1, <1>5, <1>9, FoldValue
<1>11. /\ f \in [0 .. n -> St] /\ f[0] = B /\ f[n] = c[1 .. n]
       /\ \A k \in 1 .. n : f[k] = F[<<f[k - 1], g.names[k]>>]
  BY <1>10 DEF IsChain
<1>12. \A k \in 1 .. n : f[k] = Pulled(f[k - 1], g, g.names[k], v, bump)
  <2>1. \A k \in 1 .. n : k - 1 \in 0 .. n /\ f[k - 1] \in St
    BY <1>1, <1>11
  <2>2. QED
    BY <1>4, <1>11, <2>1
<1>13. IsMemberChain(f, St, B, S, g, v, bump)
  BY <1>2, <1>11, <1>12 DEF IsMemberChain, n
<1>14. QED
  BY <1>13

\* All the groups.
GroupsChainKeeps(St, S, q) == \A st \in St, el \in S : CoordinateGroup(st, el) \in St
IsGroupsChain(f, St, B, S, q) ==
    /\ f \in [0 .. Len(q) -> St] /\ f[0] = B /\ f[Len(q)] = FoldLeft(CoordinateGroup, B, q)
    /\ \A k \in 1 .. Len(q) : f[k] = CoordinateGroup(f[k - 1], q[k])
\* The chain of the fold over the groups exists.
LEMMA GroupsChain ==
    ASSUME NEW St, NEW B \in St, NEW S, NEW q,
           q \in Seq(S),
           GroupsChainKeeps(St, S, q)
    PROVE  \E f : IsGroupsChain(f, St, B, S, q)
<1> DEFINE n == Len(q)
           D == SUBSET (1 .. n)
           F == [x \in St \X S |-> CoordinateGroup(x[1], x[2])]
           Is(h) == h = [s \in D |-> IF s = {} THEN B
                                        ELSE CoordinateGroup(h[s \ {Max(s)}], q[Max(s)])]
           c == CHOOSE h : Is(h)
<1>1. n \in Nat /\ DOMAIN q = 1 .. n /\ \A k \in 1 .. n : q[k] \in S
  OBVIOUS
<1>2. FoldLeft(CoordinateGroup, B, q) = c[1 .. n]
  BY <1>1 DEF FoldLeft, MapThenFoldSet
<1> HIDE DEF n
<1>3. \A s \in D : s # {} => Max(s) \in 1 .. n
  BY <1>1, MaxParts
<1>4. \A st \in St, k \in 1 .. n : F[<<st, q[k]>>] = CoordinateGroup(st, q[k])
  BY <1>1
<1>5. Keeps(F, q, n, St)
  BY <1>1, <1>4 DEF Keeps, GroupsChainKeeps
<1> HIDE DEF F
<1>6. PICK h : IsFold(h, F, B, q, n)
  BY <1>1, FoldExists
<1>7. Is(h)
  <2>1. ASSUME NEW s \in D, s # {}
        PROVE  F[<<h[s \ {Max(s)}], q[Max(s)]>>] = CoordinateGroup(h[s \ {Max(s)}], q[Max(s)])
    <3>1. h[s \ {Max(s)}] \in St /\ Max(s) \in 1 .. n
      BY <1>1, <1>3, <1>5, <1>6, <2>1, FoldTyped
    <3>2. QED
      BY <1>4, <3>1
  <2>2. h = [s \in D |-> IF s = {} THEN B ELSE F[<<h[s \ {Max(s)}], q[Max(s)]>>]]
    BY <1>6 DEF IsFold
  <2>3. QED
    BY <2>1, <2>2
<1>8. Is(c)
  <2> HIDE DEF Is
  <2>1. QED
    BY <1>7
<1>9. Unfolds(c, F, B, q, n, St)
  <2>1. c[{}] = B /\ \A s \in D : s # {} => c[s] = CoordinateGroup(c[s \ {Max(s)}], q[Max(s)])
    <3> HIDE DEF c
    <3>1. QED
      BY <1>8
  <2> HIDE DEF c, Is
  <2>2. ASSUME NEW s \in D, s # {} /\ c[s \ {Max(s)}] \in St
        PROVE  c[s] = F[<<c[s \ {Max(s)}], q[Max(s)]>>]
    BY <1>3, <1>4, <2>1, <2>2
  <2>3. QED
    BY <2>1, <2>2 DEF Unfolds
<1> HIDE DEF c
<1>10. PICK f : IsChain(f, F, B, c, q, n, St)
  BY <1>1, <1>5, <1>9, FoldValue
<1>11. /\ f \in [0 .. n -> St] /\ f[0] = B /\ f[n] = c[1 .. n]
       /\ \A k \in 1 .. n : f[k] = F[<<f[k - 1], q[k]>>]
  BY <1>10 DEF IsChain
<1>12. \A k \in 1 .. n : f[k] = CoordinateGroup(f[k - 1], q[k])
  <2>1. \A k \in 1 .. n : k - 1 \in 0 .. n /\ f[k - 1] \in St
    BY <1>1, <1>11
  <2>2. QED
    BY <1>4, <1>11, <2>1
<1>13. IsGroupsChain(f, St, B, S, q)
  BY <1>2, <1>11, <1>12 DEF IsGroupsChain, n
<1>14. QED
  BY <1>13

\* The modules of the plan.
JoinedChainKeeps(St, S, q) == \A st \in St, el \in S : Joined(st, el) \in St
IsJoinedChain(f, St, B, S, q) ==
    /\ f \in [0 .. Len(q) -> St] /\ f[0] = B /\ f[Len(q)] = FoldLeft(Joined, B, q)
    /\ \A k \in 1 .. Len(q) : f[k] = Joined(f[k - 1], q[k])
\* The chain of the fold that assembles a plan exists.
LEMMA JoinedChain ==
    ASSUME NEW St, NEW B \in St, NEW S, NEW q,
           q \in Seq(S),
           JoinedChainKeeps(St, S, q)
    PROVE  \E f : IsJoinedChain(f, St, B, S, q)
<1> DEFINE n == Len(q)
           D == SUBSET (1 .. n)
           F == [x \in St \X S |-> Joined(x[1], x[2])]
           Is(h) == h = [s \in D |-> IF s = {} THEN B
                                        ELSE Joined(h[s \ {Max(s)}], q[Max(s)])]
           c == CHOOSE h : Is(h)
<1>1. n \in Nat /\ DOMAIN q = 1 .. n /\ \A k \in 1 .. n : q[k] \in S
  OBVIOUS
<1>2. FoldLeft(Joined, B, q) = c[1 .. n]
  BY <1>1 DEF FoldLeft, MapThenFoldSet
<1> HIDE DEF n
<1>3. \A s \in D : s # {} => Max(s) \in 1 .. n
  BY <1>1, MaxParts
<1>4. \A st \in St, k \in 1 .. n : F[<<st, q[k]>>] = Joined(st, q[k])
  BY <1>1
<1>5. Keeps(F, q, n, St)
  BY <1>1, <1>4 DEF Keeps, JoinedChainKeeps
<1> HIDE DEF F
<1>6. PICK h : IsFold(h, F, B, q, n)
  BY <1>1, FoldExists
<1>7. Is(h)
  <2>1. ASSUME NEW s \in D, s # {}
        PROVE  F[<<h[s \ {Max(s)}], q[Max(s)]>>] = Joined(h[s \ {Max(s)}], q[Max(s)])
    <3>1. h[s \ {Max(s)}] \in St /\ Max(s) \in 1 .. n
      BY <1>1, <1>3, <1>5, <1>6, <2>1, FoldTyped
    <3>2. QED
      BY <1>4, <3>1
  <2>2. h = [s \in D |-> IF s = {} THEN B ELSE F[<<h[s \ {Max(s)}], q[Max(s)]>>]]
    BY <1>6 DEF IsFold
  <2>3. QED
    BY <2>1, <2>2
<1>8. Is(c)
  <2> HIDE DEF Is
  <2>1. QED
    BY <1>7
<1>9. Unfolds(c, F, B, q, n, St)
  <2>1. c[{}] = B /\ \A s \in D : s # {} => c[s] = Joined(c[s \ {Max(s)}], q[Max(s)])
    <3> HIDE DEF c
    <3>1. QED
      BY <1>8
  <2> HIDE DEF c, Is
  <2>2. ASSUME NEW s \in D, s # {} /\ c[s \ {Max(s)}] \in St
        PROVE  c[s] = F[<<c[s \ {Max(s)}], q[Max(s)]>>]
    BY <1>3, <1>4, <2>1, <2>2
  <2>3. QED
    BY <2>1, <2>2 DEF Unfolds
<1> HIDE DEF c
<1>10. PICK f : IsChain(f, F, B, c, q, n, St)
  BY <1>1, <1>5, <1>9, FoldValue
<1>11. /\ f \in [0 .. n -> St] /\ f[0] = B /\ f[n] = c[1 .. n]
       /\ \A k \in 1 .. n : f[k] = F[<<f[k - 1], q[k]>>]
  BY <1>10 DEF IsChain
<1>12. \A k \in 1 .. n : f[k] = Joined(f[k - 1], q[k])
  <2>1. \A k \in 1 .. n : k - 1 \in 0 .. n /\ f[k - 1] \in St
    BY <1>1, <1>11
  <2>2. QED
    BY <1>4, <1>11, <2>1
<1>13. IsJoinedChain(f, St, B, S, q)
  BY <1>2, <1>11, <1>12 DEF IsJoinedChain, n
<1>14. QED
  BY <1>13

\* The versions after each write.
WrittenChainKeeps(St, S, q) == \A st \in St, el \in S : Written(st, el) \in St
IsWrittenChain(f, St, B, S, q) ==
    /\ f \in [0 .. Len(q) -> St] /\ f[0] = B /\ f[Len(q)] = FoldLeft(Written, B, q)
    /\ \A k \in 1 .. Len(q) : f[k] = Written(f[k - 1], q[k])
\* The chain of the fold of the writes exists.
LEMMA WrittenChain ==
    ASSUME NEW St, NEW B \in St, NEW S, NEW q,
           q \in Seq(S),
           WrittenChainKeeps(St, S, q)
    PROVE  \E f : IsWrittenChain(f, St, B, S, q)
<1> DEFINE n == Len(q)
           D == SUBSET (1 .. n)
           F == [x \in St \X S |-> Written(x[1], x[2])]
           Is(h) == h = [s \in D |-> IF s = {} THEN B
                                        ELSE Written(h[s \ {Max(s)}], q[Max(s)])]
           c == CHOOSE h : Is(h)
<1>1. n \in Nat /\ DOMAIN q = 1 .. n /\ \A k \in 1 .. n : q[k] \in S
  OBVIOUS
<1>2. FoldLeft(Written, B, q) = c[1 .. n]
  BY <1>1 DEF FoldLeft, MapThenFoldSet
<1> HIDE DEF n
<1>3. \A s \in D : s # {} => Max(s) \in 1 .. n
  BY <1>1, MaxParts
<1>4. \A st \in St, k \in 1 .. n : F[<<st, q[k]>>] = Written(st, q[k])
  BY <1>1
<1>5. Keeps(F, q, n, St)
  BY <1>1, <1>4 DEF Keeps, WrittenChainKeeps
<1> HIDE DEF F
<1>6. PICK h : IsFold(h, F, B, q, n)
  BY <1>1, FoldExists
<1>7. Is(h)
  <2>1. ASSUME NEW s \in D, s # {}
        PROVE  F[<<h[s \ {Max(s)}], q[Max(s)]>>] = Written(h[s \ {Max(s)}], q[Max(s)])
    <3>1. h[s \ {Max(s)}] \in St /\ Max(s) \in 1 .. n
      BY <1>1, <1>3, <1>5, <1>6, <2>1, FoldTyped
    <3>2. QED
      BY <1>4, <3>1
  <2>2. h = [s \in D |-> IF s = {} THEN B ELSE F[<<h[s \ {Max(s)}], q[Max(s)]>>]]
    BY <1>6 DEF IsFold
  <2>3. QED
    BY <2>1, <2>2
<1>8. Is(c)
  <2> HIDE DEF Is
  <2>1. QED
    BY <1>7
<1>9. Unfolds(c, F, B, q, n, St)
  <2>1. c[{}] = B /\ \A s \in D : s # {} => c[s] = Written(c[s \ {Max(s)}], q[Max(s)])
    <3> HIDE DEF c
    <3>1. QED
      BY <1>8
  <2> HIDE DEF c, Is
  <2>2. ASSUME NEW s \in D, s # {} /\ c[s \ {Max(s)}] \in St
        PROVE  c[s] = F[<<c[s \ {Max(s)}], q[Max(s)]>>]
    BY <1>3, <1>4, <2>1, <2>2
  <2>3. QED
    BY <2>1, <2>2 DEF Unfolds
<1> HIDE DEF c
<1>10. PICK f : IsChain(f, F, B, c, q, n, St)
  BY <1>1, <1>5, <1>9, FoldValue
<1>11. /\ f \in [0 .. n -> St] /\ f[0] = B /\ f[n] = c[1 .. n]
       /\ \A k \in 1 .. n : f[k] = F[<<f[k - 1], q[k]>>]
  BY <1>10 DEF IsChain
<1>12. \A k \in 1 .. n : f[k] = Written(f[k - 1], q[k])
  <2>1. \A k \in 1 .. n : k - 1 \in 0 .. n /\ f[k - 1] \in St
    BY <1>1, <1>11
  <2>2. QED
    BY <1>4, <1>11, <2>1
<1>13. IsWrittenChain(f, St, B, S, q)
  BY <1>2, <1>11, <1>12 DEF IsWrittenChain, n
<1>14. QED
  BY <1>13

\* What a releasing package's new version leaves behind, every release has.
LEMMA LeftBehind ==
    ASSUME Context, NEW r, GoodRel(r), NEW e \in Edges, e.kind = "normal",
           e.to \in Releasing(r, Packages),
           ~InRange(ws.ops[e], ats[e], NewVersion(r[e.to]))
    PROVE  Must(e.from)
<1> DEFINE p == e.to
           v == NewVersion(r[p])
           op == ws.ops[e]
<1>1. /\ p \in Packages /\ p \in DOMAIN r /\ HighestBump(r[p]) # None
      /\ Fits(r[p], p) /\ op \in {"caret", "exact", "none"}
      /\ ats[e] \in Versions /\ vers[p] \in Versions /\ Final(vers, p) \in Versions
  BY EdgeParts, WorkspaceParts, FinalParts DEF Releasing, GoodRel, Context, Sources, Ranges, Trees
<1>2. v \in Versions /\ ~Older(v, vers[p]) /\ ~Older(Final(vers, p), v)
  BY <1>1, ModParts
<1> HIDE DEF v, op
<1>3. ASSUME Lags(vers, ats), NEW T \in SUBSET Packages, Answers(vers, ats, T)
      PROVE  e.from \in T
  <2>1. p \in T
    BY <1>3 DEF GoodRel, Bound
  <2>2. op # "none" => ~Older(vers[p], ats[e])
    BY <1>3 DEF Lags, op
  <2>3. op # "none" => ~Older(v, ats[e])
    BY <1>1, <1>2, <2>2, OlderOrders
  <2>4. ~InRange(op, ats[e], Final(vers, p))
    BY <1>1, <1>2, <2>3, RangeParts DEF v, op
  <2>5. QED
    BY <1>3, <2>1, <2>4 DEF Answers, op
<1>4. QED
  BY <1>3 DEF Must

\* What Visit does to a state of the passes.
LEMMA VisitParts ==
    ASSUME Context, NEW st \in PlanStates, NEW p \in DOMAIN st.rel
    PROVE  /\ Visit(st, p) \in PlanStates
           /\ DOMAIN st.rel \subseteq DOMAIN Visit(st, p).rel
           /\ Visit(st, p).changed = FALSE => Visit(st, p) = st
           /\ (Visit(st, p).changed = FALSE /\ HighestBump(st.rel[p]) # None) =>
                 \A e \in Edges :
                    (e.to = p /\ ~InRange(ws.ops[e], ats[e], NewVersion(st.rel[p])))
                       => /\ e.from \in DOMAIN st.rel
                          /\ e.kind = "normal" => st.rel[e.from].cascade = Patch
<1>1. CASE HighestBump(st.rel[p]) = None
  <2>1. Visit(st, p) = st
    BY <1>1 DEF Visit
  <2>2. QED
    BY <1>1, <2>1
<1>2. CASE HighestBump(st.rel[p]) # None
  <2> DEFINE v == NewVersion(st.rel[p])
             n == Len(EdgeSeq)
             St == {s \in PlanStates : DOMAIN st.rel \subseteq DOMAIN s.rel}
             w == Visit(st, p)
  <2>1. GoodRel(st.rel) /\ p \in Releasing(st.rel, Packages) /\ p \in Packages
    BY <1>2, StateParts DEF Releasing
  <2>2. w = EdgeFold(st, p, v)
    BY <1>2 DEF Visit, EdgeFold
  <2>3. ASSUME NEW e \in Edges, e.to = p, e.kind = "normal", ~InRange(ws.ops[e], ats[e], v)
        PROVE  Must(e.from)
    BY <2>1, <2>3, LeftBehind
  <2> HIDE DEF v, w
  <2>4. ASSUME NEW s \in PlanStates, NEW e \in Edges
        PROVE  /\ EdgeStep(s, e, p, v) \in PlanStates
               /\ DOMAIN s.rel \subseteq DOMAIN EdgeStep(s, e, p, v).rel
               /\ EdgeStep(s, e, p, v).changed = FALSE => EdgeStep(s, e, p, v) = s
               /\ (EdgeStep(s, e, p, v).changed = FALSE /\ e.to = p
                     /\ ~InRange(ws.ops[e], ats[e], v)) =>
                     /\ e.from \in DOMAIN s.rel
                     /\ e.kind = "normal" => s.rel[e.from].cascade = Patch
    <3>1. CASE e.to = p
      <4>1. EdgeStep(s, e, p, v) = Pull(s, e, v)
        BY <3>1 DEF EdgeStep
      <4>2. QED
        BY <2>3, <3>1, <4>1, PullParts
    <3>2. CASE e.to # p
      BY <3>2 DEF EdgeStep
    <3>3. QED
      BY <3>1, <3>2
  <2>5. st \in St /\ EdgeChainKeeps(St, p, v)
    BY <2>4 DEF EdgeChainKeeps
  <2> HIDE DEF St
  <2>0. PICK f : IsEdgeChain(f, St, st, p, v)
    BY <2>5, EdgeChain
  <2>6. /\ f \in [0 .. n -> St] /\ f[0] = st /\ f[n] = EdgeFold(st, p, v)
        /\ \A k \in 1 .. n : f[k] = EdgeStep(f[k - 1], EdgeSeq[k], p, v)
    BY <2>0 DEF IsEdgeChain
  <2>7. n \in Nat /\ \A k \in 1 .. n : EdgeSeq[k] \in Edges /\ f[k - 1] \in PlanStates
    <3>1. n \in Nat /\ \A k \in 1 .. n : EdgeSeq[k] \in Edges
      BY EdgeSeqParts
    <3>2. \A k \in 1 .. n : k - 1 \in 0 .. n
      BY <3>1
    <3>3. QED
      BY <2>6, <3>1, <3>2 DEF St
  <2>8. w \in PlanStates /\ DOMAIN st.rel \subseteq DOMAIN w.rel
    BY <2>2, <2>6, <2>7 DEF St
  <2>9. ASSUME w.changed = FALSE PROVE \A k \in 0 .. n : f[k] = st
    <3>1. \A k \in 1 .. n : f[k].changed = FALSE => f[k] = f[k - 1]
      BY <2>4, <2>6, <2>7
    <3>2. f[n].changed = FALSE
      BY <2>2, <2>6, <2>9
    <3> HIDE DEF n
    <3>3. QED
      BY <2>6, <2>7, <3>1, <3>2, FoldQuiet
  <2>10. w.changed = FALSE => w = st
    <3>1. n \in 0 .. n /\ w = f[n]
      BY <2>2, <2>6, <2>7
    <3>2. QED
      BY <2>9, <3>1
  <2>11. ASSUME w.changed = FALSE, NEW e \in Edges, e.to = p, ~InRange(ws.ops[e], ats[e], v)
         PROVE  /\ e.from \in DOMAIN st.rel
                /\ e.kind = "normal" => st.rel[e.from].cascade = Patch
    <3>1. PICK k \in 1 .. n : e = EdgeSeq[k]
      BY EdgeSeqParts
    <3> HIDE DEF n
    <3>2. k - 1 \in 0 .. n /\ k \in 0 .. n /\ f[k] = st /\ f[k - 1] = st
      <4>1. k - 1 \in 0 .. n /\ k \in 0 .. n
        BY <2>7
      <4>2. QED
        BY <2>9, <2>11, <4>1
    <3>3. EdgeStep(st, e, p, v) = st
      BY <2>6, <3>1, <3>2
    <3>4. st.changed = FALSE
      BY <2>10, <2>11
    <3>5. QED
      BY <2>4, <2>11, <3>3, <3>4
  <2>12. QED
    BY <2>8, <2>10, <2>11 DEF w, v
<1>3. QED
  BY <1>1, <1>2

\* A cascade that changes nothing has pulled every dependent there is to pull.
Cascaded(r) == \A e \in Edges :
    (e.to \in Releasing(r, Packages) /\ ~InRange(ws.ops[e], ats[e], NewVersion(r[e.to])))
       => e.from \in DOMAIN r /\ (e.kind = "normal" => r[e.from].cascade = Patch)

\* A cascade goes to a state, and one that changes nothing has nothing left to do.
LEMMA CascadeParts ==
    ASSUME Context, NEW st \in PlanStates
    PROVE  LET w == FoldLeft(Visit, st, st.order)
           IN  /\ w \in PlanStates
               /\ w.changed = FALSE => w = st /\ Cascaded(st.rel)
<1> DEFINE q == st.order
           S == ToSet(q)
           n == Len(q)
           St == {s \in PlanStates : S \subseteq DOMAIN s.rel}
           w == FoldLeft(Visit, st, st.order)
<1>1. /\ q \in Seq(Packages) /\ S = DOMAIN st.rel /\ GoodRel(st.rel)
  BY StateParts DEF Listed
<1>2. /\ n \in Nat /\ DOMAIN q = 1 .. n /\ q \in Seq(S) /\ \A k \in 1 .. n : q[k] \in S
  BY <1>1 DEF ToSet
<1>3. st \in St /\ CascadeChainKeeps(St, S, q)
  BY <1>1, VisitParts DEF CascadeChainKeeps
<1> HIDE DEF St, S
<1>4. PICK f : IsCascadeChain(f, St, st, S, q)
  BY <1>2, <1>3, CascadeChain
<1>5. /\ f \in [0 .. n -> St] /\ f[0] = st /\ f[n] = w
      /\ \A k \in 1 .. n : f[k] = Visit(f[k - 1], q[k])
  BY <1>4 DEF IsCascadeChain
<1> HIDE DEF n, q, w
<1>6. ASSUME NEW k \in 1 .. n
      PROVE  f[k - 1] \in PlanStates /\ q[k] \in DOMAIN f[k - 1].rel
  <2>1. k - 1 \in 0 .. n
    BY <1>2
  <2>2. QED
    BY <1>2, <1>5, <2>1 DEF St
<1>7. w \in PlanStates
  BY <1>2, <1>5 DEF St
<1>8. ASSUME w.changed = FALSE PROVE \A k \in 0 .. n : f[k] = st
  <2>1. \A k \in 1 .. n : f[k].changed = FALSE => f[k] = f[k - 1]
    BY <1>5, <1>6, VisitParts
  <2>2. QED
    BY <1>2, <1>5, <1>8, <2>1, FoldQuiet
<1>9. ASSUME w.changed = FALSE PROVE w = st
  <2>1. n \in 0 .. n
    BY <1>2
  <2>2. QED
    BY <1>5, <1>8, <1>9, <2>1
<1>10. ASSUME w.changed = FALSE, NEW e \in Edges, e.to \in Releasing(st.rel, Packages),
              ~InRange(ws.ops[e], ats[e], NewVersion(st.rel[e.to]))
       PROVE  /\ e.from \in DOMAIN st.rel
              /\ e.kind = "normal" => st.rel[e.from].cascade = Patch
  <2>1. e.to \in S /\ e.to \in DOMAIN st.rel /\ HighestBump(st.rel[e.to]) # None
    BY <1>1, <1>10 DEF Releasing
  <2>2. PICK k \in 1 .. n : e.to = q[k]
    BY <1>2, <2>1 DEF S, ToSet
  <2>3. k - 1 \in 0 .. n /\ k \in 0 .. n
    BY <1>2
  <2>4. f[k] = st /\ f[k - 1] = st
    BY <1>8, <1>10, <2>3
  <2>5. Visit(st, e.to) = st /\ st.changed = FALSE
    BY <1>5, <1>9, <1>10, <2>2, <2>4
  <2>6. QED
    BY <1>10, <2>1, <2>5, VisitParts
<1>11. QED
  BY <1>7, <1>9, <1>10 DEF w, q, Cascaded

\* The groups as CoordinateGroups lists them.
GroupRecords == [kind : {"linked", "fixed", "lockstep"}, names : Groups]
Listing(g) ==
    /\ g \in GroupRecords
    /\ IF g.kind = "linked" THEN g.names \in ToSet(ws.linked)
       ELSE g.names \in ToSet(ws.fixed) \cup ws.files
Listings == {g \in GroupRecords : Listing(g)}

\* A member that takes its group's version and bump.
LEMMA CoordinateParts ==
    ASSUME Context, NEW st \in PlanStates, NEW p \in DOMAIN st.rel, Must(p), Grouped(p)
    PROVE  LET w == Coordinate(st, p, FinalFrom(vers, p), FinalBump(vers, p))
           IN  /\ w \in PlanStates
               /\ w.changed = FALSE => w = st /\ st.rel[p].group # Unset
<1> DEFINE v == FinalFrom(vers, p)
           b == FinalBump(vers, p)
           m == [st.rel[p] EXCEPT !.current = v, !.group = b]
           x == [st.rel EXCEPT ![p] = m]
           w == Coordinate(st, p, v, b)
<1>1. /\ Listed(st.rel, st.order) /\ GoodRel(st.rel) /\ p \in Packages
      /\ st.rel[p] \in Mods /\ Fits(st.rel[p], p)
  BY StateParts, RelParts DEF GoodRel
<1>2. v \in Versions /\ b \in 1 .. 3
  BY <1>1, FinalParts DEF Context
<1> HIDE DEF v, b
<1>3. Unset \notin 1 .. 3 /\ 1 .. 3 \subseteq {Unset, Patch, Minor, Major}
  BY DEF Unset, Patch, Minor, Major
<1>4. Fits(m, p)
  <2>1. m \in Mods /\ m.group = b /\ m.current = v /\ m.asked = st.rel[p].asked
    BY <1>1, <1>2, <1>3 DEF Mods
  <2> HIDE DEF m
  <2>2. QED
    BY <1>1, <1>2, <1>3, <2>1 DEF Fits, v, b
<1>5. GoodRel(x) /\ Listed(x, st.order)
  BY <1>1, <1>4, SetParts
<1>6. w = IF st.rel[p].group = b /\ st.rel[p].current = v THEN st ELSE Change(st, x)
  BY DEF Coordinate, Change
<1> HIDE DEF x, m
<1>7. Change(st, x) \in PlanStates /\ Change(st, x).changed = TRUE
  BY <1>5, ChangeParts
<1>8. QED
  BY <1>2, <1>3, <1>6, <1>7 DEF v, b

\* A group's members have its version and bump at the end of a plan.
LEMMA MemberFinal ==
    ASSUME ws \in Workspaces, NEW g, NEW p, Takes(g, p)
    PROVE  /\ Grouped(p) /\ FinalFrom(vers, p) = Newest(ToSet(g))
           /\ FinalBump(vers, p) = GroupBump(vers, ToSet(g))
BY TakesParts DEF FinalFrom, FinalBump, NewestOf, Newest

\* What a group has done with a member once it changes nothing.
Settled(r, g, p) ==
    /\ (g.kind = "linked" /\ p \in Releasing(r, Packages)) => r[p].group # Unset
    /\ (g.kind # "linked" /\ p \notin ws.ignored) => p \in DOMAIN r /\ r[p].group # Unset

\* A member pulled along by its group goes to a state, and is settled if that changes nothing.
LEMMA PulledParts ==
    ASSUME Context, NEW st \in PlanStates, NEW g \in Listings, NEW p \in ToSet(g.names),
           (g.kind # "linked" /\ p \notin ws.ignored) => Must(p)
    PROVE  LET w == Pulled(st, g, p, Newest(ToSet(g.names)), GroupBump(vers, ToSet(g.names)))
           IN  /\ w \in PlanStates
               /\ w.changed = FALSE => w = st /\ Settled(st.rel, g, p)
<1> DEFINE v == Newest(ToSet(g.names))
           b == GroupBump(vers, ToSet(g.names))
           w == Pulled(st, g, p, v, b)
<1>1. /\ GoodRel(st.rel) /\ ws \in Workspaces /\ g.names \in Groups /\ p \in Packages
      /\ Listing(g)
  BY StateParts, GroupMembers DEF Context, Sources, Listings, GroupRecords
<1>2. ASSUME NEW s \in PlanStates, p \in DOMAIN s.rel, Must(p), Takes(g.names, p)
      PROVE  /\ Coordinate(s, p, v, b) \in PlanStates
             /\ Coordinate(s, p, v, b).changed = FALSE =>
                   Coordinate(s, p, v, b) = s /\ s.rel[p].group # Unset
  <2>1. Grouped(p) /\ FinalFrom(vers, p) = v /\ FinalBump(vers, p) = b
    BY <1>1, <1>2, MemberFinal
  <2> HIDE DEF v, b
  <2>2. QED
    BY <1>2, <2>1, CoordinateParts
<1>3. CASE g.kind = "linked"
  <2>1. Takes(g.names, p)
    BY <1>1, <1>3 DEF Takes, Listing
  <2>2. Releasing(st.rel, {p}) = Releasing(st.rel, Packages) \cap {p}
    BY <1>1, ReleasingParts
  <2>3. w = IF p \in Releasing(st.rel, Packages) THEN Coordinate(st, p, v, b) ELSE st
    BY <1>3, <2>2 DEF Pulled
  <2>4. p \in Releasing(st.rel, Packages) => p \in DOMAIN st.rel /\ Must(p)
    BY <1>1 DEF Releasing, GoodRel, Bound, Must
  <2> HIDE DEF w, v, b
  <2>5. QED
    BY <1>2, <1>3, <2>1, <2>3, <2>4 DEF Settled, w, v, b
<1>4. CASE g.kind # "linked" /\ p \in ws.ignored
  <2>1. w = st
    BY <1>4 DEF Pulled
  <2>2. QED
    BY <1>4, <2>1 DEF Settled
<1>5. CASE g.kind # "linked" /\ p \notin ws.ignored
  <2> DEFINE s == IF p \in DOMAIN st.rel THEN st ELSE Enter(st, p)
  <2>1. Takes(g.names, p) /\ Must(p)
    BY <1>1, <1>5 DEF Takes, Listing
  <2>2. s \in PlanStates /\ p \in DOMAIN s.rel /\ s.changed = st.changed
        /\ (p \notin DOMAIN st.rel => s.rel[p].group = Unset)
        /\ (p \in DOMAIN st.rel => s = st)
    <3>1. CASE p \in DOMAIN st.rel
      BY <3>1
    <3>2. CASE p \notin DOMAIN st.rel
      <4>1. s = Enter(st, p)
        BY <3>2
      <4>2. /\ Enter(st, p).rel = [q \in DOMAIN st.rel \cup {p} |->
                                     IF q = p THEN New(p) ELSE st.rel[q]]
            /\ Enter(st, p) \in PlanStates /\ Enter(st, p).changed = st.changed
        BY <1>1, <3>2, EnterParts
      <4>3. New(p).group = Unset
        BY DEF New
      <4>4. QED
        BY <3>2, <4>1, <4>2, <4>3
    <3>3. QED
      BY <3>1, <3>2
  <2>3. w = Coordinate(s, p, v, b)
    BY <1>5 DEF Pulled
  <2> HIDE DEF w, v, b, s
  <2>4. w \in PlanStates /\ (w.changed = FALSE => w = s /\ s.rel[p].group # Unset)
    BY <1>2, <2>1, <2>2, <2>3
  <2>5. QED
    BY <1>5, <2>2, <2>4 DEF Settled, w, v, b
<1>6. QED
  BY <1>3, <1>4, <1>5

\* The bump a group gives is the same whenever it gives one: the highest its
\* members would have by themselves.
LEMMA BumpOfGroup ==
    ASSUME Context, NEW r, GoodRel(r), NEW g \in Groups, g \in AllGroups,
           Releasing(r, ToSet(g)) # {}
    PROVE  Highest({HighestBump(r[p]) : p \in Releasing(r, ToSet(g))})
             = GroupBump(vers, ToSet(g))
<1> DEFINE R == Releasing(r, ToSet(g))
           S == {HighestBump(r[p]) : p \in R}
           b == GroupBump(vers, ToSet(g))
<1>0. Sources /\ ws \in Workspaces /\ ToSet(g) \subseteq Packages
  BY GroupMembers DEF Context, Sources
<1>1. /\ b \in 1 .. 3 /\ \A p \in ToSet(g) : Own(vers, p) <= b
      /\ \E p \in ToSet(g) : b = Own(vers, p)
  BY <1>0, GroupBumpParts
<1> HIDE DEF b
<1>2. ASSUME NEW p \in R
      PROVE  HighestBump(r[p]) \in 1 .. b /\ (Own(vers, p) = b => HighestBump(r[p]) = b)
  <2>1. /\ p \in ToSet(g) /\ p \in Packages /\ p \in DOMAIN r /\ Fits(r[p], p)
        /\ HighestBump(r[p]) # None
    BY <1>0 DEF Releasing, GoodRel
  <2>2. /\ r[p].group # Unset => Grouped(p) /\ HighestBump(r[p]) = FinalBump(vers, p)
        /\ r[p].group = Unset => HighestBump(r[p]) = Own(vers, p)
    BY <2>1, ModParts DEF Fits
  <2>3. Own(vers, p) \in 1 .. 3 /\ Own(vers, p) <= b
    BY <1>0, <1>1, <2>1, OwnParts
  <2>4. ASSUME Grouped(p) PROVE FinalBump(vers, p) = b
    <3>1. PICK h \in AllGroups : Takes(h, p)
      BY <2>4 DEF Grouped
    <3>2. p \in ToSet(h) /\ Mates(p) = ToSet(h)
      BY <1>0, <3>1, TakesParts
    <3>3. ToSet(h) = ToSet(g)
      BY <1>0, <2>1, <3>2, OneGroup
    <3>4. QED
      BY <2>4, <3>2, <3>3 DEF FinalBump, b
  <2>5. QED
    BY <1>1, <2>2, <2>3, <2>4
<1>3. \E p \in R : HighestBump(r[p]) = b
  <2>1. PICK q \in ToSet(g) : b = Own(vers, q)
    BY <1>1
  <2>2. CASE Asked(q) # None
    <3>1. q \in R
      BY <1>0, <2>2, ReleasingParts
    <3>2. QED
      BY <1>2, <2>1, <3>1
  <2>3. CASE Asked(q) = None
    <3>1. b = 1
      BY <2>1, <2>3 DEF Own, Patch
    <3>2. \A p \in R : HighestBump(r[p]) = b
      BY <1>2, <3>1
    <3>3. QED
      BY <3>2
  <2>4. QED
    BY <2>2, <2>3
<1>4. b \in S /\ \A c \in S : c <= b /\ c \in Nat
  BY <1>1, <1>2, <1>3
<1>5. \A c \in S : (\A d \in S : d <= c) => c = b
  BY <1>1, <1>4
<1>6. Highest(S) = b
  <2> HIDE DEF S
  <2>1. QED
    BY <1>4, <1>5 DEF Highest
<1>7. QED
  BY <1>6 DEF b

GroupSettled(r, g) == Releasing(r, ToSet(g.names)) # {} =>
                          \A p \in ToSet(g.names) : Settled(r, g, p)

\* The same of a whole group.
LEMMA CoordinateGroupParts ==
    ASSUME Context, NEW st \in PlanStates, NEW g \in Listings
    PROVE  /\ CoordinateGroup(st, g) \in PlanStates
           /\ CoordinateGroup(st, g).changed = FALSE =>
                 CoordinateGroup(st, g) = st /\ GroupSettled(st.rel, g)
<1> DEFINE w == CoordinateGroup(st, g)
           S == ToSet(g.names)
           R == Releasing(st.rel, S)
           v == Newest(S)
           b == GroupBump(vers, S)
           n == Len(g.names)
<1>1. /\ GoodRel(st.rel) /\ g.names \in Groups /\ g.names \in AllGroups /\ Listing(g)
      /\ S \subseteq Packages
  BY StateParts, GroupMembers DEF Listings, GroupRecords, Listing, AllGroups
<1>2. CASE R = {}
  <2>1. w = st
    BY <1>2 DEF CoordinateGroup
  <2>2. QED
    BY <1>2, <2>1 DEF GroupSettled
<1>3. CASE R # {}
  <2>1. w = MemberFold(st, g, v, b)
    <3>1. Highest({HighestBump(st.rel[p]) : p \in R}) = b
      BY <1>1, <1>3, BumpOfGroup
    <3>2. QED
      BY <1>3, <3>1 DEF CoordinateGroup, MemberFold, FoldLeft, MapThenFoldSet
  <2>2. ASSUME NEW p \in S, g.kind # "linked", p \notin ws.ignored PROVE Must(p)
    <3>1. PICK q \in S : q \in Releasing(st.rel, Packages)
      BY <1>1, <1>3, ReleasingParts
    <3>2. g.names \in ToSet(ws.fixed) \cup ws.files
      BY <1>1, <2>2 DEF Listing
    <3>3. QED
      BY <1>1, <2>2, <3>1, <3>2 DEF Must, GoodRel, Bound, Answers
  <2>3. ASSUME NEW s \in PlanStates, NEW p \in S
        PROVE  /\ Pulled(s, g, p, v, b) \in PlanStates
               /\ Pulled(s, g, p, v, b).changed = FALSE =>
                      Pulled(s, g, p, v, b) = s /\ Settled(s.rel, g, p)
    BY <2>2, PulledParts
  <2> HIDE DEF v, b, w
  <2>4. /\ n \in Nat /\ g.names \in Seq(S) /\ \A k \in 1 .. n : g.names[k] \in S
        /\ \A p \in S : \E k \in 1 .. n : p = g.names[k]
    <3>1. /\ n \in Nat /\ g.names \in Seq(Packages)
          /\ \A k \in 1 .. n : g.names[k] \in S
          /\ \A p \in S : \E k \in 1 .. n : p = g.names[k]
      BY <1>1, GroupMembers
    <3>2. DOMAIN g.names = 1 .. n /\ g.names = [k \in 1 .. n |-> g.names[k]]
      BY <3>1
    <3>3. g.names \in [1 .. n -> S]
      BY <3>1, <3>2
    <3>4. g.names \in Seq(S)
      BY <3>1, <3>3
    <3>5. QED
      BY <3>1, <3>4
  <2>5. MemberChainKeeps(PlanStates, S, g, v, b)
    BY <2>3 DEF MemberChainKeeps
  <2> HIDE DEF S
  <2>6. PICK f : IsMemberChain(f, PlanStates, st, S, g, v, b)
    BY <2>4, <2>5, MemberChain
  <2>7. /\ f \in [0 .. n -> PlanStates] /\ f[0] = st /\ f[n] = w
        /\ \A k \in 1 .. n : f[k] = Pulled(f[k - 1], g, g.names[k], v, b)
    BY <2>1, <2>6 DEF IsMemberChain
  <2> HIDE DEF n
  <2>8. w \in PlanStates
    BY <2>4, <2>7
  <2>9. ASSUME w.changed = FALSE
        PROVE  \A k \in 0 .. n : f[k] = st
    <3>1. \A k \in 1 .. n : f[k - 1] \in PlanStates
      <4>1. \A k \in 1 .. n : k - 1 \in 0 .. n
        BY <2>4
      <4>2. QED
        BY <2>7, <4>1
    <3>2. ASSUME NEW k \in 1 .. n, f[k].changed = FALSE PROVE f[k] = f[k - 1]
      <4>1. f[k - 1] \in PlanStates /\ g.names[k] \in S
        BY <2>4, <3>1
      <4>2. f[k] = Pulled(f[k - 1], g, g.names[k], v, b)
        BY <2>7
      <4>3. QED
        BY <2>3, <3>2, <4>1, <4>2
    <3>3. QED
      BY <2>4, <2>7, <2>9, <3>2, FoldQuiet
  <2>10. ASSUME w.changed = FALSE PROVE w = st
    <3>1. n \in 0 .. n
      BY <2>4
    <3>2. QED
      BY <2>7, <2>9, <2>10, <3>1
  <2>11. ASSUME w.changed = FALSE, NEW p \in S PROVE Settled(st.rel, g, p)
    <3>1. PICK k \in 1 .. n : p = g.names[k]
      BY <2>4
    <3>2. k - 1 \in 0 .. n /\ k \in 0 .. n
      BY <2>4
    <3>3. f[k] = st /\ f[k - 1] = st
      BY <2>9, <2>11, <3>2
    <3>4. Pulled(st, g, p, v, b) = st /\ st.changed = FALSE
      BY <2>7, <2>10, <2>11, <3>1, <3>3
    <3>5. QED
      BY <2>3, <3>4
  <2>12. QED
    BY <2>8, <2>10, <2>11 DEF GroupSettled, w, S
<1>4. QED
  BY <1>2, <1>3

\* The lists of groups as CoordinateGroups goes through them.
GroupList(files) == AsGroups("linked", ws.linked) \o AsGroups("fixed", ws.fixed)
                      \o AsGroups("lockstep", files)

\* A list of groups of one kind.
LEMMA AsGroupsParts ==
    ASSUME NEW s \in Seq(Groups), NEW k \in {"linked", "fixed", "lockstep"},
           k = "linked" => ToSet(s) \subseteq ToSet(ws.linked),
           k # "linked" => ToSet(s) \subseteq ToSet(ws.fixed) \cup ws.files
    PROVE  /\ AsGroups(k, s) \in Seq(Listings)
           /\ \A g \in ToSet(s) : \E h \in ToSet(AsGroups(k, s)) :
                  h.kind = k /\ h.names = g
<1>1. /\ Len(s) \in Nat /\ DOMAIN s = 1 .. Len(s) /\ \A j \in 1 .. Len(s) : s[j] \in Groups
  OBVIOUS
<1> DEFINE R(g) == [kind |-> k, names |-> g]
<1>2. ASSUME NEW j \in 1 .. Len(s) PROVE R(s[j]) \in Listings
  <2>1. s[j] \in ToSet(s)
    BY <1>1 DEF ToSet
  <2>2. R(s[j]) \in GroupRecords /\ R(s[j]).kind = k /\ R(s[j]).names = s[j]
    BY <1>1 DEF GroupRecords
  <2> HIDE DEF R
  <2>3. QED
    BY <2>1, <2>2 DEF Listings, Listing
<1> DEFINE a == AsGroups(k, s)
<1>3. a = [j \in 1 .. Len(s) |-> R(s[j])]
  BY DEF AsGroups
<1> HIDE DEF a
<1>4. a \in [1 .. Len(s) -> Listings] /\ DOMAIN a = 1 .. Len(s)
  <2> HIDE DEF R
  <2>1. QED
    BY <1>2, <1>3
<1>5. a \in Seq(Listings)
  BY <1>1, <1>4
<1>6. ASSUME NEW g \in ToSet(s) PROVE \E h \in ToSet(a) : h.kind = k /\ h.names = g
  <2>1. PICK j \in 1 .. Len(s) : g = s[j]
    BY <1>1, <1>6 DEF ToSet
  <2>2. a[j] \in ToSet(a) /\ a[j] = R(g)
    BY <1>3, <1>4, <2>1 DEF ToSet
  <2>3. QED
    BY <2>2
<1>7. QED
  BY <1>5, <1>6 DEF a

\* The list of all groups has every group under its kind.
LEMMA ListingParts ==
    ASSUME ws \in Workspaces, NEW files, files \in Seq(Groups), ToSet(files) = ws.files
    PROVE  /\ GroupList(files) \in Seq(Listings)
           /\ \A g \in ToSet(ws.linked) : \E h \in ToSet(GroupList(files)) :
                  h.kind = "linked" /\ h.names = g
           /\ \A g \in ToSet(ws.fixed) \cup ws.files : \E h \in ToSet(GroupList(files)) :
                  h.kind # "linked" /\ h.names = g
<1> DEFINE a == AsGroups("linked", ws.linked)
           b == AsGroups("fixed", ws.fixed)
           c == AsGroups("lockstep", files)
<1>1. ws.linked \in Seq(Groups) /\ ws.fixed \in Seq(Groups)
  BY WorkspaceParts
<1>2. /\ a \in Seq(Listings) /\ \A g \in ToSet(ws.linked) : \E h \in ToSet(a) :
            h.kind = "linked" /\ h.names = g
  BY <1>1, AsGroupsParts
<1>3. /\ b \in Seq(Listings) /\ \A g \in ToSet(ws.fixed) : \E h \in ToSet(b) :
            h.kind = "fixed" /\ h.names = g
  BY <1>1, AsGroupsParts
<1>4. /\ c \in Seq(Listings) /\ \A g \in ToSet(files) : \E h \in ToSet(c) :
            h.kind = "lockstep" /\ h.names = g
  BY <1>1, AsGroupsParts
<1> HIDE DEF a, b, c
<1>5. a \o b \in Seq(Listings) /\ ToSet(a \o b) = ToSet(a) \cup ToSet(b)
  BY <1>2, <1>3, ConcatParts
<1> DEFINE ab == a \o b
<1> HIDE DEF ab
<1>0. ab \in Seq(Listings)
  BY <1>5 DEF ab
<1>6. ab \o c \in Seq(Listings) /\ ToSet(ab \o c) = ToSet(ab) \cup ToSet(c)
  BY <1>0, <1>4, ConcatParts
<1>7. GroupList(files) = ab \o c
  BY DEF GroupList, ab, a, b, c
<1>8. /\ GroupList(files) \in Seq(Listings)
      /\ ToSet(GroupList(files)) = ToSet(a) \cup ToSet(b) \cup ToSet(c)
  BY <1>5, <1>6, <1>7 DEF ab
<1>9. QED
  BY <1>2, <1>3, <1>4, <1>8

\* A coordination that changes nothing has settled every group.
Coordinated(r) ==
    /\ \A g \in ToSet(ws.linked) : \A p \in ToSet(g) \cap Releasing(r, Packages) :
          r[p].group # Unset
    /\ \A g \in ToSet(ws.fixed) \cup ws.files :
          ToSet(g) \cap Releasing(r, Packages) # {} =>
             \A p \in ToSet(g) \ ws.ignored : p \in DOMAIN r /\ r[p].group # Unset

\* Coordination goes to a state, and one that changes nothing has nothing left to do.
LEMMA GroupsParts ==
    ASSUME Context, NEW st \in PlanStates,
           NEW files, files \in Seq(Groups), ToSet(files) = ws.files
    PROVE  LET w == FoldLeft(CoordinateGroup, st, GroupList(files))
           IN  /\ w \in PlanStates
               /\ w.changed = FALSE => w = st /\ Coordinated(st.rel)
<1> DEFINE q == GroupList(files)
           n == Len(q)
           w == FoldLeft(CoordinateGroup, st, q)
<1>1. ws \in Workspaces
  BY DEF Context, Sources
<1>2. /\ q \in Seq(Listings)
      /\ \A g \in ToSet(ws.linked) : \E h \in ToSet(q) : h.kind = "linked" /\ h.names = g
      /\ \A g \in ToSet(ws.fixed) \cup ws.files : \E h \in ToSet(q) :
            h.kind # "linked" /\ h.names = g
  BY <1>1, ListingParts
<1> HIDE DEF q
<1>3. /\ n \in Nat /\ DOMAIN q = 1 .. n /\ \A k \in 1 .. n : q[k] \in Listings
      /\ \A g \in ToSet(q) : g \in Listings /\ \E k \in 1 .. n : g = q[k]
  BY <1>2 DEF ToSet
<1>4. GroupsChainKeeps(PlanStates, Listings, q)
  BY CoordinateGroupParts DEF GroupsChainKeeps
<1>5. PICK f : IsGroupsChain(f, PlanStates, st, Listings, q)
  BY <1>2, <1>4, GroupsChain
<1>6. /\ f \in [0 .. n -> PlanStates] /\ f[0] = st /\ f[n] = w
      /\ \A k \in 1 .. n : f[k] = CoordinateGroup(f[k - 1], q[k])
  BY <1>5 DEF IsGroupsChain
<1> HIDE DEF n, w
<1>7. w \in PlanStates
  BY <1>3, <1>6
<1>8. ASSUME w.changed = FALSE PROVE \A k \in 0 .. n : f[k] = st
  <2>1. \A k \in 1 .. n : f[k - 1] \in PlanStates
    <3>1. \A k \in 1 .. n : k - 1 \in 0 .. n
      BY <1>3
    <3>2. QED
      BY <1>6, <3>1
  <2>2. ASSUME NEW k \in 1 .. n, f[k].changed = FALSE PROVE f[k] = f[k - 1]
    <3>1. f[k - 1] \in PlanStates /\ q[k] \in Listings
      BY <1>3, <2>1
    <3>2. f[k] = CoordinateGroup(f[k - 1], q[k])
      BY <1>6
    <3>3. QED
      BY <2>2, <3>1, <3>2, CoordinateGroupParts
  <2>3. QED
    BY <1>3, <1>6, <1>8, <2>2, FoldQuiet
<1>9. ASSUME w.changed = FALSE PROVE w = st
  <2>1. n \in 0 .. n
    BY <1>3
  <2>2. QED
    BY <1>6, <1>8, <1>9, <2>1
<1>10. ASSUME w.changed = FALSE, NEW g \in ToSet(q) PROVE GroupSettled(st.rel, g)
  <2>1. PICK k \in 1 .. n : g = q[k]
    BY <1>3
  <2>2. k - 1 \in 0 .. n /\ k \in 0 .. n
    BY <1>3
  <2>3. f[k] = st /\ f[k - 1] = st
    BY <1>8, <1>10, <2>2
  <2>4. CoordinateGroup(st, g) = st /\ st.changed = FALSE
    BY <1>6, <1>9, <1>10, <2>1, <2>3
  <2>5. QED
    BY <1>3, <2>4, CoordinateGroupParts
<1>11. ASSUME w.changed = FALSE PROVE Coordinated(st.rel)
  <2>1. GoodRel(st.rel)
    BY StateParts
  <2>2. ASSUME NEW g \in ToSet(ws.linked), NEW p \in ToSet(g) \cap Releasing(st.rel, Packages)
        PROVE  st.rel[p].group # Unset
    <3>1. PICK h \in ToSet(q) : h.kind = "linked" /\ h.names = g
      BY <1>2
    <3>2. p \in Releasing(st.rel, ToSet(h.names))
      BY <2>1, <3>1, ReleasingParts
    <3>3. Settled(st.rel, h, p)
      BY <1>10, <1>11, <3>1, <3>2 DEF GroupSettled
    <3>4. QED
      BY <3>1, <3>3 DEF Settled
  <2>3. ASSUME NEW g \in ToSet(ws.fixed) \cup ws.files,
               ToSet(g) \cap Releasing(st.rel, Packages) # {},
               NEW p \in ToSet(g) \ ws.ignored
        PROVE  p \in DOMAIN st.rel /\ st.rel[p].group # Unset
    <3>1. PICK h \in ToSet(q) : h.kind # "linked" /\ h.names = g
      BY <1>2
    <3>2. Releasing(st.rel, ToSet(h.names)) # {}
      BY <2>1, <2>3, <3>1, ReleasingParts
    <3>3. Settled(st.rel, h, p)
      BY <1>10, <1>11, <3>1, <3>2 DEF GroupSettled
    <3>4. QED
      BY <2>3, <3>1, <3>3 DEF Settled
  <2>4. QED
    BY <2>2, <2>3 DEF Coordinated
<1>12. QED
  BY <1>7, <1>9, <1>11 DEF w, q
-----------------------------------------------------------------------------
\* A plan that both passes leave alone.

Quiet(r) == GoodRel(r) /\ Cascaded(r) /\ Coordinated(r)

\* Its releasing packages are where the tree takes them.
LEMMA QuietFinal ==
    ASSUME Context, NEW r, Quiet(r), NEW p \in Releasing(r, Packages)
    PROVE  NewVersion(r[p]) = Final(vers, p) /\ HighestBump(r[p]) = FinalBump(vers, p)
<1>1. /\ p \in Packages /\ p \in DOMAIN r /\ Fits(r[p], p) /\ HighestBump(r[p]) # None
      /\ Sources
  BY DEF Releasing, Quiet, GoodRel, Context
<1>2. CASE r[p].group # Unset
  BY <1>1, <1>2, ModParts
<1>3. CASE r[p].group = Unset
  <2>1. ~Grouped(p)
    <3>1. ASSUME NEW g \in AllGroups, Takes(g, p) PROVE FALSE
      <4>1. CASE g \in ToSet(ws.linked) /\ p \in ToSet(g)
        BY <1>3, <4>1 DEF Quiet, Coordinated
      <4>2. CASE g \in ToSet(ws.fixed) \cup ws.files /\ p \in ToSet(g) \ ws.ignored
        BY <1>3, <4>2 DEF Quiet, Coordinated
      <4>3. QED
        BY <3>1, <4>1, <4>2 DEF Takes
    <3>2. QED
      BY <3>1 DEF Grouped
  <2>2. FinalBump(vers, p) = Own(vers, p) /\ Final(vers, p) = Raise(vers[p], Own(vers, p))
    BY <2>1 DEF FinalBump, FinalFrom, Final
  <2>3. QED
    BY <1>1, <1>3, <2>2, ModParts
<1>4. QED
  BY <1>2, <1>3

\* They are what the tree needs, and no more.
LEMMA QuietNeeded ==
    ASSUME Context, NEW r, Quiet(r)
    PROVE  /\ Releasing(r, Packages) \in SUBSET Packages
           /\ Answers(vers, ats, Releasing(r, Packages))
           /\ Lags(vers, ats) => IsNeeded(vers, ats, Releasing(r, Packages))
<1> DEFINE S == Releasing(r, Packages)
<1>0. GoodRel(r) /\ S \in SUBSET Packages
  BY DEF Quiet, Releasing
<1>1. {p \in Packages : Asked(p) # None} \subseteq S
  BY <1>0, ReleasingParts
<1>2. ASSUME NEW e \in Edges, e.kind = "normal", e.to \in S,
             ~InRange(ws.ops[e], ats[e], Final(vers, e.to))
      PROVE  e.from \in S
  <2>1. ~InRange(ws.ops[e], ats[e], NewVersion(r[e.to]))
    BY <1>2, QuietFinal
  <2>2. e.from \in DOMAIN r /\ r[e.from].cascade = Patch
    BY <1>2, <2>1 DEF Quiet, Cascaded
  <2>3. QED
    BY <1>0, <2>2, ReleasingParts DEF Patch, None
<1>3. ASSUME NEW g \in ToSet(ws.fixed) \cup ws.files, ToSet(g) \cap S # {},
             NEW p \in ToSet(g) \ ws.ignored
      PROVE  p \in S
  <2>1. p \in DOMAIN r /\ r[p].group # Unset
    BY <1>3 DEF Quiet, Coordinated
  <2>2. QED
    BY <1>0, <2>1, ReleasingParts
<1>4. Answers(vers, ats, S)
  BY <1>1, <1>2, <1>3 DEF Answers
<1>5. QED
  BY <1>0, <1>4 DEF IsNeeded, GoodRel, Bound

\* What the tree needs is one set.
LEMMA NeededIs ==
    ASSUME NEW v, NEW a, NEW S \in SUBSET Packages, IsNeeded(v, a, S)
    PROVE  Needed(v, a) = S
BY DEF Needed, IsNeeded

\* The set the property speaks of answers at the versions planned, which are
\* those of the tree.
LEMMA QuietLeast ==
    ASSUME Context, Quiet(rel), Lags(vers, ats)
    PROVE  LET S == Releasing(rel, Packages)
           IN  ClosedUnder(S) /\ \A T \in SUBSET S : ClosedUnder(T) => T = S
<1> DEFINE S == Releasing(rel, Packages)
<1>1. S \in SUBSET Packages /\ Answers(vers, ats, S) /\ IsNeeded(vers, ats, S)
  BY QuietNeeded
<1>2. ASSUME NEW T \in SUBSET S PROVE ClosedUnder(T) <=> Answers(vers, ats, T)
  <2>1. \A e \in Edges : e.to \in T => NewVersion(rel[e.to]) = Final(vers, e.to)
    BY QuietFinal
  <2>2. QED
    BY <2>1 DEF ClosedUnder, Answers
<1> HIDE DEF S
<1>3. ClosedUnder(S)
  BY <1>1, <1>2
<1>4. ASSUME NEW T \in SUBSET S, ClosedUnder(T) PROVE T = S
  <2>1. Answers(vers, ats, T) /\ T \in SUBSET Packages
    BY <1>1, <1>2, <1>4
  <2>2. QED
    BY <1>1, <2>1 DEF IsNeeded
<1>5. QED
  BY <1>3, <1>4 DEF S
-----------------------------------------------------------------------------
\* What a tree with versions v and ranges a comes to.

\* The ranges a release rewrites, and the packages it moves: an ignored one
\* keeps its version unless its linked group moves it.
Follows(v, a, e) ==
    /\ ws.ops[e] # "none" /\ e.to \in Needed(v, a)
    /\ InRange(ws.ops[e], a[e], Final(v, e.to))
         => e.from \in Needed(v, a) /\ FinalBump(v, e.to) >= ws.threshold
FateAts(v, a) == [e \in Edges |-> IF Follows(v, a, e) THEN Final(v, e.to) ELSE a[e]]
Moves(v, a, p) ==
    /\ p \in Needed(v, a)
    /\ p \in ws.ignored => Grouped(p) /\ \E e \in Edges : e.from = p /\ Follows(v, a, e)
Fate(v, a) == [p \in Packages |-> IF Moves(v, a, p) THEN Final(v, p) ELSE v[p]]

\* No range is for an ignored package, and none shares a version file.
IgnoredApart == \A w \in Workspaces :
    /\ \A e \in Edges : e.to \in w.ignored => w.ops[e] = "none"
    /\ \A g \in w.files : ToSet(g) \cap w.ignored = {}

\* The packages of one version file have one version.
Shared(v) == \A g \in ws.files : \A p, q \in ToSet(g) : v[p] = v[q]

\* What a module of a finished plan is.
RangeSets == UNION {[E -> Versions] : E \in SUBSET Edges}
PlanMods == [name : Packages, version : Versions, rangeOnly : BOOLEAN, ranges : RangeSets]

\* A plan takes a tree to its fate.
PlanFits(pl, v, a) ==
    /\ \A k \in 1 .. Len(pl) :
          /\ \A p \in Sharers(pl[k].name) : p \in Packages /\ pl[k].version = Fate(v, a)[p]
          /\ \A e \in DOMAIN pl[k].ranges : pl[k].ranges[e] = FateAts(v, a)[e]
    /\ \A p \in Packages : Fate(v, a)[p] # v[p] =>
          \E k \in 1 .. Len(pl) : p \in Sharers(pl[k].name)
    /\ \A e \in Edges : FateAts(v, a)[e] # a[e] =>
          \E k \in 1 .. Len(pl) : e \in DOMAIN pl[k].ranges

\* The plan has a module for every package in the order that is planned, and
\* no other.
LEMMA AssembleParts ==
    ASSUME NEW M, order \in Seq(Packages),
           \A p \in ToSet(order) : Planned(p) => Module(p) \in M
    PROVE  /\ Assemble \in Seq(M)
           /\ \A k \in 1 .. Len(Assemble) : \E p \in ToSet(order) :
                 Planned(p) /\ Assemble[k] = Module(p)
           /\ \A p \in ToSet(order) : Planned(p) =>
                 \E k \in 1 .. Len(Assemble) : Assemble[k] = Module(p)
<1> DEFINE S == ToSet(order)
           n == Len(order)
           From(t) == \A k \in 1 .. Len(t) : \E p \in S : Planned(p) /\ t[k] = Module(p)
           St == {t \in Seq(M) : From(t)}
           Has(t, p) == \E k \in 1 .. Len(t) : t[k] = Module(p)
<1>1. /\ order \in Seq(S) /\ n \in Nat /\ \A k \in 1 .. n : order[k] \in S
      /\ \A p \in S : \E k \in 1 .. n : p = order[k]
  BY DEF ToSet
<1>2. ASSUME NEW t \in St, NEW p \in S
      PROVE  /\ Joined(t, p) \in St /\ (Planned(p) => Has(Joined(t, p), p))
             /\ \A r : Has(t, r) => Has(Joined(t, p), r)
  <2>1. CASE ~Planned(p)
    BY <2>1 DEF Joined
  <2>2. CASE Planned(p)
    <3> DEFINE m == Module(p)
               u == Append(t, m)
    <3>1. m \in M /\ t \in Seq(M)
      BY <2>2
    <3> HIDE DEF m
    <3>2. /\ u \in Seq(M) /\ Len(u) = Len(t) + 1 /\ Len(t) \in Nat /\ u[Len(t) + 1] = m
          /\ \A k \in 1 .. Len(t) : u[k] = t[k]
      BY <3>1
    <3>3. Joined(t, p) = u
      BY <2>2 DEF Joined, m
    <3> HIDE DEF u
    <3>4. ASSUME NEW k \in 1 .. Len(u) PROVE \E q \in S : Planned(q) /\ u[k] = Module(q)
      <4>1. CASE k = Len(t) + 1
        BY <2>2, <3>2, <4>1 DEF m
      <4>2. CASE k # Len(t) + 1
        <5>1. k \in 1 .. Len(t)
          BY <3>2, <4>2
        <5>2. QED
          BY <1>2, <3>2, <5>1
      <4>3. QED
        BY <4>1, <4>2
    <3>5. Has(u, p)
      <4>1. Len(t) + 1 \in 1 .. Len(u)
        BY <3>2
      <4>2. QED
        BY <3>2, <4>1 DEF m
    <3>6. ASSUME NEW r, Has(t, r) PROVE Has(u, r)
      <4>1. PICK k \in 1 .. Len(t) : t[k] = Module(r)
        BY <3>6
      <4>2. k \in 1 .. Len(u)
        BY <3>2
      <4>3. QED
        BY <3>2, <4>1, <4>2
    <3>7. QED
      BY <3>2, <3>3, <3>4, <3>5, <3>6
  <2>3. QED
    BY <2>1, <2>2
<1>3. <<>> \in St /\ JoinedChainKeeps(St, S, order)
  BY <1>2 DEF JoinedChainKeeps
<1> HIDE DEF St, S, Has
<1>4. PICK f : IsJoinedChain(f, St, <<>>, S, order)
  BY <1>1, <1>3, JoinedChain
<1>5. /\ f \in [0 .. n -> St] /\ f[n] = Assemble
      /\ \A k \in 1 .. n : f[k] = Joined(f[k - 1], order[k])
  BY <1>4 DEF IsJoinedChain, Assemble
<1> HIDE DEF n
<1> DEFINE T == {k \in 0 .. n : \A j \in 1 .. k : Planned(order[j]) => Has(f[k], order[j])}
<1>6. 0 \in T
  BY <1>1
<1>7. ASSUME NEW k \in 1 .. n, k - 1 \in T PROVE k \in T
  <2>1. f[k - 1] \in St /\ order[k] \in S /\ f[k] = Joined(f[k - 1], order[k])
    <3>1. k - 1 \in 0 .. n
      BY <1>1
    <3>2. QED
      BY <1>1, <1>5, <3>1
  <2>2. ASSUME NEW j \in 1 .. k, Planned(order[j]) PROVE Has(f[k], order[j])
    <3>1. CASE j = k
      BY <1>2, <2>1, <2>2, <3>1
    <3>2. CASE j # k
      <4>1. j \in 1 .. (k - 1)
        BY <1>1, <3>2
      <4>2. Has(f[k - 1], order[j])
        BY <1>7, <2>2, <4>1
      <4>3. QED
        BY <1>2, <2>1, <4>2
    <3>3. QED
      BY <3>1, <3>2
  <2>3. QED
    BY <1>1, <2>2
<1>8. n \in T
  <2> HIDE DEF T
  <2>1. \A k \in 0 .. n : k \in T
    BY <1>1, <1>6, <1>7, Climb
  <2>2. QED
    BY <1>1, <2>1
<1>9. Assemble \in St
  BY <1>1, <1>5
<1>10. ASSUME NEW p \in S, Planned(p) PROVE Has(Assemble, p)
  BY <1>1, <1>5, <1>8, <1>10
<1>11. QED
  BY <1>9, <1>10 DEF St, S, Has

\* A module of a finished plan has its type.
LEMMA ModuleTyped ==
    ASSUME Context, GoodRel(rel), NEW p \in DOMAIN rel
    PROVE  Module(p) \in PlanMods
<1>1. p \in Packages /\ Fits(rel[p], p) /\ rel[p] \in Mods /\ Sources
  BY RelParts DEF GoodRel, Context
<1>2. NewVersion(rel[p]) \in Versions
  BY <1>1, ModParts
<1>3. NewVersion(Demote(rel[p])) \in Versions
  <2> DEFINE m == Demote(rel[p])
  <2>1. m.group = rel[p].group /\ m.current = rel[p].current /\ m.cascade = None /\ m.asked = None
    BY <1>1 DEF Demote, Mods
  <2> HIDE DEF m
  <2>2. m.current \in Versions /\ m.group \in {Unset, Patch, Minor, Major}
    BY <1>1, <2>1 DEF Mods
  <2>3. HighestBump(m) \in Bumps
    <3>1. Highest({None, None}) = None
      <4>1. {None, None} \in SUBSET Bumps /\ {None, None} # {}
        BY DEF Bumps, None, Major
      <4>2. QED
        BY <4>1, HighestParts
    <3>2. QED
      BY <2>1, <2>2, <3>1 DEF HighestBump, Bumps, None, Patch, Minor, Major
  <2>4. QED
    BY <2>2, <2>3, RaiseParts DEF NewVersion, m
<1>4. [e \in Rewrites(p) |-> NewVersion(rel[e.to])] \in RangeSets
  <2>1. Rewrites(p) \in SUBSET Edges
    BY DEF Rewrites, Links
  <2>2. ASSUME NEW e \in Rewrites(p) PROVE NewVersion(rel[e.to]) \in Versions
    <3>1. e.to \in DOMAIN rel /\ e.to \in Packages
      BY DEF Rewrites, Links, Releasing
    <3>2. Fits(rel[e.to], e.to)
      BY <3>1 DEF GoodRel
    <3>3. QED
      BY <3>1, <3>2, ModParts
  <2>3. [e \in Rewrites(p) |-> NewVersion(rel[e.to])] \in [Rewrites(p) -> Versions]
    BY <2>2
  <2>4. QED
    BY <2>1, <2>3 DEF RangeSets
<1>5. QED
  BY <1>1, <1>2, <1>3, <1>4 DEF Module, PlanMods

\* The rewrites of a quiet plan are those the tree calls for.
LEMMA QuietFollows ==
    ASSUME Context, Quiet(rel), Lags(vers, ats), NEW e \in Edges
    PROVE  /\ e.from \in DOMAIN rel => (e \in Rewrites(e.from) <=> Follows(vers, ats, e))
           /\ Follows(vers, ats, e) => e.from \in DOMAIN rel
                 /\ NewVersion(rel[e.to]) = Final(vers, e.to)
<1> DEFINE S == Releasing(rel, Packages)
<1>1. Needed(vers, ats) = S
  BY QuietNeeded, NeededIs
<1>2. GoodRel(rel) /\ S \subseteq DOMAIN rel
  BY ReleasingParts DEF Quiet
<1>3. e.to \in S => /\ NewVersion(rel[e.to]) = Final(vers, e.to)
                    /\ HighestBump(rel[e.to]) = FinalBump(vers, e.to)
  BY QuietFinal
<1>4. e.from \in DOMAIN rel => (HighestBump(rel[e.from]) # None <=> e.from \in S)
  BY EdgeParts DEF Releasing
<1>5. ASSUME Follows(vers, ats, e) PROVE e.from \in DOMAIN rel
  <2>1. CASE InRange(ws.ops[e], ats[e], Final(vers, e.to))
    BY <1>1, <1>2, <1>5, <2>1 DEF Follows
  <2>2. CASE ~InRange(ws.ops[e], ats[e], Final(vers, e.to))
    BY <1>1, <1>3, <1>5, <2>2 DEF Follows, Quiet, Cascaded
  <2>3. QED
    BY <2>1, <2>2
<1> HIDE DEF S
<1>6. e.from \in DOMAIN rel => (e \in Rewrites(e.from) <=> Follows(vers, ats, e))
  BY <1>1, <1>3, <1>4 DEF Rewrites, Links, Follows, S
<1>7. QED
  BY <1>1, <1>3, <1>5, <1>6 DEF Follows

\* A planned package gets the version the tree takes it to.
LEMMA QuietModule ==
    ASSUME Context, Quiet(rel), Lags(vers, ats), NEW p \in DOMAIN rel
    PROVE  /\ Planned(p) => Module(p).version = Fate(vers, ats)[p]
           /\ Module(p).ranges = [e \in Rewrites(p) |-> NewVersion(rel[e.to])]
           /\ Module(p).name = p
           /\ Moves(vers, ats, p) => Planned(p)
<1> DEFINE S == Releasing(rel, Packages)
           m == rel[p]
<1>1. Needed(vers, ats) = S
  BY QuietNeeded, NeededIs
<1>2. p \in Packages /\ Fits(m, p) /\ m \in Mods /\ GoodRel(rel) /\ Sources
  BY RelParts DEF GoodRel, Quiet, Context
<1>3. HighestBump(m) # None <=> p \in S
  BY <1>2 DEF Releasing
<1>4. p \in S => NewVersion(m) = Final(vers, p)
  BY QuietFinal
<1>5. p \notin S => NewVersion(m) = vers[p]
  BY <1>2, <1>3, ModParts
<1>6. Rewrites(p) # {} <=> \E e \in Edges : e.from = p /\ Follows(vers, ats, e)
  <2>1. \A e \in Rewrites(p) : e \in Edges /\ e.from = p
    BY DEF Rewrites, Links
  <2>2. \A e \in Edges : e.from = p => (e \in Rewrites(p) <=> Follows(vers, ats, e))
    BY QuietFollows
  <2>3. QED
    BY <2>1, <2>2
<1>7. m.group # Unset => Grouped(p) /\ p \in S
  BY <1>2, ReleasingParts DEF Fits
<1>8. (p \in S /\ Grouped(p)) => m.group # Unset
  <2>1. ASSUME p \in S, NEW g \in AllGroups, Takes(g, p) PROVE m.group # Unset
    BY <2>1 DEF Quiet, Coordinated, Takes
  <2>2. QED
    BY <2>1 DEF Grouped
<1>9. NewVersion(Demote(m)) = IF m.group # Unset THEN Final(vers, p) ELSE vers[p]
  <2> DEFINE d == Demote(m)
  <2>1. d.group = m.group /\ d.current = m.current /\ d.cascade = None /\ d.asked = None
    BY <1>2 DEF Demote, Mods
  <2> HIDE DEF d
  <2>2. CASE m.group # Unset
    <3>1. NewVersion(d) = NewVersion(m)
      BY <2>1, <2>2 DEF NewVersion, HighestBump
    <3>2. QED
      BY <1>4, <1>7, <2>2, <3>1 DEF d
  <2>3. CASE m.group = Unset
    <3>1. Highest({None, None}) = None
      <4>1. {None, None} \in SUBSET Bumps /\ {None, None} # {}
        BY DEF Bumps, None, Major
      <4>2. QED
        BY <4>1, HighestParts
    <3>2. HighestBump(d) = None
      BY <2>1, <2>3, <3>1 DEF HighestBump, None, Major
    <3>3. d.current = vers[p] /\ vers[p] \in Versions
      BY <1>2, <2>1, <2>3 DEF Fits, Context, Trees
    <3>4. Raise(vers[p], None) = vers[p]
      BY <3>3, RaiseParts DEF Bumps, None, Major
    <3>5. QED
      BY <2>3, <3>2, <3>3, <3>4 DEF NewVersion, d
  <2>4. QED
    BY <2>2, <2>3
<1>10. /\ Module(p).version = NewVersion(IF p \in ws.ignored THEN Demote(m) ELSE m)
       /\ Module(p).ranges = [e \in Rewrites(p) |-> NewVersion(rel[e.to])]
       /\ Module(p).name = p
  BY DEF Module
<1> HIDE DEF S, m
<1>11. ASSUME Planned(p) PROVE Module(p).version = Fate(vers, ats)[p]
  <2>1. CASE p \in ws.ignored
    <3>1. Rewrites(p) # {}
      BY <1>11, <2>1 DEF Planned
    <3>2. Moves(vers, ats, p) <=> m.group # Unset
      BY <1>1, <1>6, <1>7, <1>8, <2>1, <3>1 DEF Moves
    <3>3. QED
      BY <1>2, <1>9, <1>10, <2>1, <3>2 DEF Fate
  <2>2. CASE p \notin ws.ignored
    <3>1. Moves(vers, ats, p) <=> p \in S
      BY <1>1, <2>2 DEF Moves
    <3>2. QED
      BY <1>2, <1>4, <1>5, <1>10, <2>2, <3>1 DEF Fate
  <2>3. QED
    BY <2>1, <2>2
<1>12. Moves(vers, ats, p) => Planned(p)
  BY <1>1, <1>3, <1>6 DEF Moves, Planned, m
<1>13. QED
  BY <1>10, <1>11, <1>12

\* There is a release the tree needs.
Settles(v, a) == Needed(v, a) \in SUBSET Packages /\ IsNeeded(v, a, Needed(v, a))

\* Every range that is rewritten has the version it is for.
Admits(v, a) == \A e \in Edges : ws.ops[e] # "none" => InRange(ws.ops[e], a[e], v[e.to])

\* A fate is a tree.
LEMMA FateTyped ==
    ASSUME Sources, NEW v \in Trees, NEW a \in Ranges
    PROVE  Fate(v, a) \in Trees /\ FateAts(v, a) \in Ranges
<1>1. \A p \in Packages : Final(v, p) \in Versions /\ v[p] \in Versions
  BY FinalParts DEF Trees
<1>2. \A e \in Edges : e.to \in Packages /\ a[e] \in Versions
  BY EdgeParts DEF Ranges
<1>3. QED
  BY <1>1, <1>2 DEF Fate, FateAts, Trees, Ranges

\* Those that share a version file share it with each other.
LEMMA SharerParts ==
    ASSUME ws \in Workspaces, NEW m \in Packages
    PROVE  /\ Sharers(m) \subseteq Packages /\ m \in Sharers(m)
           /\ \A g \in ws.files : \A p, q \in ToSet(g) :
                  p \in Sharers(m) => q \in Sharers(m)
           /\ \A p \in Sharers(m) : p = m \/ \E g \in ws.files : m \in ToSet(g) /\ p \in ToSet(g)
<1>1. \A g \in ws.files : g \in AllGroups /\ g \in Groups /\ ToSet(g) \subseteq Packages
  BY WorkspaceParts, GroupMembers DEF AllGroups
<1>2. \A p \in Sharers(m) : p = m \/ \E g \in ws.files : m \in ToSet(g) /\ p \in ToSet(g)
  BY DEF Sharers
<1>3. \A g \in ws.files : m \in ToSet(g) => ToSet(g) \subseteq Sharers(m)
  BY DEF Sharers
<1>4. ASSUME NEW g \in ws.files, NEW p \in ToSet(g), p \in Sharers(m)
      PROVE  m \in ToSet(g)
  <2>1. CASE p = m
    BY <2>1
  <2>2. CASE p # m
    <3>1. PICK h \in ws.files : m \in ToSet(h) /\ p \in ToSet(h)
      BY <1>2, <1>4, <2>2
    <3>2. ToSet(g) = ToSet(h)
      BY <1>1, <1>4, <3>1, OneGroup
    <3>3. QED
      BY <3>1, <3>2
  <2>3. QED
    BY <2>1, <2>2
<1>5. m \in Sharers(m)
  BY DEF Sharers
<1>6. QED
  BY <1>1, <1>2, <1>3, <1>4, <1>5

\* The members of one group that are released end at one version.
LEMMA MatesFinal ==
    ASSUME ws \in Workspaces, NEW v, NEW g, NEW p, NEW q, Takes(g, p), Takes(g, q)
    PROVE  Final(v, p) = Final(v, q)
BY TakesParts DEF Final, FinalFrom, FinalBump

\* A tree's fate agrees with itself: ranges ...
LEMMA FateAdmits ==
    ASSUME Sources, NEW v \in Trees, NEW a \in Ranges, IgnoredApart, Admits(v, a)
    PROVE  Admits(Fate(v, a), FateAts(v, a))
<1>1. ASSUME NEW e \in Edges, ws.ops[e] # "none"
      PROVE  InRange(ws.ops[e], FateAts(v, a)[e], Fate(v, a)[e.to])
  <2>1. e.to \in Packages /\ e.to \notin ws.ignored /\ ws.ops[e] \in {"caret", "exact", "none"}
    BY <1>1, EdgeParts, WorkspaceParts DEF IgnoredApart, Sources
  <2>2. Fate(v, a)[e.to] = IF e.to \in Needed(v, a) THEN Final(v, e.to) ELSE v[e.to]
    BY <2>1 DEF Fate, Moves
  <2>3. FateAts(v, a)[e] = IF Follows(v, a, e) THEN Final(v, e.to) ELSE a[e]
    BY DEF FateAts
  <2>4. InRange(ws.ops[e], Final(v, e.to), Final(v, e.to))
    BY <1>1, <2>1, FinalParts, RangeParts
  <2>5. InRange(ws.ops[e], a[e], v[e.to])
    BY <1>1 DEF Admits
  <2>6. QED
    BY <1>1, <2>2, <2>3, <2>4, <2>5 DEF Follows
<1>2. QED
  BY <1>1 DEF Admits

\* ... groups ...
Agrees(v, b) == \A g \in AllGroups :
   LET members == ToSet(g) \ ws.ignored
       moved == {p \in members : v[p] # b[p]}
       whole == IF g \in ToSet(ws.linked) \/ moved = {} THEN moved ELSE members
   IN  \A p, q \in whole : v[p] = v[q]

\* A fate that settles agrees with the tree it is the fate of.
LEMMA FateGroups ==
    ASSUME Sources, NEW v \in Trees, NEW a \in Ranges, Settles(v, a)
    PROVE  Agrees(Fate(v, a), v)
<1> DEFINE w == Fate(v, a)
           members(g) == ToSet(g) \ ws.ignored
           moved(g) == {p \in members(g) : w[p] # v[p]}
           whole(g) == IF g \in ToSet(ws.linked) \/ moved(g) = {} THEN moved(g) ELSE members(g)
<1>1. ASSUME NEW g \in AllGroups, NEW p \in whole(g)
      PROVE  Takes(g, p) /\ w[p] = Final(v, p)
  <2>0. p \in members(g) /\ p \in Packages
    <3>1. p \in members(g)
      BY <1>1
    <3>2. QED
      BY <3>1, WorkspaceParts, GroupMembers DEF Sources
  <2>1. Takes(g, p)
    BY <2>0 DEF Takes, AllGroups
  <2>2. Moves(v, a, p) <=> p \in Needed(v, a)
    BY <2>0 DEF Moves
  <2>3. p \in Needed(v, a)
    <3>1. CASE p \in moved(g)
      BY <2>0, <2>2, <3>1 DEF Fate
    <3>2. CASE p \notin moved(g)
      <4>1. g \notin ToSet(ws.linked) /\ moved(g) # {}
        BY <1>1, <3>2
      <4>2. PICK q \in moved(g) : TRUE
        BY <4>1
      <4>3. q \in members(g) /\ q \in Packages /\ w[q] # v[q]
        BY <4>2, WorkspaceParts, GroupMembers DEF Sources
      <4>4. q \in Needed(v, a)
        BY <4>3 DEF Fate, Moves
      <4>5. g \in ToSet(ws.fixed) \cup ws.files
        BY <4>1 DEF AllGroups
      <4>6. ToSet(g) \ ws.ignored \subseteq Needed(v, a)
        BY <4>3, <4>4, <4>5 DEF Settles, IsNeeded, Answers
      <4>7. QED
        BY <2>0, <4>6
    <3>3. QED
      BY <3>1, <3>2
  <2>4. QED
    BY <2>0, <2>1, <2>2, <2>3 DEF Fate
<1>2. ASSUME NEW g \in AllGroups, NEW p \in whole(g), NEW q \in whole(g) PROVE w[p] = w[q]
  <2>1. Takes(g, p) /\ Takes(g, q) /\ w[p] = Final(v, p) /\ w[q] = Final(v, q)
    BY <1>1
  <2>2. Final(v, p) = Final(v, q)
    BY <2>1, MatesFinal DEF Sources
  <2>3. QED
    BY <2>1, <2>2
<1>3. QED
  BY <1>2 DEF Agrees

\* ... and version files.
LEMMA FateShared ==
    ASSUME Sources, NEW v \in Trees, NEW a \in Ranges, IgnoredApart, Settles(v, a), Shared(v)
    PROVE  Shared(Fate(v, a))
<1>1. ASSUME NEW g \in ws.files, NEW p \in ToSet(g), NEW q \in ToSet(g)
      PROVE  Fate(v, a)[p] = Fate(v, a)[q]
  <2>1. /\ p \in Packages /\ q \in Packages /\ p \notin ws.ignored /\ q \notin ws.ignored
        /\ ToSet(g) \ ws.ignored = ToSet(g)
    BY <1>1, WorkspaceParts, GroupMembers DEF IgnoredApart, Sources
  <2>2. Takes(g, p) /\ Takes(g, q)
    BY <1>1, <2>1 DEF Takes
  <2>3. Final(v, p) = Final(v, q)
    BY <2>2, MatesFinal DEF Sources
  <2>4. ToSet(g) \cap Needed(v, a) # {} => ToSet(g) \subseteq Needed(v, a)
    BY <1>1, <2>1 DEF Settles, IsNeeded, Answers
  <2>5. p \in Needed(v, a) <=> q \in Needed(v, a)
    BY <1>1, <2>4
  <2>6. (Moves(v, a, p) <=> p \in Needed(v, a)) /\ (Moves(v, a, q) <=> q \in Needed(v, a))
    BY <2>1 DEF Moves
  <2>7. v[p] = v[q]
    BY <1>1 DEF Shared
  <2>8. QED
    BY <2>1, <2>3, <2>5, <2>6, <2>7 DEF Fate
<1>2. QED
  BY <1>1 DEF Shared

\* No range is ahead of a version it admits.
LEMMA AdmitsLags ==
    ASSUME Sources, NEW v \in Trees, NEW a \in Ranges, Admits(v, a)
    PROVE  Lags(v, a)
<1>1. ASSUME NEW e \in Edges, ws.ops[e] # "none" PROVE ~Older(v[e.to], a[e])
  <2>1. ws.ops[e] \in {"caret", "exact", "none"} /\ v[e.to] \in Versions /\ a[e] \in Versions
    BY EdgeParts, WorkspaceParts DEF Sources, Trees, Ranges
  <2>2. InRange(ws.ops[e], a[e], v[e.to])
    BY <1>1 DEF Admits
  <2>3. QED
    BY <2>1, <2>2, RangeParts
<1>2. QED
  BY <1>1 DEF Lags

\* The plan of a quiet planner takes the tree to its fate.
LEMMA QuietPlan ==
    ASSUME Context, Quiet(rel), Listed(rel, order)
    PROVE  /\ Assemble \in Seq(PlanMods)
           /\ (IgnoredApart /\ Admits(vers, ats) /\ Shared(vers)) =>
                 Settles(vers, ats) /\ PlanFits(Assemble, vers, ats)
<1>1. /\ order \in Seq(Packages) /\ ToSet(order) = DOMAIN rel /\ GoodRel(rel)
      /\ DOMAIN rel \subseteq Packages /\ Sources /\ vers \in Trees /\ ats \in Ranges
      /\ ws \in Workspaces
  BY RelParts DEF Listed, Quiet, GoodRel, Context, Sources
<1>2. /\ Assemble \in Seq(PlanMods)
      /\ \A k \in 1 .. Len(Assemble) : \E p \in DOMAIN rel : Planned(p) /\ Assemble[k] = Module(p)
      /\ \A p \in DOMAIN rel : Planned(p) => \E k \in 1 .. Len(Assemble) : Assemble[k] = Module(p)
  BY <1>1, ModuleTyped, AssembleParts
<1> DEFINE A == Assemble
           w == Fate(vers, ats)
           x == FateAts(vers, ats)
<1> HIDE DEF A
<1>3. ASSUME IgnoredApart, Admits(vers, ats), Shared(vers)
      PROVE  Settles(vers, ats) /\ PlanFits(A, vers, ats)
  <2>1. Lags(vers, ats)
    BY <1>1, <1>3, AdmitsLags
  <2>2. Settles(vers, ats) /\ Needed(vers, ats) = Releasing(rel, Packages)
    BY <2>1, QuietNeeded, NeededIs DEF Settles
  <2>3. Shared(w)
    BY <1>1, <1>3, <2>2, FateShared
  <2> HIDE DEF w, x
  <2>4. ASSUME NEW k \in 1 .. Len(A)
        PROVE  /\ \A p \in Sharers(A[k].name) : p \in Packages /\ A[k].version = w[p]
               /\ \A e \in DOMAIN A[k].ranges : A[k].ranges[e] = x[e]
    <3>1. PICK m \in DOMAIN rel : Planned(m) /\ A[k] = Module(m)
      BY <1>2 DEF A
    <3>2. /\ A[k].version = w[m] /\ A[k].name = m
          /\ A[k].ranges = [e \in Rewrites(m) |-> NewVersion(rel[e.to])]
      BY <2>1, <3>1, QuietModule DEF w
    <3>3. ASSUME NEW p \in Sharers(m) PROVE p \in Packages /\ w[m] = w[p]
      <4>1. m \in Packages
        BY <1>1
      <4>2. p \in Packages /\ (p = m \/ \E g \in ws.files : m \in ToSet(g) /\ p \in ToSet(g))
        BY <1>1, <4>1, SharerParts
      <4>3. QED
        BY <2>3, <4>2 DEF Shared
    <3>4. ASSUME NEW e \in Rewrites(m) PROVE NewVersion(rel[e.to]) = x[e]
      <4>1. e \in Edges /\ e.from = m
        BY DEF Rewrites, Links
      <4>2. Follows(vers, ats, e) /\ NewVersion(rel[e.to]) = Final(vers, e.to)
        BY <2>1, <4>1, QuietFollows
      <4>3. QED
        BY <4>1, <4>2 DEF FateAts, x
    <3>5. QED
      BY <3>2, <3>3, <3>4
  <2>5. ASSUME NEW p \in Packages, w[p] # vers[p]
        PROVE  \E k \in 1 .. Len(A) : p \in Sharers(A[k].name)
    <3>1. Moves(vers, ats, p)
      BY <2>5 DEF Fate, w
    <3>2. p \in DOMAIN rel
      BY <2>2, <3>1 DEF Moves, Releasing
    <3>3. Planned(p) /\ Module(p).name = p
      BY <2>1, <3>1, <3>2, QuietModule
    <3>4. PICK k \in 1 .. Len(A) : A[k] = Module(p)
      BY <1>2, <3>2, <3>3 DEF A
    <3>5. QED
      BY <1>1, <3>3, <3>4, SharerParts
  <2>6. ASSUME NEW e \in Edges, x[e] # ats[e]
        PROVE  \E k \in 1 .. Len(A) : e \in DOMAIN A[k].ranges
    <3>1. Follows(vers, ats, e)
      BY <2>6 DEF FateAts, x
    <3>2. e.from \in DOMAIN rel /\ e \in Rewrites(e.from)
      BY <2>1, <3>1, QuietFollows
    <3>3. Planned(e.from)
      BY <3>2 DEF Planned
    <3>4. PICK k \in 1 .. Len(A) : A[k] = Module(e.from)
      BY <1>2, <3>2, <3>3 DEF A
    <3>5. e \in DOMAIN Module(e.from).ranges
      BY <2>1, <3>2, QuietModule
    <3>6. QED
      BY <3>4, <3>5
  <2>7. QED
    BY <2>2, <2>4, <2>5, <2>6 DEF PlanFits, w, x
<1>4. QED
  BY <1>2, <1>3 DEF A
-----------------------------------------------------------------------------
\* A finite set listed in some order: each of its members, once.
LEMMA ListParts ==
    ASSUME NEW S, IsFiniteSet(S), NEW f \in SetToSeqs(S)
    PROVE  /\ f \in Seq(S) /\ ToSet(f) = S
           /\ \A j, k \in DOMAIN f : f[j] = f[k] => j = k
<1> DEFINE n == Cardinality(S)
           D == 1 .. n
<1>1. n \in Nat /\ IsFiniteSet(D) /\ Cardinality(D) = n
  <2>1. n \in Nat
    BY FS_CardinalityType
  <2>2. 1 \in Int /\ n \in Int /\ (n >= 1 => n - 1 + 1 = n) /\ (1 > n => n = 0)
    BY <2>1
  <2>3. IsFiniteSet(D) /\ Cardinality(D) = IF 1 > n THEN 0 ELSE n - 1 + 1
    BY <2>2, FS_Interval
  <2>4. QED
    BY <2>1, <2>2, <2>3
<1>2. f \in [D -> S] /\ \A j, k \in D : j # k => f[j] # f[k]
  BY DEF SetToSeqs
<1> HIDE DEF n
<1>3. f \in Injection(D, S)
  BY <1>2 DEF Injection, IsInjective
<1>4. f \in Surjection(D, S)
  BY <1>1, <1>3, FS_Injection DEF n
<1>5. \A x \in S : \E k \in D : f[k] = x
  BY <1>4 DEF Surjection
<1>6. f \in Seq(S) /\ DOMAIN f = D
  BY <1>1, <1>2
<1>7. ToSet(f) = S
  BY <1>2, <1>5, <1>6 DEF ToSet
<1>8. QED
  BY <1>2, <1>6, <1>7

\* A sequence without repetitions is as long as it has members.
LEMMA CountParts ==
    ASSUME NEW S, NEW o \in Seq(S), \A j, k \in DOMAIN o : o[j] = o[k] => j = k
    PROVE  Len(o) = Cardinality(ToSet(o))
<1> DEFINE n == Len(o)
           D == 1 .. n
           T == ToSet(o)
<1>1. n \in Nat /\ DOMAIN o = D /\ o \in [D -> T] /\ \A x \in T : \E k \in D : o[k] = x
  BY DEF ToSet
<1>2. 1 \in Int /\ n \in Int /\ (n >= 1 => n - 1 + 1 = n) /\ (1 > n => n = 0)
  BY <1>1
<1>3. IsFiniteSet(D) /\ Cardinality(D) = n
  <2>1. IsFiniteSet(D) /\ Cardinality(D) = IF 1 > n THEN 0 ELSE n - 1 + 1
    BY <1>2, FS_Interval
  <2>2. QED
    BY <1>2, <2>1
<1> HIDE DEF n, T
<1>4. o \in Surjection(D, T) /\ o \in Injection(D, T)
  BY <1>1 DEF Surjection, Injection, IsInjective
<1>5. Cardinality(T) = Cardinality(D)
  BY <1>3, <1>4, FS_Surjection
<1>6. QED
  BY <1>3, <1>5 DEF n, T

\* There are finitely many packages.
LEMMA PackagesFinite == IsFiniteSet(Packages)
<1> DEFINE n == Len(PackageSeq)
           D == 1 .. n
<1>1. /\ n \in Int /\ PackageSeq \in [D -> Packages]
      /\ \A x \in Packages : \E k \in D : PackageSeq[k] = x
  BY PackageAssumption DEF PackageAssumption, Packages, ToSet
<1>2. IsFiniteSet(D)
  BY <1>1, FS_Interval
<1>3. PackageSeq \in Surjection(D, Packages)
  BY <1>1 DEF Surjection
<1>4. QED
  BY <1>2, <1>3, FS_Surjection

\* The version files are listed whole, in any order.
LEMMA FileLists ==
    ASSUME ws \in Workspaces, NEW files \in SetToSeqs(ws.files)
    PROVE  files \in Seq(Groups) /\ ToSet(files) = ws.files
<1>1. IsFiniteSet(ws.files) /\ ws.files \in SUBSET Groups
  BY WorkspaceAssumption, WorkspaceParts DEF WorkspaceAssumption
<1>2. files \in Seq(ws.files) /\ ToSet(files) = ws.files
  BY <1>1, ListParts
<1>3. QED
  BY <1>1, <1>2

\* The modules a plan begins with: those asked for, each once.
FirstRel == [p \in Named |-> [New(p) EXCEPT !.asked = Asked(p)]]

\* The plan a version step starts with is good.
LEMMA FirstParts ==
    ASSUME Context, NEW o \in SetToSeqs(Named)
    PROVE  GoodRel(FirstRel) /\ Listed(FirstRel, o)
<1>1. Named \in SUBSET Packages /\ Sources
  BY AskedParts DEF Context
<1>2. o \in Seq(Named) /\ ToSet(o) = Named /\ \A j, k \in DOMAIN o : o[j] = o[k] => j = k
  <2>1. IsFiniteSet(Named)
    BY <1>1, PackagesFinite, FS_Subset
  <2>2. QED
    BY <2>1, ListParts
<1>3. DOMAIN FirstRel = Named /\ Listed(FirstRel, o)
  BY <1>1, <1>2 DEF FirstRel, Listed
<1>4. ASSUME NEW p \in Named
      PROVE  /\ FirstRel[p].cascade = None /\ FirstRel[p].group = Unset
             /\ Fits(FirstRel[p], p)
  <2>1. FirstRel[p] = [current |-> vers[p], asked |-> Asked(p), cascade |-> None,
                       group |-> Unset]
    BY DEF FirstRel, New
  <2>2. vers[p] \in Versions /\ Asked(p) \in Bumps
    BY <1>1, AskedParts DEF Context, Trees
  <2>3. QED
    BY <2>1, <2>2 DEF Fits, Mods
<1>5. FirstRel \in Rels
  <2>1. FirstRel \in [Named -> Mods]
    <3>1. \A p \in Named : FirstRel[p] \in Mods
      BY <1>4 DEF Fits
    <3>2. QED
      BY <3>1 DEF FirstRel
  <2>2. QED
    BY <1>1, <2>1 DEF Rels
<1>6. \A p \in Packages : Asked(p) # None => p \in Named
  BY <1>1, AskedParts
<1>7. Bound(FirstRel)
  <2>1. ASSUME NEW T, Answers(vers, ats, T), NEW p \in Releasing(FirstRel, Packages)
        PROVE  p \in T
    <3>1. p \in Packages /\ p \in Named /\ HighestBump(FirstRel[p]) # None
      BY <1>3, <2>1 DEF Releasing
    <3>2. Asked(p) # None
      BY <1>4, <3>1, ModParts
    <3>3. QED
      BY <2>1, <3>1, <3>2 DEF Answers
  <2>2. QED
    BY <2>1 DEF Bound
<1>8. QED
  BY <1>3, <1>4, <1>5, <1>6, <1>7 DEF GoodRel
-----------------------------------------------------------------------------
\* What a step that leaves the workspace and the changesets alone leaves alone.
Same == UNCHANGED <<ws, pending>>

\* Steps that keep the changesets keep what is asked for.
LEMMA SameAsked ==
    ASSUME Same
    PROVE  /\ Kept' = Kept /\ Waiting' = Waiting /\ AllGroups' = AllGroups
           /\ \A p : Asked(p)' = Asked(p)
           /\ \A g, p : Takes(g, p)' <=> Takes(g, p)
           /\ \A p : Sharers(p)' = Sharers(p)
<1>1. Kept' = Kept /\ AllGroups' = AllGroups /\ Waiting' = Waiting
  BY DEF Same, Kept, AllGroups, Waiting
<1>2. \A p : Asked(p)' = Asked(p)
  BY <1>1 DEF Same, Asked
<1>3. \A g, p : Takes(g, p)' <=> Takes(g, p)
  BY DEF Same, Takes
<1>4. \A p : Sharers(p)' = Sharers(p)
  BY DEF Same, Sharers
<1>5. QED
  BY <1>1, <1>2, <1>3, <1>4

\* And the version of a release.
LEMMA SameFinal ==
    ASSUME Same, NEW v, NEW p
    PROVE  /\ Own(v, p)' = Own(v, p) /\ (Grouped(p)' <=> Grouped(p))
           /\ FinalBump(v, p)' = FinalBump(v, p) /\ FinalFrom(v, p)' = FinalFrom(v, p)
           /\ Final(v, p)' = Final(v, p)
<1>1. \A q : Own(v, q)' = Own(v, q)
  BY SameAsked DEF Own, Same
<1>2. Grouped(p)' <=> Grouped(p)
  BY SameAsked DEF Grouped
<1>3. Mates(p)' = Mates(p)
  BY SameAsked DEF Mates
<1>4. \A names : GroupBump(v, names)' = GroupBump(v, names)
  BY <1>1 DEF GroupBump
<1>5. FinalBump(v, p)' = FinalBump(v, p)
  BY <1>1, <1>2, <1>3, <1>4 DEF FinalBump
<1>6. FinalFrom(v, p)' = FinalFrom(v, p)
  BY <1>2, <1>3 DEF FinalFrom
<1>7. Final(v, p)' = Final(v, p)
  BY <1>5, <1>6 DEF Final
<1>8. QED
  BY <1>1, <1>2, <1>5, <1>6, <1>7

\* And the fate of every tree.
LEMMA SameFate ==
    ASSUME Same, NEW v, NEW a
    PROVE  /\ \A T : Answers(v, a, T)' <=> Answers(v, a, T)
           /\ Needed(v, a)' = Needed(v, a)
           /\ Fate(v, a)' = Fate(v, a) /\ FateAts(v, a)' = FateAts(v, a)
           /\ (Settles(v, a)' <=> Settles(v, a))
           /\ (Admits(v, a)' <=> Admits(v, a)) /\ (Lags(v, a)' <=> Lags(v, a))
           /\ (Shared(v)' <=> Shared(v))
<1>1. \A p : Final(v, p)' = Final(v, p)
  BY SameFinal
<1>2. ws' = ws
  BY DEF Same
<1>3. \A T : Answers(v, a, T)' <=> Answers(v, a, T)
  BY <1>1, <1>2, SameAsked DEF Answers
<1>4. Needed(v, a)' = Needed(v, a)
  BY <1>3 DEF Needed
<1>5. Settles(v, a)' <=> Settles(v, a)
  BY <1>3, <1>4 DEF Settles, IsNeeded
<1>6. \A e : Follows(v, a, e)' <=> Follows(v, a, e)
  BY <1>1, <1>2, <1>4, SameFinal DEF Follows
<1>7. FateAts(v, a)' = FateAts(v, a)
  BY <1>1, <1>6 DEF FateAts
<1>8. \A p : Moves(v, a, p)' <=> Moves(v, a, p)
  BY <1>2, <1>4, <1>6, SameFinal DEF Moves
<1>9. Fate(v, a)' = Fate(v, a)
  BY <1>1, <1>8 DEF Fate
<1>10. (Admits(v, a)' <=> Admits(v, a)) /\ (Lags(v, a)' <=> Lags(v, a))
       /\ (Shared(v)' <=> Shared(v))
  BY <1>2 DEF Admits, Lags, Shared
<1>11. QED
  BY <1>3, <1>4, <1>5, <1>7, <1>9, <1>10

\* And whether a plan takes a tree there.
LEMMA SameFits ==
    ASSUME Same, NEW pl, NEW v, NEW a
    PROVE  PlanFits(pl, v, a)' <=> PlanFits(pl, v, a)
BY SameFate, SameAsked DEF PlanFits

\* And what one leaves alone that leaves the tree alone as well.
SameTree == Same /\ UNCHANGED <<vers, ats>>

\* Steps that keep the tree too keep what a plan in the making has come to.
LEMMA SameModules ==
    ASSUME SameTree, NEW r
    PROVE  /\ (GoodRel(r)' <=> GoodRel(r)) /\ (Cascaded(r)' <=> Cascaded(r))
           /\ (Coordinated(r)' <=> Coordinated(r)) /\ (Quiet(r)' <=> Quiet(r))
<1>1. Same /\ ws' = ws /\ vers' = vers /\ ats' = ats
  BY DEF SameTree, Same
<1>2. \A m : HighestBump(m)' = HighestBump(m)
  BY <1>1 DEF HighestBump
<1>3. \A m : NewVersion(m)' = NewVersion(m)
  BY <1>2 DEF NewVersion
<1>4. \A names : Releasing(r, names)' = Releasing(r, names)
  BY <1>2 DEF Releasing
<1>5. Cascaded(r)' <=> Cascaded(r)
  BY <1>1, <1>3, <1>4 DEF Cascaded
<1>6. Coordinated(r)' <=> Coordinated(r)
  BY <1>1, <1>4 DEF Coordinated
<1>7. \A m, p : Fits(m, p)' <=> Fits(m, p)
  <2>1. PICK v : v = vers
    OBVIOUS
  <2>2. \A p : /\ FinalBump(v, p)' = FinalBump(v, p) /\ FinalFrom(v, p)' = FinalFrom(v, p)
               /\ (Grouped(p)' <=> Grouped(p)) /\ Asked(p)' = Asked(p)
    BY <1>1, SameFinal, SameAsked
  <2>3. vers' = v
    BY <1>1, <2>1
  <2>4. QED
    BY <2>1, <2>2, <2>3 DEF Fits
<1>8. Bound(r)' <=> Bound(r)
  <2>1. PICK v, a : v = vers /\ a = ats
    OBVIOUS
  <2>2. (Lags(v, a)' <=> Lags(v, a)) /\ \A T : Answers(v, a, T)' <=> Answers(v, a, T)
    BY <1>1, SameFate
  <2>3. vers' = v /\ ats' = a
    BY <1>1, <2>1
  <2>4. QED
    BY <1>4, <2>1, <2>2, <2>3 DEF Bound
<1>9. GoodRel(r)' <=> GoodRel(r)
  BY <1>7, <1>8, <1>1, SameAsked DEF GoodRel
<1>10. QED
  BY <1>5, <1>6, <1>9 DEF Quiet
-----------------------------------------------------------------------------
\* The tree a version step starts from, and the end of its writes.
V0 == IF saved = <<>> THEN vers ELSE saved[1]
A0 == IF saved = <<>> THEN ats ELSE saved[2]
Done == saved # <<>> /\ i = Len(plan)

\* The tree and its copies.
TreeInv == Context /\ (saved = <<>> \/ saved \in Trees \X Ranges)

\* The stages of a version step: a plan is made, written and done with inside
\* it, and the copies are there from the first write to the last.
StageInv ==
    /\ phase \in {"none", "cascade", "coordinate", "planned"}
    /\ phase # "none" => RunStep("version")
    /\ saved # <<>> => phase = "planned"
    /\ saved = <<>> => todo = {}
    /\ todo \subseteq pending
    /\ Listed(rel, order)
    /\ plan \in Seq(PlanMods)
    /\ (RunStep("version") /\ phase # "planned") => i = 0
    /\ phase = "planned" => i \in 0 .. Len(plan) /\ (saved = <<>> <=> i = 0)

\* What the passes have come to.
QuietInv ==
    /\ (phase # "none" /\ saved = <<>>) => GoodRel(rel)
    /\ phase = "coordinate" => Cascaded(rel)
    /\ (phase = "planned" /\ saved = <<>>) => Quiet(rel)

\* A plan takes the tree to its fate, until it is written.
PlanInv ==
    (phase = "planned" /\ ~Done /\ Admits(V0, A0) /\ Shared(V0)) =>
        Settles(V0, A0) /\ PlanFits(plan, V0, A0)
-----------------------------------------------------------------------------
\* What the steps do to a release's versions.

\* A step of another kind.
Elsewhere ==
    /\ phase = "none" /\ (RunStep("version")' => i' = 0)
    /\ UNCHANGED <<ws, tree, planVars, saved, todo, base, goal>>

\* A process that leaves: what it wrote is put back.
Leaves ==
    /\ Exit /\ ~Done /\ vers' = V0 /\ ats' = A0
    /\ UNCHANGED <<ws, pending, base, goal>>

\* A process that is killed between its writes, or behind them.
KilledHalf == /\ Exit /\ saved # <<>> /\ "halfversioned" \in mishaps'
              /\ UNCHANGED <<ws, tree>>

\* What each step does to a release's versions.
LEMMA VersionKinds ==
    ASSUME StageInv, IndexInv, [Next]_vars
    PROVE  \/ Elsewhere \/ Planning \/ SetVersion \/ RemoveChangeset \/ VersionDone
           \/ Leaves \/ KilledHalf \/ Land \/ UNCHANGED vars
<1>1. CASE PlainStep \/ Push
  <2>1. phase = "none"
    <3>1. ~RunStep("version")
      BY <1>1 DEF PlainStep, Plain, Push, RunStep
    <3>2. QED
      BY <3>1 DEF StageInv
  <2>2. QED
    BY <1>1, <2>1 DEF PlainStep, Push, StepDone, Elsewhere
<1>2. CASE PackageStep
  <2>1. ~RunStep("version") /\ phase = "none"
    <3>1. ~RunStep("version")
      BY <1>2 DEF PackageStep, RunStep
    <3>2. QED
      BY <3>1 DEF StageInv
  <2>2. RunStep("version")' => i' = 0
    <3>1. CASE StepDone
      BY <3>1 DEF StepDone
    <3>2. CASE UNCHANGED <<at, owed>>
      BY <1>2, <2>1, <3>2 DEF PackageStep, RunStep
    <3>3. QED
      BY <1>2, <3>1, <3>2 DEF PackageStep, Advance
  <2>3. QED
    BY <1>2, <2>1, <2>2 DEF PackageStep, Elsewhere
<1>3. CASE Retry \/ OtherRun
  <2>1. PICK o : Start(o)
    BY <1>3, AnyStart
  <2>2. phase = "none" /\ i' = 0
    BY <2>1 DEF Start, StageInv, RunStep, IndexInv
  <2>3. QED
    BY <2>1, <2>2 DEF Start, Elsewhere
<1>4. CASE PackageLate \/ PublishRefused \/ StepFails
  <2>1. saved = <<>> /\ Exit
    <3>1. ~(RunStep("version") /\ phase = "planned")
      BY <1>4 DEF PackageLate, PublishRefused, Refused, StepFails, RunStep
    <3>2. QED
      BY <1>4, <3>1 DEF StageInv, PackageLate, PublishRefused, StepFails, Stop
  <2>2. QED
    BY <1>4, <2>1 DEF PackageLate, PublishRefused, StepFails, Leaves, Done, V0, A0, tree, ghosts
<1>5. CASE SetVersionFails
  <2>1. ~Done
    BY <1>5 DEF SetVersionFails, StageInv, Done
  <2>2. QED
    BY <1>5, <2>1 DEF SetVersionFails, Rollback, Stop, Leaves, V0, A0, ghosts
<1>6. CASE Finish \/ AfterHookFails
  <2>1. saved = <<>>
    <3>1. ~RunStep("version")
      <4>1. at = Len(Order) + 1
        BY <1>6 DEF Finish, AfterHookFails
      <4>2. at \notin Steps
        BY <4>1, OrderParts
      <4>3. QED
        BY <4>2 DEF RunStep
    <3>2. QED
      BY <3>1 DEF StageInv
  <2>2. QED
    BY <1>6, <2>1 DEF Finish, AfterHookFails, Leaves, Done, V0, A0, tree, ghosts
<1>7. CASE Killed
  <2>1. CASE saved = <<>>
    BY <1>7, <2>1 DEF Killed, Leaves, Done, V0, A0, tree
  <2>2. CASE saved # <<>>
    BY <1>7, <2>2 DEF Killed, KilledHalf
  <2>3. QED
    BY <2>1, <2>2
<1>8. QED
  BY <1>1, <1>2, <1>3, <1>4, <1>5, <1>6, <1>7 DEF Next, Works
-----------------------------------------------------------------------------
\* Planning ends with a plan that fits the tree.
LEMMA EmptyListed == Listed(<<>>, <<>>)
<1>1. <<>> \in Seq(Packages) /\ DOMAIN <<>> = {} /\ ToSet(<<>>) = {}
  BY DEF ToSet
<1>2. QED
  BY <1>1 DEF Listed

\* A good plan is where a pass starts.
LEMMA StartState ==
    ASSUME GoodRel(rel), Listed(rel, order)
    PROVE  [rel |-> rel, order |-> order, changed |-> FALSE] \in PlanStates
<1>1. rel \in Rels /\ order \in Seq(Packages)
  BY DEF GoodRel, Listed
<1>2. QED
  BY <1>1 DEF PlanStates

\* What a planning step does.
LEMMA PlanningParts ==
    ASSUME TreeInv, StageInv, QuietInv, Planning
    PROVE  /\ UNCHANGED <<ws, vers, ats, pending, saved, todo, run, at, i, base, goal, mishaps>>
           /\ saved = <<>> /\ i = 0 /\ RunStep("version")
           /\ Listed(rel', order') /\ GoodRel(rel')
           /\ phase' \in {"cascade", "coordinate", "planned"}
           /\ phase' = "coordinate" => Cascaded(rel')
           /\ phase' = "planned" => Quiet(rel') /\ rel' = rel /\ order' = order /\ plan' = Assemble
           /\ phase' # "planned" => plan' = plan
<1>0. /\ RunStep("version") /\ PlanNext /\ UNCHANGED <<run, at, i, saved, todo, base, goal, mishaps>>
      /\ Context /\ ws \in Workspaces
  BY DEF Planning, ghosts, TreeInv, Context, Sources
<1>1. /\ phase # "planned" /\ saved = <<>> /\ i = 0
      /\ UNCHANGED <<ws, vers, ats, pending>>
  BY <1>0 DEF PlanNext, BeginPlan, Cascade, CoordinateGroups, StageInv
<1>2. CASE BeginPlan
  <2>1. /\ order' \in SetToSeqs(Named) /\ rel' = FirstRel /\ phase' = "cascade" /\ plan' = plan
    BY <1>2 DEF BeginPlan, FirstRel
  <2>2. GoodRel(FirstRel) /\ Listed(FirstRel, order')
    BY <1>0, <2>1, FirstParts
  <2>3. QED
    BY <1>0, <1>1, <2>1, <2>2
<1>3. CASE Cascade
  <2> DEFINE st == [rel |-> rel, order |-> order, changed |-> FALSE]
             w == FoldLeft(Visit, st, order)
  <2>1. st \in PlanStates /\ st.order = order /\ st.rel = rel
    BY <1>3, <1>1, StartState DEF Cascade, QuietInv, StageInv
  <2>2. /\ rel' = w.rel /\ order' = w.order /\ plan' = plan
        /\ phase' = IF w.changed THEN "cascade" ELSE "coordinate"
    BY <1>3 DEF Cascade
  <2> HIDE DEF st
  <2>3. w \in PlanStates /\ (w.changed = FALSE => w = st /\ Cascaded(st.rel))
    BY <1>0, <2>1, CascadeParts
  <2> HIDE DEF w
  <2>4. Listed(w.rel, w.order) /\ GoodRel(w.rel) /\ w.changed \in BOOLEAN
    BY <2>3, StateParts
  <2>5. phase' = "coordinate" => Cascaded(rel')
    BY <2>1, <2>2, <2>3, <2>4
  <2>6. phase' \in {"cascade", "coordinate"}
    BY <2>2
  <2>7. QED
    BY <1>0, <1>1, <2>2, <2>4, <2>5, <2>6
<1>4. CASE CoordinateGroups
  <2> DEFINE st == [rel |-> rel, order |-> order, changed |-> FALSE]
             w(files) == FoldLeft(CoordinateGroup, st, GroupList(files))
  <2>1. st \in PlanStates /\ st.order = order /\ st.rel = rel /\ Cascaded(rel) /\ GoodRel(rel)
    BY <1>4, <1>1, StartState DEF CoordinateGroups, QuietInv, StageInv
  <2>2. PICK files \in SetToSeqs(ws.files) :
           /\ rel' = w(files).rel /\ order' = w(files).order
           /\ phase' = IF w(files).changed THEN "cascade" ELSE "planned"
    BY <1>4 DEF CoordinateGroups, GroupList
  <2>3. plan' = IF phase' = "planned" THEN Assemble ELSE plan
    BY <1>4 DEF CoordinateGroups
  <2> HIDE DEF st
  <2>4. w(files) \in PlanStates /\ (w(files).changed = FALSE => w(files) = st /\ Coordinated(st.rel))
    BY <1>0, <2>1, FileLists, GroupsParts
  <2> DEFINE u == w(files)
  <2> HIDE DEF w
  <2>5. Listed(u.rel, u.order) /\ GoodRel(u.rel) /\ u.changed \in BOOLEAN
    BY <2>4, StateParts
  <2>6. phase' = "planned" => Quiet(rel') /\ rel' = rel /\ order' = order
    BY <2>1, <2>2, <2>4, <2>5 DEF Quiet
  <2>7. phase' \in {"cascade", "planned"}
    BY <2>2
  <2>8. QED
    BY <1>0, <1>1, <2>2, <2>3, <2>5, <2>6, <2>7
<1>5. QED
  BY <1>0, <1>2, <1>3, <1>4 DEF PlanNext

\* What the tree and its copies are.
LEMMA CopyParts ==
    ASSUME TreeInv
    PROVE  /\ V0 \in Trees /\ A0 \in Ranges /\ Sources /\ ws \in Workspaces
           /\ vers \in Trees /\ ats \in Ranges /\ pending \subseteq Changesets
           /\ saved # <<>> => saved = <<V0, A0>>
BY DEF TreeInv, V0, A0, Context, Sources

\* A module that is written: a tree still, with its version files whole.
LEMMA WrittenParts ==
    ASSUME ws \in Workspaces, NEW v \in Trees, NEW m \in PlanMods
    PROVE  Written(v, m) \in Trees /\ (Shared(v) => Shared(Written(v, m)))
<1>1. m.name \in Packages /\ m.version \in Versions
  BY DEF PlanMods
<1>2. Written(v, m) \in Trees
  BY <1>1 DEF Written, Trees
<1>3. ASSUME Shared(v), NEW g \in ws.files, NEW p \in ToSet(g), NEW q \in ToSet(g)
      PROVE  Written(v, m)[p] = Written(v, m)[q]
  <2>1. p \in Packages /\ q \in Packages
    BY <1>3, WorkspaceParts, GroupMembers
  <2>2. p \in Sharers(m.name) <=> q \in Sharers(m.name)
    BY <1>1, <1>3, SharerParts
  <2>3. v[p] = v[q]
    BY <1>3 DEF Shared
  <2>4. QED
    BY <2>1, <2>2, <2>3 DEF Written
<1>4. QED
  BY <1>2, <1>3 DEF Shared

\* A write of the version step.
LEMMA SetVersionParts ==
    ASSUME TreeInv, StageInv, SetVersion
    PROVE  /\ ~Done /\ V0' = V0 /\ A0' = A0 /\ saved' # <<>> /\ saved' \in Trees \X Ranges
           /\ i' = i + 1 /\ i' \in 1 .. Len(plan) /\ i \in Nat /\ Len(plan) \in Nat
           /\ plan[i'] \in PlanMods /\ plan \in Seq(PlanMods) /\ RunStep("version")
           /\ vers' = Written(vers, plan[i']) /\ vers' \in Trees /\ ats' \in Ranges
           /\ phase = "planned" /\ (saved = <<>> <=> i = 0)
           /\ UNCHANGED <<ws, pending, phase, rel, order, plan, run, at, base, mishaps>>
<1>1. /\ i \in 0 .. Len(plan) /\ i < Len(plan) /\ i' = i + 1 /\ (saved = <<>> <=> i = 0)
      /\ plan \in Seq(PlanMods) /\ Len(plan) \in Nat /\ RunStep("version") /\ phase = "planned"
      /\ saved' = IF i = 0 THEN <<vers, ats>> ELSE saved
      /\ vers' = Written(vers, plan[i + 1])
      /\ ats' = [e \in Edges |-> IF e \in DOMAIN plan[i + 1].ranges
                                 THEN plan[i + 1].ranges[e] ELSE ats[e]]
      /\ UNCHANGED <<ws, pending, phase, rel, order, plan, run, at, base, mishaps>>
  BY DEF SetVersion, StageInv, planVars
<1>2. i + 1 \in 1 .. Len(plan) /\ plan[i + 1] \in PlanMods
  BY <1>1
<1>3. vers \in Trees /\ ats \in Ranges /\ (saved # <<>> => saved \in Trees \X Ranges)
      /\ ws \in Workspaces
  BY CopyParts DEF TreeInv
<1>4. ~Done
  BY <1>1 DEF Done
<1>5. saved' # <<>> /\ saved' \in Trees \X Ranges /\ V0' = V0 /\ A0' = A0
  <2>1. CASE i = 0
    <3>1. saved' = <<vers, ats>> /\ saved = <<>>
      BY <1>1, <2>1
    <3>2. QED
      BY <1>3, <3>1 DEF V0, A0
  <2>2. CASE i # 0
    <3>1. saved' = saved /\ saved # <<>>
      BY <1>1, <2>2
    <3>2. QED
      BY <1>3, <3>1 DEF V0, A0
  <2>3. QED
    BY <2>1, <2>2
<1>6. vers' \in Trees
  BY <1>1, <1>2, <1>3, WrittenParts
<1>7. ats' \in Ranges
  <2> DEFINE r == plan[i + 1].ranges
  <2>1. r \in RangeSets
    BY <1>2 DEF PlanMods
  <2>2. \A e \in DOMAIN r : r[e] \in Versions
    BY <2>1 DEF RangeSets
  <2>3. ats' = [e \in Edges |-> IF e \in DOMAIN r THEN r[e] ELSE ats[e]]
    BY <1>1
  <2> HIDE DEF r
  <2>4. QED
    BY <1>3, <2>2, <2>3 DEF Ranges
<1>8. QED
  BY <1>1, <1>2, <1>4, <1>5, <1>6, <1>7

\* The tree and its copies, through every step.
LEMMA TreeStep == TreeInv /\ StageInv /\ IndexInv /\ [Next]_vars => TreeInv'
<1> SUFFICES ASSUME TreeInv, StageInv, IndexInv, [Next]_vars PROVE TreeInv'
  OBVIOUS
<1>1. /\ ws \in Workspaces /\ pending \subseteq Changesets /\ vers \in Trees /\ ats \in Ranges
      /\ V0 \in Trees /\ A0 \in Ranges /\ (saved = <<>> \/ saved \in Trees \X Ranges)
  BY CopyParts DEF TreeInv
<1>2. SUFFICES /\ ws' = ws /\ pending' \subseteq Changesets /\ vers' \in Trees /\ ats' \in Ranges
               /\ saved' = <<>> \/ saved' \in Trees \X Ranges
  BY <1>1 DEF TreeInv, Context, Sources
<1>3. CASE Elsewhere
  BY <1>1, <1>3 DEF Elsewhere, tree
<1>4. CASE Planning
  BY <1>1, <1>4 DEF Planning, PlanNext, BeginPlan, Cascade, CoordinateGroups
<1>5. CASE SetVersion
  BY <1>1, <1>5, SetVersionParts
<1>6. CASE RemoveChangeset
  BY <1>1, <1>6 DEF RemoveChangeset
<1>7. CASE VersionDone
  BY <1>1, <1>7 DEF VersionDone, tree
<1>8. CASE Leaves
  BY <1>1, <1>8 DEF Leaves, Exit
<1>9. CASE KilledHalf
  BY <1>1, <1>9 DEF KilledHalf, Exit, tree
<1>10. CASE Land
  BY <1>1, <1>10, LaterAssumption DEF Land, LaterAssumption, Changesets
<1>11. CASE UNCHANGED vars
  BY <1>1, <1>11 DEF vars, tree
<1>12. QED
  BY <1>3, <1>4, <1>5, <1>6, <1>7, <1>8, <1>9, <1>10, <1>11, VersionKinds

\* The stages, through every step.
LEMMA StageStep == TreeInv /\ StageInv /\ QuietInv /\ IndexInv /\ [Next]_vars => StageInv'
<1> SUFFICES ASSUME TreeInv, StageInv, QuietInv, IndexInv, [Next]_vars PROVE StageInv'
  OBVIOUS
<1>1. <<>> \in Seq(PlanMods)
  OBVIOUS
<1>2. CASE Elsewhere
  BY <1>2 DEF Elsewhere, StageInv, tree, planVars
<1>3. CASE Planning
  <2>1. /\ UNCHANGED <<pending, saved, todo, run, at, i>> /\ saved = <<>> /\ i = 0
        /\ RunStep("version") /\ Listed(rel', order')
        /\ phase' \in {"cascade", "coordinate", "planned"}
        /\ phase' = "planned" => plan' = Assemble
        /\ phase' # "planned" => plan' = plan
    BY <1>3, PlanningParts
  <2>2. plan' \in Seq(PlanMods)
    <3>1. CASE phase' = "planned"
      <4>1. Quiet(rel) /\ Listed(rel, order)
        <5>1. PICK r, o : r = rel' /\ o = order'
          OBVIOUS
        <5>2. Quiet(rel') /\ rel' = rel /\ order' = order
          BY <1>3, <3>1, PlanningParts
        <5>3. QED
          BY <2>1, <5>2
      <4>2. QED
        BY <2>1, <3>1, <4>1, QuietPlan DEF TreeInv
    <3>2. CASE phase' # "planned"
      BY <2>1, <3>2 DEF StageInv
    <3>3. QED
      BY <3>1, <3>2
  <2>3. RunStep("version")' /\ todo' = {} /\ Len(plan') \in Nat
    BY <2>1, <2>2 DEF RunStep, StageInv
  <2>4. Listed(rel, order)'
    <3>1. PICK r, o : r = rel' /\ o = order'
      OBVIOUS
    <3>2. QED
      BY <2>1 DEF Listed
  <2>5. QED
    BY <2>1, <2>2, <2>3, <2>4 DEF StageInv
<1>4. CASE SetVersion
  <2>1. /\ saved' # <<>> /\ i' = i + 1 /\ i' \in 1 .. Len(plan) /\ phase = "planned"
        /\ RunStep("version") /\ plan \in Seq(PlanMods)
        /\ UNCHANGED <<ws, pending, phase, rel, order, plan, run, at>>
    BY <1>4, SetVersionParts
  <2>2. todo' \subseteq pending'
    BY <1>4 DEF SetVersion, StageInv
  <2>3. RunStep("version")' /\ Listed(rel, order)'
    BY <2>1 DEF RunStep, StageInv, Listed
  <2>4. QED
    BY <2>1, <2>2, <2>3 DEF StageInv
<1>5. CASE RemoveChangeset
  <2>1. /\ saved' = saved /\ saved # <<>> /\ todo' \subseteq pending' /\ RunStep("version")
        /\ phase = "planned" /\ UNCHANGED <<phase, rel, order, plan, run, at, i>>
    BY <1>5 DEF RemoveChangeset, StageInv, planVars
  <2>2. RunStep("version")' /\ Listed(rel, order)'
    BY <2>1 DEF RunStep, StageInv, Listed
  <2>3. QED
    BY <2>1, <2>2 DEF StageInv
<1>6. CASE VersionDone
  <2>1. /\ phase' = "none" /\ rel' = <<>> /\ order' = <<>> /\ plan' = <<>> /\ saved' = <<>>
        /\ i' = 0 /\ todo' = {}
    BY <1>6 DEF VersionDone, StepDone
  <2>2. Listed(rel, order)'
    BY <2>1, EmptyListed DEF Listed
  <2>3. QED
    BY <1>1, <2>1, <2>2 DEF StageInv
<1>7. CASE Leaves \/ KilledHalf
  <2>1. /\ phase' = "none" /\ rel' = <<>> /\ order' = <<>> /\ plan' = <<>> /\ saved' = <<>>
        /\ i' = 0 /\ todo' = {}
    BY <1>7 DEF Leaves, KilledHalf, Exit
  <2>2. Listed(rel, order)'
    BY <2>1, EmptyListed DEF Listed
  <2>3. QED
    BY <1>1, <2>1, <2>2 DEF StageInv
<1>8. CASE Land
  <2>1. ~run.live /\ run' = run /\ saved' = saved /\ todo' = todo /\ plan' = plan
        /\ phase' = phase /\ rel' = rel /\ order' = order /\ pending \subseteq pending'
    BY <1>8 DEF Land, planVars
  <2>2. QED
    BY <2>1 DEF StageInv, RunStep, Listed
<1>9. CASE UNCHANGED vars
  BY <1>9 DEF vars, tree, planVars, StageInv, RunStep, Listed
<1>10. QED
  BY <1>2, <1>3, <1>4, <1>5, <1>6, <1>7, <1>8, <1>9, VersionKinds
-----------------------------------------------------------------------------
\* A plan that is written up to its k-th module.
Partly(pl, v, w, k) ==
    [p \in Packages |-> IF \E j \in 1 .. k : p \in Sharers(pl[j].name) THEN w[p] ELSE v[p]]
PartlyAts(pl, a, x, k) ==
    [e \in Edges |-> IF \E j \in 1 .. k : e \in DOMAIN pl[j].ranges THEN x[e] ELSE a[e]]

\* Before the first write nothing is written.
LEMMA PartlyNone ==
    ASSUME NEW pl, NEW v \in Trees, NEW w
    PROVE  Partly(pl, v, w, 0) = v
BY DEF Partly, Trees

\* Nor is a range.
LEMMA PartlyAtsNone ==
    ASSUME NEW pl, NEW a \in Ranges, NEW x
    PROVE  PartlyAts(pl, a, x, 0) = a
BY DEF PartlyAts, Ranges

\* After the last write the tree is its fate.
LEMMA PartlyAll ==
    ASSUME Sources, NEW pl, NEW v \in Trees, NEW a \in Ranges, PlanFits(pl, v, a)
    PROVE  /\ Partly(pl, v, Fate(v, a), Len(pl)) = Fate(v, a)
           /\ PartlyAts(pl, a, FateAts(v, a), Len(pl)) = FateAts(v, a)
<1> DEFINE w == Fate(v, a)
           x == FateAts(v, a)
<1>1. /\ w \in Trees /\ x \in Ranges
      /\ \A p \in Packages : w[p] # v[p] => \E k \in 1 .. Len(pl) : p \in Sharers(pl[k].name)
      /\ \A e \in Edges : x[e] # a[e] => \E k \in 1 .. Len(pl) : e \in DOMAIN pl[k].ranges
  BY FateTyped DEF PlanFits
<1> HIDE DEF w, x
<1>2. Partly(pl, v, w, Len(pl)) = w
  BY <1>1 DEF Partly, Trees
<1>3. PartlyAts(pl, a, x, Len(pl)) = x
  BY <1>1 DEF PartlyAts, Ranges
<1>4. QED
  BY <1>2, <1>3 DEF w, x

\* A write goes one module further.
LEMMA PartlyNext ==
    ASSUME NEW pl \in Seq(PlanMods), NEW v, NEW a, PlanFits(pl, v, a), NEW k \in 1 .. Len(pl)
    PROVE  /\ Written(Partly(pl, v, Fate(v, a), k - 1), pl[k]) = Partly(pl, v, Fate(v, a), k)
           /\ [e \in Edges |-> IF e \in DOMAIN pl[k].ranges THEN pl[k].ranges[e]
                               ELSE PartlyAts(pl, a, FateAts(v, a), k - 1)[e]]
                = PartlyAts(pl, a, FateAts(v, a), k)
<1> DEFINE w == Fate(v, a)
           x == FateAts(v, a)
           S(j) == Sharers(pl[j].name)
           R(j) == DOMAIN pl[j].ranges
<1>1. /\ \A p \in S(k) : p \in Packages /\ pl[k].version = w[p]
      /\ \A e \in R(k) : pl[k].ranges[e] = x[e]
  BY DEF PlanFits
<1>2. k \in Nat /\ \A j : j \in 1 .. k <=> j = k \/ j \in 1 .. (k - 1)
  OBVIOUS
<1>3. Written(Partly(pl, v, w, k - 1), pl[k]) =
        [p \in Packages |-> IF p \in S(k) THEN pl[k].version
                            ELSE IF \E j \in 1 .. (k - 1) : p \in S(j) THEN w[p] ELSE v[p]]
  BY DEF Written, Partly
<1>4. Partly(pl, v, w, k) =
        [p \in Packages |-> IF \E j \in 1 .. k : p \in S(j) THEN w[p] ELSE v[p]]
  BY DEF Partly
<1>5. PartlyAts(pl, a, x, k - 1) =
        [e \in Edges |-> IF \E j \in 1 .. (k - 1) : e \in R(j) THEN x[e] ELSE a[e]]
  BY DEF PartlyAts
<1>6. PartlyAts(pl, a, x, k) =
        [e \in Edges |-> IF \E j \in 1 .. k : e \in R(j) THEN x[e] ELSE a[e]]
  BY DEF PartlyAts
<1>9. \A e \in R(k) : pl[k].ranges[e] = x[e]
  BY <1>1
<1>10. pl[k].version = pl[k].version /\ DOMAIN pl[k].ranges = R(k)
  OBVIOUS
<1> HIDE DEF w, x, S, R
<1>7. Written(Partly(pl, v, w, k - 1), pl[k]) = Partly(pl, v, w, k)
  BY <1>1, <1>2, <1>3, <1>4
<1>8. [e \in Edges |-> IF e \in R(k) THEN pl[k].ranges[e] ELSE PartlyAts(pl, a, x, k - 1)[e]]
        = PartlyAts(pl, a, x, k)
  BY <1>2, <1>5, <1>6, <1>9
<1>11. QED
  BY <1>7, <1>8 DEF w, x, R

\* Written out from the tree it was made for, a plan takes it to its fate.
LEMMA PlanWritten ==
    ASSUME Sources, NEW pl \in Seq(PlanMods), NEW v \in Trees, NEW a \in Ranges,
           PlanFits(pl, v, a)
    PROVE  FoldLeft(Written, v, pl) = Fate(v, a)
<1> DEFINE n == Len(pl)
           w == Fate(v, a)
<1>0. ws \in Workspaces /\ n \in Nat
  BY DEF Sources
<1>1. WrittenChainKeeps(Trees, PlanMods, pl)
  BY <1>0, WrittenParts DEF WrittenChainKeeps
<1>2. PICK f : IsWrittenChain(f, Trees, v, PlanMods, pl)
  BY <1>1, WrittenChain
<1>3. /\ f[0] = v /\ f[n] = FoldLeft(Written, v, pl)
      /\ \A k \in 1 .. n : f[k] = Written(f[k - 1], pl[k])
  BY <1>2 DEF IsWrittenChain
<1> DEFINE T == {k \in 0 .. n : f[k] = Partly(pl, v, w, k)}
<1>4. 0 \in T
  BY <1>0, <1>3, PartlyNone
<1>5. ASSUME NEW k \in 1 .. n, k - 1 \in T PROVE k \in T
  <2>1. k \in 0 .. n /\ f[k - 1] = Partly(pl, v, w, k - 1)
    BY <1>0, <1>5
  <2>2. f[k] = Written(Partly(pl, v, w, k - 1), pl[k])
    BY <1>3, <2>1
  <2>3. f[k] = Partly(pl, v, w, k)
    BY <2>2, PartlyNext
  <2>4. QED
    BY <2>1, <2>3
<1> HIDE DEF w, n
<1>6. n \in T
  <2> HIDE DEF T
  <2>1. \A k \in 0 .. n : k \in T
    BY <1>0, <1>4, <1>5, Climb
  <2>2. n \in 0 .. n
    BY <1>0
  <2>3. QED
    BY <2>1, <2>2
<1>7. f[n] = Partly(pl, v, w, n)
  BY <1>6
<1>8. QED
  BY <1>3, <1>7, PartlyAll DEF w, n
-----------------------------------------------------------------------------
\* QuietInv is inductive.
LEMMA QuietStep == TreeInv /\ StageInv /\ QuietInv /\ IndexInv /\ [Next]_vars => QuietInv'
<1> SUFFICES ASSUME TreeInv, StageInv, QuietInv, IndexInv, [Next]_vars PROVE QuietInv'
  OBVIOUS
<1>1. CASE Elsewhere
  BY <1>1 DEF Elsewhere, planVars, QuietInv
<1>2. CASE Planning
  <2>1. PICK r : r = rel'
    OBVIOUS
  <2>2. SameTree
    BY <1>2, PlanningParts DEF SameTree, Same
  <2>3. /\ GoodRel(r) /\ (phase' = "coordinate" => Cascaded(r))
        /\ (phase' = "planned" => Quiet(r))
    BY <1>2, <2>1, PlanningParts
  <2>4. /\ GoodRel(r)' /\ (phase' = "coordinate" => Cascaded(r)')
        /\ (phase' = "planned" => Quiet(r)')
    BY <2>2, <2>3, SameModules
  <2>5. QED
    BY <2>1, <2>4 DEF QuietInv
<1>3. CASE SetVersion
  <2>1. saved' # <<>> /\ phase' = "planned"
    BY <1>3, SetVersionParts
  <2>2. QED
    BY <2>1 DEF QuietInv
<1>4. CASE RemoveChangeset
  <2>1. saved' # <<>> /\ phase' = "planned"
    BY <1>4 DEF RemoveChangeset, StageInv, planVars
  <2>2. QED
    BY <2>1 DEF QuietInv
<1>5. CASE VersionDone \/ Leaves \/ KilledHalf
  <2>1. phase' = "none"
    BY <1>5 DEF VersionDone, Leaves, KilledHalf, Exit
  <2>2. QED
    BY <2>1 DEF QuietInv
<1>6. CASE Land
  <2>1. phase' = "none"
    BY <1>6 DEF Land, StageInv, RunStep, planVars
  <2>2. QED
    BY <2>1 DEF QuietInv
<1>7. CASE UNCHANGED vars
  <2>1. PICK r : r = rel
    OBVIOUS
  <2>2. SameTree /\ rel' = r /\ phase' = phase /\ saved' = saved
    BY <1>7, <2>1 DEF vars, tree, planVars, SameTree, Same
  <2>3. (GoodRel(r)' <=> GoodRel(r)) /\ (Cascaded(r)' <=> Cascaded(r)) /\ (Quiet(r)' <=> Quiet(r))
    BY <2>2, SameModules
  <2>4. QED
    BY <2>1, <2>2, <2>3 DEF QuietInv
<1>8. QED
  BY <1>1, <1>2, <1>3, <1>4, <1>5, <1>6, <1>7, VersionKinds

\* What becomes of a tree and its copies.
LEMMA CopySteps ==
    ASSUME TreeInv, StageInv, QuietInv, IndexInv, [Next]_vars
    PROVE  /\ ws' = ws
           /\ \/ /\ vers' = vers /\ ats' = ats /\ V0' = V0 /\ A0' = A0
                 /\ (Done' => Done) /\ saved' = saved
              \/ SetVersion
              \/ /\ vers' = vers /\ ats' = ats /\ V0' = vers /\ A0' = ats /\ ~Done' /\ saved' = <<>>
                 /\ \/ VersionDone
                    \/ "halfversioned" \in mishaps'
              \/ Leaves /\ ~Done /\ vers' = V0 /\ ats' = A0 /\ V0' = V0 /\ A0' = A0 /\ ~Done'
                 /\ saved' = <<>> /\ pending' = pending
<1>1. CASE Elsewhere
  <2>1. saved = <<>> /\ ws' = ws /\ vers' = vers /\ ats' = ats /\ saved' = saved
    BY <1>1 DEF Elsewhere, StageInv, tree
  <2>2. QED
    BY <2>1 DEF V0, A0, Done
<1>2. CASE Planning
  <2>1. saved = <<>> /\ ws' = ws /\ vers' = vers /\ ats' = ats /\ saved' = saved
    BY <1>2, PlanningParts
  <2>2. QED
    BY <2>1 DEF V0, A0, Done
<1>3. CASE SetVersion
  BY <1>3, SetVersionParts
<1>4. CASE RemoveChangeset
  <2>1. UNCHANGED <<ws, vers, ats, saved, i, plan>>
    BY <1>4 DEF RemoveChangeset, planVars
  <2>2. QED
    BY <2>1 DEF V0, A0, Done
<1>5. CASE VersionDone
  <2>1. UNCHANGED <<ws, vers, ats>> /\ saved' = <<>>
    BY <1>5 DEF VersionDone, tree
  <2>2. QED
    BY <1>5, <2>1 DEF V0, A0, Done
<1>6. CASE KilledHalf
  <2>1. UNCHANGED <<ws, vers, ats>> /\ saved' = <<>> /\ "halfversioned" \in mishaps'
    BY <1>6 DEF KilledHalf, Exit, tree
  <2>2. QED
    BY <2>1 DEF V0, A0, Done
<1>7. CASE Leaves
  <2>1. /\ ws' = ws /\ vers' = V0 /\ ats' = A0 /\ saved' = <<>> /\ ~Done /\ pending' = pending
    BY <1>7 DEF Leaves, Exit
  <2>2. V0' = vers' /\ A0' = ats' /\ ~Done'
    BY <2>1 DEF V0, A0, Done
  <2>3. QED
    BY <1>7, <2>1, <2>2
<1>8. CASE Land
  <2>1. UNCHANGED <<ws, vers, ats, saved, i, plan>>
    BY <1>8 DEF Land, planVars
  <2>2. QED
    BY <2>1 DEF V0, A0, Done
<1>9. CASE UNCHANGED vars
  <2>1. UNCHANGED <<ws, vers, ats, saved, i, plan>>
    BY <1>9 DEF vars, tree, planVars
  <2>2. QED
    BY <2>1 DEF V0, A0, Done
<1>10. QED
  BY <1>1, <1>2, <1>3, <1>4, <1>5, <1>6, <1>7, <1>8, <1>9, VersionKinds

\* Steps that keep the workspace keep what it says of ranges and version files.
LEMMA SameRanges ==
    ASSUME ws' = ws, NEW v, NEW a
    PROVE  (Admits(v, a)' <=> Admits(v, a)) /\ (Shared(v)' <=> Shared(v))
BY DEF Admits, Shared

\* The packages of one version file stay at one version, whatever happens.
FileInv == Shared(vers) /\ Shared(V0)

\* FileInv is inductive.
LEMMA FileStep ==
    TreeInv /\ StageInv /\ QuietInv /\ IndexInv /\ FileInv /\ [Next]_vars => FileInv'
<1> SUFFICES ASSUME TreeInv, StageInv, QuietInv, IndexInv, FileInv, [Next]_vars PROVE FileInv'
  OBVIOUS
<1>1. PICK v, u : v = vers' /\ u = V0'
  OBVIOUS
<1>2. Shared(v) /\ Shared(u)
  <2>1. CASE SetVersion
    <3>1. V0' = V0 /\ vers' = Written(vers, plan[i']) /\ plan[i'] \in PlanMods
      BY <2>1, SetVersionParts
    <3>2. PICK m : m = plan[i']
      OBVIOUS
    <3>3. Shared(Written(vers, m))
      BY <3>1, <3>2, CopyParts, WrittenParts DEF FileInv
    <3>4. QED
      BY <1>1, <3>1, <3>2, <3>3 DEF FileInv
  <2>2. CASE ~SetVersion
    <3>1. (vers' = vers \/ vers' = V0) /\ (V0' = vers \/ V0' = V0)
      BY <2>2, CopySteps
    <3>2. QED
      BY <1>1, <3>1 DEF FileInv
  <2>3. QED
    BY <2>1, <2>2
<1>3. ws' = ws
  BY CopySteps
<1>4. Shared(v)' /\ Shared(u)'
  BY <1>2, <1>3, SameRanges
<1>5. QED
  BY <1>1, <1>4 DEF FileInv

\* PlanInv is inductive.
LEMMA PlanStep ==
    ASSUME IgnoredApart, TreeInv, StageInv, QuietInv, IndexInv, PlanInv, [Next]_vars
    PROVE  PlanInv'
<1>1. CASE Elsewhere \/ VersionDone \/ Leaves \/ KilledHalf \/ Land
  <2>1. phase' = "none"
    BY <1>1 DEF Elsewhere, VersionDone, Leaves, KilledHalf, Exit, Land, planVars, StageInv, RunStep
  <2>2. QED
    BY <2>1 DEF PlanInv
<1>2. CASE Planning /\ phase' = "planned"
  <2>1. PICK v, a, pl : v = vers /\ a = ats /\ pl = Assemble
    OBVIOUS
  <2>2. /\ V0' = v /\ A0' = a /\ plan' = pl /\ Same /\ Context /\ Quiet(rel) /\ Listed(rel, order)
    <3>1. /\ UNCHANGED <<ws, vers, ats, pending, saved>> /\ saved = <<>>
          /\ Quiet(rel') /\ rel' = rel /\ Listed(rel', order') /\ order' = order
          /\ plan' = Assemble
      BY <1>2, PlanningParts
    <3>2. Quiet(rel) /\ Listed(rel, order)
      BY <3>1
    <3>3. V0' = v /\ A0' = a /\ Same
      BY <2>1, <3>1 DEF V0, A0, Same
    <3>4. QED
      BY <2>1, <3>1, <3>2, <3>3 DEF TreeInv
  <2>3. (Admits(v, a) /\ Shared(v)) => Settles(v, a) /\ PlanFits(pl, v, a)
    BY <2>1, <2>2, QuietPlan
  <2>4. /\ (Admits(v, a)' <=> Admits(v, a)) /\ (Shared(v)' <=> Shared(v))
        /\ (Settles(v, a)' <=> Settles(v, a)) /\ (PlanFits(pl, v, a)' <=> PlanFits(pl, v, a))
    BY <2>2, SameFate, SameFits
  <2>5. QED
    BY <2>2, <2>3, <2>4 DEF PlanInv
<1>3. CASE Planning /\ phase' # "planned"
  BY <1>3 DEF PlanInv
<1>4. CASE SetVersion \/ UNCHANGED vars
  <2>1. PICK v, a, pl : v = V0 /\ a = A0 /\ pl = plan
    OBVIOUS
  <2>2. V0' = v /\ A0' = a /\ plan' = pl /\ Same /\ phase' = phase /\ (~Done' => ~Done)
    <3>1. CASE SetVersion
      BY <2>1, <3>1, SetVersionParts DEF Same
    <3>2. CASE UNCHANGED vars
      BY <2>1, <3>2 DEF vars, tree, planVars, Same, V0, A0, Done
    <3>3. QED
      BY <1>4, <3>1, <3>2
  <2>3. /\ (Admits(v, a)' <=> Admits(v, a)) /\ (Shared(v)' <=> Shared(v))
        /\ (Settles(v, a)' <=> Settles(v, a)) /\ (PlanFits(pl, v, a)' <=> PlanFits(pl, v, a))
    BY <2>2, SameFate, SameFits
  <2>4. QED
    BY <2>1, <2>2, <2>3 DEF PlanInv
<1>5. CASE RemoveChangeset
  <2>1. Done'
    <3>1. saved # <<>> /\ i = Len(plan) /\ UNCHANGED <<saved, i, plan>>
      BY <1>5 DEF RemoveChangeset, StageInv, planVars
    <3>2. QED
      BY <3>1 DEF Done
  <2>2. QED
    BY <2>1 DEF PlanInv
<1>6. QED
  BY <1>1, <1>2, <1>3, <1>4, <1>5, VersionKinds
-----------------------------------------------------------------------------
\* No process was killed between two writes.
NotHalf == "halfversioned" \notin mishaps

\* Every range admits its version, but while a plan is being written.
AdmitInv == NotHalf => Admits(V0, A0) /\ (Done => Admits(vers, ats))

\* And then the tree is the plan's so far.
WriteInv ==
    (saved # <<>> /\ NotHalf /\ ~Done) =>
        /\ vers = Partly(plan, V0, Fate(V0, A0), i)
        /\ ats = PartlyAts(plan, A0, FateAts(V0, A0), i)

\* A write takes the tree one module further to its fate, and the last one there.
LEMMA NextWrite ==
    ASSUME IgnoredApart, TreeInv, StageInv, FileInv, PlanInv, AdmitInv, WriteInv, NotHalf,
           SetVersion
    PROVE  /\ Settles(V0, A0) /\ Admits(V0, A0) /\ Shared(V0)
           /\ vers' = Partly(plan, V0, Fate(V0, A0), i + 1)
           /\ ats' = PartlyAts(plan, A0, FateAts(V0, A0), i + 1)
           /\ i + 1 = Len(plan) => vers' = Fate(V0, A0) /\ ats' = FateAts(V0, A0)
           /\ FoldLeft(Written, V0, plan) = Fate(V0, A0)
           /\ i = 0 => vers = V0
<1>1. /\ ~Done /\ i \in Nat /\ i + 1 \in 1 .. Len(plan) /\ plan \in Seq(PlanMods)
      /\ phase = "planned" /\ (saved = <<>> <=> i = 0)
  <2>1. i' = i + 1 /\ i' \in 1 .. Len(plan)
    BY SetVersionParts
  <2>2. QED
    BY <2>1, SetVersionParts
<1>2. V0 \in Trees /\ A0 \in Ranges /\ Sources
  BY CopyParts
<1>3. Admits(V0, A0) /\ Shared(V0) /\ Settles(V0, A0) /\ PlanFits(plan, V0, A0)
  BY <1>1 DEF AdmitInv, FileInv, PlanInv
<1> DEFINE w == Fate(V0, A0)
           x == FateAts(V0, A0)
<1>4. /\ vers' = Written(vers, plan[i + 1])
      /\ ats' = [e \in Edges |-> IF e \in DOMAIN plan[i + 1].ranges
                                 THEN plan[i + 1].ranges[e] ELSE ats[e]]
  BY DEF SetVersion
<1>5. i = 0 => vers = V0 /\ ats = A0
  BY <1>1 DEF V0, A0
<1>6. vers = Partly(plan, V0, w, i) /\ ats = PartlyAts(plan, A0, x, i)
  <2>1. CASE i = 0
    <3>1. Partly(plan, V0, w, 0) = V0 /\ PartlyAts(plan, A0, x, 0) = A0
      BY <1>2, PartlyNone, PartlyAtsNone
    <3>2. QED
      BY <1>5, <2>1, <3>1
  <2>2. CASE i # 0
    BY <1>1, <2>2 DEF WriteInv
  <2>3. QED
    BY <2>1, <2>2
<1> DEFINE k == i + 1
<1>7. k \in 1 .. Len(plan) /\ i = k - 1
  BY <1>1
<1>8. vers' = Written(vers, plan[k])
      /\ ats' = [e \in Edges |-> IF e \in DOMAIN plan[k].ranges THEN plan[k].ranges[e] ELSE ats[e]]
  BY <1>4
<1> HIDE DEF k
<1>9. vers = Partly(plan, V0, w, k - 1) /\ ats = PartlyAts(plan, A0, x, k - 1)
  BY <1>6, <1>7
<1>10. /\ Written(Partly(plan, V0, w, k - 1), plan[k]) = Partly(plan, V0, w, k)
       /\ [e \in Edges |-> IF e \in DOMAIN plan[k].ranges THEN plan[k].ranges[e]
                           ELSE PartlyAts(plan, A0, x, k - 1)[e]] = PartlyAts(plan, A0, x, k)
  BY <1>1, <1>3, <1>7, PartlyNext
<1> HIDE DEF w, x
<1>11. vers' = Partly(plan, V0, w, k)
  BY <1>8, <1>9, <1>10
<1>12. ats' = PartlyAts(plan, A0, x, k)
  BY <1>8, <1>9, <1>10
<1>13. k = Len(plan) => vers' = w /\ ats' = x
  <2>1. Partly(plan, V0, w, Len(plan)) = w /\ PartlyAts(plan, A0, x, Len(plan)) = x
    BY <1>2, <1>3, PartlyAll DEF w, x
  <2>2. QED
    BY <1>11, <1>12, <2>1
<1>14. FoldLeft(Written, V0, plan) = w
  BY <1>1, <1>2, <1>3, PlanWritten DEF w
<1>15. QED
  BY <1>3, <1>5, <1>11, <1>12, <1>13, <1>14 DEF w, x, k

\* WriteInv is inductive.
LEMMA WriteStep ==
    ASSUME IgnoredApart, TreeInv, StageInv, QuietInv, IndexInv, FileInv, PlanInv, AdmitInv,
           WriteInv, [Next]_vars
    PROVE  WriteInv'
<1> SUFFICES ASSUME (saved # <<>> /\ NotHalf /\ ~Done)'
             PROVE  (/\ vers = Partly(plan, V0, Fate(V0, A0), i)
                     /\ ats = PartlyAts(plan, A0, FateAts(V0, A0), i))'
  BY DEF WriteInv
<1>1. NotHalf
  BY MishapsStay DEF NotHalf
<1>2. PICK v, a, pl, k : v = V0 /\ a = A0 /\ pl = plan /\ k = i'
  OBVIOUS
<1>3. CASE SetVersion
  <2>1. V0' = v /\ A0' = a /\ plan' = pl /\ Same /\ k = i + 1
    BY <1>2, <1>3, SetVersionParts DEF Same
  <2>2. vers' = Partly(pl, v, Fate(v, a), k) /\ ats' = PartlyAts(pl, a, FateAts(v, a), k)
    BY <1>1, <1>2, <1>3, <2>1, NextWrite
  <2>3. Fate(v, a)' = Fate(v, a) /\ FateAts(v, a)' = FateAts(v, a) /\ \A p : Sharers(p)' = Sharers(p)
    BY <2>1, SameFate, SameAsked
  <2>4. PICK w, x : w = Fate(v, a) /\ x = FateAts(v, a)
    OBVIOUS
  <2>5. Partly(pl, v, w, k)' = Partly(pl, v, w, k) /\ PartlyAts(pl, a, x, k)' = PartlyAts(pl, a, x, k)
    BY <2>3 DEF Partly, PartlyAts
  <2>6. Fate(V0, A0)' = w /\ FateAts(V0, A0)' = x
    BY <2>1, <2>3, <2>4
  <2>7. QED
    BY <1>2, <2>1, <2>2, <2>4, <2>5, <2>6
<1>4. CASE UNCHANGED vars
  <2>1. V0' = v /\ A0' = a /\ plan' = pl /\ Same /\ saved' = saved /\ i' = i /\ vers' = vers /\ ats' = ats
        /\ (Done' <=> Done)
    BY <1>2, <1>4 DEF vars, tree, planVars, Same, V0, A0, Done
  <2>2. vers' = Partly(pl, v, Fate(v, a), k) /\ ats' = PartlyAts(pl, a, FateAts(v, a), k)
    BY <1>1, <1>2, <2>1 DEF WriteInv
  <2>3. Fate(v, a)' = Fate(v, a) /\ FateAts(v, a)' = FateAts(v, a) /\ \A p : Sharers(p)' = Sharers(p)
    BY <2>1, SameFate, SameAsked
  <2>4. PICK w, x : w = Fate(v, a) /\ x = FateAts(v, a)
    OBVIOUS
  <2>5. Partly(pl, v, w, k)' = Partly(pl, v, w, k) /\ PartlyAts(pl, a, x, k)' = PartlyAts(pl, a, x, k)
    BY <2>3 DEF Partly, PartlyAts
  <2>6. Fate(V0, A0)' = w /\ FateAts(V0, A0)' = x
    BY <2>1, <2>3, <2>4
  <2>7. QED
    BY <1>2, <2>1, <2>2, <2>4, <2>5, <2>6
<1>5. CASE Elsewhere \/ Planning \/ VersionDone \/ Leaves \/ KilledHalf \/ Land
  <2>1. saved' = <<>>
    <3>1. CASE Elsewhere \/ Land
      BY <3>1 DEF Elsewhere, Land, StageInv, RunStep
    <3>2. CASE Planning
      BY <3>2, PlanningParts
    <3>3. CASE VersionDone \/ Leaves \/ KilledHalf
      BY <3>3 DEF VersionDone, Leaves, KilledHalf, Exit
    <3>4. QED
      BY <1>5, <3>1, <3>2, <3>3
  <2>2. QED
    BY <2>1
<1>6. CASE RemoveChangeset
  <2>1. Done'
    <3>1. saved # <<>> /\ i = Len(plan) /\ UNCHANGED <<saved, i, plan>>
      BY <1>6 DEF RemoveChangeset, StageInv, planVars
    <3>2. QED
      BY <3>1 DEF Done
  <2>2. QED
    BY <2>1
<1>7. QED
  BY <1>3, <1>4, <1>5, <1>6, VersionKinds

\* AdmitInv is inductive.
LEMMA AdmitStep ==
    ASSUME IgnoredApart, TreeInv, StageInv, QuietInv, IndexInv, FileInv, PlanInv, AdmitInv,
           WriteInv, [Next]_vars
    PROVE  AdmitInv'
<1> SUFFICES ASSUME NotHalf' PROVE Admits(V0, A0)' /\ (Done' => Admits(vers, ats)')
  BY DEF AdmitInv
<1>1. NotHalf /\ ws' = ws
  BY MishapsStay, CopySteps DEF NotHalf
<1>2. PICK v, a, u, b : v = V0' /\ a = A0' /\ u = vers' /\ b = ats'
  OBVIOUS
<1>3. Admits(v, a) /\ (Done' => Admits(u, b))
  <2>1. CASE SetVersion
    <3>1. V0' = V0 /\ A0' = A0 /\ Admits(V0, A0) /\ Settles(V0, A0)
      BY <1>1, <2>1, SetVersionParts, NextWrite
    <3>2. ASSUME Done' PROVE Admits(u, b)
      <4>1. i + 1 = Len(plan)
        BY <2>1, <3>2, SetVersionParts DEF Done
      <4>2. u = Fate(V0, A0) /\ b = FateAts(V0, A0)
        BY <1>1, <1>2, <2>1, <4>1, NextWrite
      <4>3. QED
        BY <3>1, <4>2, CopyParts, FateAdmits
    <3>3. QED
      BY <1>2, <3>1, <3>2
  <2>2. CASE ~SetVersion
    <3>1. CASE vers' = vers /\ ats' = ats /\ V0' = V0 /\ A0' = A0 /\ (Done' => Done)
      BY <1>1, <1>2, <3>1 DEF AdmitInv
    <3>2. CASE Leaves /\ V0' = V0 /\ A0' = A0 /\ ~Done'
      BY <1>1, <1>2, <3>2 DEF AdmitInv
    <3>3. CASE VersionDone /\ V0' = vers /\ A0' = ats /\ ~Done'
      <4>1. Done \/ (V0 = vers /\ A0 = ats)
        BY <3>3 DEF VersionDone, Done, V0, A0
      <4>2. Admits(vers, ats)
        BY <1>1, <4>1 DEF AdmitInv
      <4>3. QED
        BY <1>2, <3>3, <4>2
    <3>4. QED
      BY <2>2, <3>1, <3>2, <3>3, CopySteps DEF NotHalf
  <2>3. QED
    BY <2>1, <2>2
<1>4. Admits(v, a)' /\ (Done' => Admits(u, b)')
  BY <1>1, <1>3, SameRanges
<1>5. QED
  BY <1>2, <1>4
-----------------------------------------------------------------------------
\* A run that has its version step ahead has something to version.
ToVersion == run.live /\ \E k \in Enabled(run) : at <= k /\ Order[k] = "version"
\* A version step that has not written its plan has changesets waiting.
WaitInv == (ToVersion /\ ~Done) => Waiting # {}

\* WaitInv is inductive.
LEMMA WaitStep ==
    ASSUME RunInv, TreeInv, StageInv, QuietInv, IndexInv, WaitInv, [Next]_vars
    PROVE  WaitInv'
<1> SUFFICES ASSUME ToVersion', ~Done' PROVE Waiting' # {}
  BY DEF WaitInv
<1>0. run'.live /\ resume \in 0 .. Len(Order) /\ owed \subseteq Steps
  BY DEF ToVersion, RunInv
<1>1. Same => Waiting' = Waiting
  BY SameAsked
<1>2. UNCHANGED run => Enabled(run)' = Enabled(run)
  BY DEF Enabled, SkipReason
<1>3. UNCHANGED <<run, at>> => ToVersion
  BY <1>2 DEF ToVersion
<1>4. CASE Elsewhere
  <2>1. Same /\ ~Done
    BY <1>4 DEF Elsewhere, Same, tree, Done, StageInv
  <2>2. CASE Goes
    <3>1. run' = run /\ at' = NextStep(run, at) /\ at \in Steps /\ run.live
      BY <2>2 DEF Goes, StepDone
    <3>2. PICK k \in Enabled(run) : at' <= k /\ Order[k] = "version"
      BY <1>2, <3>1 DEF ToVersion
    <3>3. k \in Steps /\ NextStep(run, at) > at /\ NextStep(run, at) \in Nat
      BY <3>1, <3>2, OrderParts, NextParts
    <3>4. ToVersion
      BY <3>1, <3>2, <3>3, OrderParts DEF ToVersion
    <3>5. QED
      BY <1>1, <2>1, <3>4 DEF WaitInv
  <2>3. CASE Inside
    <3>1. ToVersion
      BY <1>3, <2>3 DEF Inside
    <3>2. QED
      BY <1>1, <2>1, <3>1 DEF WaitInv
  <2>4. CASE \E o \in Options : Starts(o)
    <3>1. PICK o \in Options : Starts(o)
      BY <2>4
    <3>2. run' = o /\ (o.empty <=> Waiting = {})
      BY <1>0, <3>1, StartParts DEF Starts
    <3>3. Enabled(run)' = Enabled(o)
      BY <3>2 DEF Enabled, SkipReason
    <3>4. PICK k \in Enabled(o) : Order[k] = "version"
      BY <3>3 DEF ToVersion
    <3>5. ~o.empty
      BY <3>4 DEF Enabled, SkipReason
    <3>6. QED
      BY <1>1, <2>1, <3>2, <3>5
  <2>5. ~Halts /\ ~Ends /\ ~Rests /\ ~Killed
    BY <1>0, NotLive DEF Halts, Ends, Rests, Killed, Exit
  <2>6. CASE UNCHANGED vars
    BY <1>1, <1>3, <2>1, <2>6 DEF vars, WaitInv
  <2>7. QED
    BY <1>0, <2>2, <2>3, <2>4, <2>5, <2>6, StepKinds
<1>5. CASE Planning
  <2>1. Same /\ UNCHANGED <<run, at>> /\ ~Done
    BY <1>5, PlanningParts DEF Same, Done
  <2>2. QED
    BY <1>1, <1>3, <2>1 DEF WaitInv
<1>6. CASE SetVersion
  <2>1. Same /\ UNCHANGED <<run, at>> /\ ~Done
    BY <1>6, SetVersionParts DEF Same
  <2>2. QED
    BY <1>1, <1>3, <2>1 DEF WaitInv
<1>7. CASE RemoveChangeset
  <2>1. saved # <<>> /\ i = Len(plan) /\ UNCHANGED <<saved, i, plan>>
    BY <1>7 DEF RemoveChangeset, StageInv, planVars
  <2>2. QED
    BY <2>1 DEF Done
<1>8. CASE VersionDone
  <2>1. run' = run /\ at' = NextStep(run, at) /\ at \in Steps /\ Order[at] = "version"
    BY <1>8 DEF VersionDone, StepDone, RunStep
  <2>2. PICK k \in Enabled(run) : at' <= k /\ Order[k] = "version"
    BY <1>2, <2>1 DEF ToVersion
  <2>3. k \in Steps /\ NextStep(run, at) > at /\ NextStep(run, at) \in Nat
    BY <2>1, <2>2, OrderParts, NextParts
  <2>4. k = at
    BY <2>1, <2>2, <2>3, OrderParts
  <2>5. QED
    BY <2>1, <2>2, <2>3, <2>4, OrderParts
<1>9. ~Leaves /\ ~KilledHalf /\ ~Land
  BY <1>0, NotLive DEF Leaves, KilledHalf, Exit, Land
<1>10. CASE UNCHANGED vars
  <2>1. Same /\ UNCHANGED <<run, at>> /\ (Done' <=> Done)
    BY <1>10 DEF vars, tree, planVars, Same, Done
  <2>2. QED
    BY <1>1, <1>3, <2>1 DEF WaitInv
<1>11. QED
  BY <1>4, <1>5, <1>6, <1>7, <1>8, <1>9, <1>10, VersionKinds
-----------------------------------------------------------------------------
\* Where the tree stands in its release, when no kill cut a version step short
\* and no changeset was left behind: before its plan is written at the version
\* the release started from, then at the one its first plan named.
Clean == mishaps \cap {"halfversioned", "left"} = {}

GoalInv == Clean =>
    /\ Done => todo = pending \ Kept /\ vers = goal
    /\ ~Done => /\ Waiting # {} => V0 = base /\ goal \in {base, Fate(V0, A0)}
                /\ Waiting = {} => vers = goal
                /\ saved # <<>> => goal = Fate(V0, A0)

\* GoalInv is inductive.
LEMMA GoalStep ==
    ASSUME IgnoredApart, RunInv, TreeInv, StageInv, QuietInv, IndexInv, FileInv, PlanInv,
           AdmitInv, WriteInv, WaitInv, GoalInv, [Next]_vars
    PROVE  GoalInv'
<1> SUFFICES ASSUME Clean'
             PROVE  (/\ Done => todo = pending \ Kept /\ vers = goal
                     /\ ~Done => /\ Waiting # {} => V0 = base /\ goal \in {base, Fate(V0, A0)}
                                 /\ Waiting = {} => vers = goal
                                 /\ saved # <<>> => goal = Fate(V0, A0))'
  BY DEF GoalInv
<1>0. Clean /\ NotHalf
  BY MishapsStay DEF Clean, NotHalf
<1>1. PICK v, a : v = V0 /\ a = A0
  OBVIOUS
<1>2. Same => Waiting' = Waiting /\ Kept' = Kept /\ Fate(v, a)' = Fate(v, a)
  BY SameAsked, SameFate
<1>3. RunStep("version") => ToVersion
  <2>1. ASSUME RunStep("version") PROVE at \in Enabled(run) /\ at <= at
    BY <2>1, OrderParts DEF RunStep, RunInv
  <2>2. QED
    BY <2>1 DEF RunStep, ToVersion
<1>4. CASE Elsewhere \/ Planning
  <2>1. Same /\ saved = <<>> /\ UNCHANGED <<saved, vers, ats, base, goal>>
    BY <1>4, PlanningParts DEF Elsewhere, Same, tree, StageInv
  <2>2. V0' = v /\ A0' = a /\ ~Done' /\ ~Done
    BY <1>1, <2>1 DEF V0, A0, Done
  <2>3. QED
    BY <1>0, <1>1, <1>2, <2>1, <2>2 DEF GoalInv
<1>5. CASE SetVersion
  <2>1. /\ ~Done /\ RunStep("version") /\ V0' = v /\ A0' = a /\ saved' # <<>> /\ i' = i + 1
        /\ Same /\ base' = base /\ plan' = plan /\ (saved = <<>> <=> i = 0)
    BY <1>1, <1>5, SetVersionParts DEF Same
  <2>2. Waiting # {}
    BY <1>3, <2>1 DEF WaitInv
  <2>3. v = base /\ goal \in {base, Fate(v, a)} /\ (saved # <<>> => goal = Fate(v, a))
    BY <1>0, <1>1, <2>1, <2>2 DEF GoalInv
  <2>4. goal' = Fate(v, a)
    <3>1. CASE i = 0 /\ goal = base
      <4>1. goal' = FoldLeft(Written, vers, plan) /\ vers = V0
        BY <1>0, <1>5, <3>1, NextWrite DEF SetVersion
      <4>2. FoldLeft(Written, V0, plan) = Fate(V0, A0)
        BY <1>0, <1>5, NextWrite
      <4>3. QED
        BY <1>1, <4>1, <4>2
    <3>2. CASE ~(i = 0 /\ goal = base)
      <4>1. goal' = goal
        BY <1>5, <3>2 DEF SetVersion
      <4>2. QED
        BY <2>1, <2>3, <3>2, <4>1
    <3>3. QED
      BY <3>1, <3>2
  <2>5. ASSUME Done' PROVE vers' = Fate(v, a) /\ todo' = pending \ Kept
    <3>1. i + 1 = Len(plan)
      BY <2>1, <2>5 DEF Done
    <3>2. vers' = Fate(V0, A0)
      BY <1>0, <1>5, <3>1, NextWrite
    <3>3. todo' = pending \ Kept
      BY <1>5, <2>1, <3>1 DEF SetVersion
    <3>4. QED
      BY <1>1, <3>2, <3>3
  <2>6. pending' = pending
    BY <2>1 DEF Same
  <2>7. QED
    BY <1>2, <2>1, <2>2, <2>3, <2>4, <2>5, <2>6
<1>6. CASE RemoveChangeset
  <2>1. /\ Done /\ Done' /\ ws' = ws /\ UNCHANGED <<vers, goal>>
    <3>1. saved # <<>> /\ i = Len(plan) /\ UNCHANGED <<saved, i, plan, ws, vers, goal>>
      BY <1>6 DEF RemoveChangeset, StageInv, planVars
    <3>2. QED
      BY <3>1 DEF Done
  <2>2. todo = pending \ Kept /\ vers = goal
    BY <1>0, <2>1 DEF GoalInv
  <2>3. PICK c \in todo : todo' = todo \ {c} /\ pending' = pending \ {c}
    BY <1>6 DEF RemoveChangeset, Clean
  <2>4. todo' = pending' \ Kept'
    BY <2>1, <2>2, <2>3 DEF Kept
  <2>5. QED
    BY <2>1, <2>2, <2>4
<1>7. CASE VersionDone
  <2>1. /\ Same /\ UNCHANGED <<vers, ats, base, goal>> /\ saved' = <<>> /\ todo = {}
        /\ saved = <<>> \/ Done
    BY <1>7 DEF VersionDone, Same, tree, Done
  <2>2. V0' = vers /\ A0' = ats /\ ~Done'
    BY <2>1 DEF V0, A0, Done
  <2>3. CASE saved = <<>>
    <3>1. V0' = v /\ A0' = a /\ ~Done
      BY <1>1, <2>2, <2>3 DEF V0, A0, Done
    <3>2. QED
      BY <1>0, <1>1, <1>2, <2>1, <2>2, <3>1 DEF GoalInv
  <2>4. CASE Done
    <3>1. vers = goal /\ pending \ Kept = {}
      BY <1>0, <2>1, <2>4 DEF GoalInv
    <3>2. Waiting = {}
      BY <3>1 DEF Waiting
    <3>3. QED
      BY <1>2, <2>1, <2>2, <3>1, <3>2
  <2>5. QED
    BY <2>1, <2>3, <2>4
<1>8. CASE Leaves
  <2>1. /\ Same /\ ~Done /\ vers' = v /\ ats' = a /\ saved' = <<>> /\ UNCHANGED <<base, goal>>
    BY <1>1, <1>8 DEF Leaves, Exit, Same
  <2>2. V0' = v /\ A0' = a /\ ~Done'
    BY <2>1 DEF V0, A0, Done
  <2>3. ASSUME Waiting = {} PROVE v = goal
    <3>1. saved = <<>>
      BY <1>3, <2>1, <2>3 DEF WaitInv, StageInv
    <3>2. QED
      BY <1>0, <1>1, <2>1, <2>3, <3>1 DEF GoalInv, V0
  <2>4. QED
    BY <1>0, <1>1, <1>2, <2>1, <2>2, <2>3 DEF GoalInv
<1>9. ~KilledHalf
  BY DEF KilledHalf, Clean
<1>10. CASE Land
  <2>1. saved = <<>> /\ saved' = <<>> /\ vers' = vers /\ base' = vers /\ goal' = vers
    BY <1>10 DEF Land, StageInv, RunStep
  <2>2. V0' = vers /\ ~Done'
    BY <2>1 DEF V0, Done
  <2>3. QED
    BY <2>1, <2>2
<1>11. CASE UNCHANGED vars
  <2>1. Same /\ UNCHANGED <<vers, ats, base, goal, saved, todo, pending, i, plan>>
    BY <1>11 DEF vars, tree, planVars, ghosts, Same
  <2>2. V0' = v /\ A0' = a /\ (Done' <=> Done)
    BY <1>1, <2>1 DEF V0, A0, Done
  <2>3. QED
    BY <1>0, <1>1, <1>2, <2>1, <2>2 DEF GoalInv
<1>12. QED
  BY <1>4, <1>5, <1>6, <1>7, <1>8, <1>9, <1>10, <1>11, VersionKinds
-----------------------------------------------------------------------------
\* Between version steps a group that moved is together.
GroupInv == (Clean /\ (saved = <<>> \/ Done)) => Agrees(vers, base)

\* A tree agrees with itself.
LEMMA AgreesWithItself == \A v : Agrees(v, v)
BY DEF Agrees

\* GroupInv is inductive.
LEMMA GroupStep ==
    ASSUME IgnoredApart, RunInv, TreeInv, StageInv, QuietInv, IndexInv, FileInv, PlanInv,
           AdmitInv, WriteInv, WaitInv, GoalInv, GroupInv, [Next]_vars
    PROVE  GroupInv'
<1> SUFFICES ASSUME Clean', (saved = <<>> \/ Done)' PROVE Agrees(vers, base)'
  BY DEF GroupInv
<1>0. Clean /\ NotHalf /\ ws' = ws
  BY MishapsStay, CopySteps DEF Clean, NotHalf
<1>1. PICK u, b : u = vers' /\ b = base'
  OBVIOUS
<1>2. SUFFICES Agrees(u, b)
  <2>1. AllGroups' = AllGroups
    BY <1>0 DEF AllGroups
  <2>2. Agrees(u, b)' <=> Agrees(u, b)
    BY <1>0, <2>1 DEF Agrees
  <2>3. QED
    BY <1>1, <2>2
<1>3. RunStep("version") => ToVersion
  <2>1. ASSUME RunStep("version") PROVE at \in Enabled(run) /\ at <= at
    BY <2>1, OrderParts DEF RunStep, RunInv
  <2>2. QED
    BY <2>1 DEF RunStep, ToVersion
<1>4. CASE Elsewhere \/ Planning \/ VersionDone
  <2>1. UNCHANGED <<vers, base>> /\ (saved = <<>> \/ Done)
    BY <1>4, PlanningParts DEF Elsewhere, tree, StageInv, VersionDone, Done
  <2>2. QED
    BY <1>0, <1>1, <2>1 DEF GroupInv
<1>5. CASE SetVersion
  <2>1. saved' # <<>> /\ ~Done /\ i' = i + 1 /\ plan' = plan /\ base' = base /\ RunStep("version")
    BY <1>5, SetVersionParts
  <2>2. i + 1 = Len(plan)
    BY <2>1 DEF Done
  <2>3. u = Fate(V0, A0) /\ Settles(V0, A0)
    BY <1>0, <1>1, <1>5, <2>2, NextWrite
  <2>4. V0 = b
    <3>1. Waiting # {}
      BY <1>3, <2>1 DEF WaitInv
    <3>2. QED
      BY <1>0, <1>1, <2>1, <3>1 DEF GoalInv
  <2>5. Agrees(Fate(V0, A0), V0)
    BY <2>3, CopyParts, FateGroups
  <2>6. QED
    BY <2>3, <2>4, <2>5
<1>6. CASE RemoveChangeset
  <2>1. Done /\ UNCHANGED <<vers, base>>
    BY <1>6 DEF RemoveChangeset, StageInv, Done
  <2>2. QED
    BY <1>0, <1>1, <2>1 DEF GroupInv
<1>7. CASE Leaves
  <2>1. ~Done /\ vers' = V0 /\ base' = base
    BY <1>7 DEF Leaves
  <2>2. CASE saved = <<>>
    BY <1>0, <1>1, <2>1, <2>2 DEF GroupInv, V0
  <2>3. CASE saved # <<>>
    <3>1. Waiting # {}
      BY <1>3, <2>1, <2>3 DEF WaitInv, StageInv
    <3>2. V0 = base
      BY <1>0, <2>1, <3>1 DEF GoalInv
    <3>3. QED
      BY <1>1, <2>1, <3>2, AgreesWithItself
  <2>4. QED
    BY <2>2, <2>3
<1>8. ~KilledHalf
  BY DEF KilledHalf, Clean
<1>9. CASE Land
  BY <1>1, <1>9, AgreesWithItself DEF Land
<1>10. CASE UNCHANGED vars
  <2>1. UNCHANGED <<vers, base, saved, i, plan>>
    BY <1>10 DEF vars, tree, planVars, ghosts
  <2>2. QED
    BY <1>0, <1>1, <2>1 DEF GroupInv, Done
<1>11. QED
  BY <1>4, <1>5, <1>6, <1>7, <1>8, <1>9, <1>10, VersionKinds
-----------------------------------------------------------------------------
\* What TypeOK asks of the rest.
RunTyped == run \in Options /\ at \in 0 .. (Len(Order) + 1)
            /\ DOMAIN head = Packages /\ remote \subseteq tags

\* RunTyped is inductive.
LEMMA TypedStep == RunInv /\ TreeInv /\ RunTyped /\ [Next]_vars => RunTyped'
<1> SUFFICES ASSUME RunInv, TreeInv, RunTyped, [Next]_vars PROVE RunTyped'
  OBVIOUS
<1>1. DOMAIN head' = Packages /\ remote' \subseteq tags'
  <2>1. DOMAIN vers = Packages
    BY CopyParts DEF Trees
  <2>2. DOMAIN head' = Packages
    BY <2>1, Effects DEF RunTyped
  <2>3. tags \subseteq tags' /\ (remote' = remote \/ (remote' = remote \cup tags /\ tags' = tags))
    BY Effects
  <2>4. QED
    BY <2>2, <2>3 DEF RunTyped
<1>2. CASE run'.live
  <2>1. run' \in Options /\ at' \in Enabled(run)' \cup {Len(Order) + 1}
    BY <1>2, RunStepInv DEF RunInv
  <2>2. Enabled(run)' \subseteq Steps
    BY DEF Enabled
  <2>3. QED
    BY <1>1, <2>1, <2>2, OrderParts DEF RunTyped
<1>3. CASE ~run'.live
  <2>1. Exit \/ UNCHANGED <<run, at>>
    <3>1. ~Retry
      BY <1>3 DEF Retry, Start
    <3>2. ~OtherRun
      <4>1. ASSUME OtherRun PROVE FALSE
        <5>1. PICK from \in 0 .. Len(Order), to \in 0 .. Len(Order),
                   skip \in {{}} \cup {{k} : k \in Steps}, force \in BOOLEAN :
                Start([from |-> from, to |-> to, skip |-> skip, force |-> force,
                       empty |-> Waiting = {}, live |-> TRUE])
          BY <4>1 DEF OtherRun
        <5> DEFINE o == [from |-> from, to |-> to, skip |-> skip, force |-> force,
                         empty |-> Waiting = {}, live |-> TRUE]
        <5>2. Start(o) /\ o.live
          BY <5>1
        <5> HIDE DEF o
        <5>3. run' = o
          BY <5>2 DEF Start
        <5>4. QED
          BY <1>3, <5>2, <5>3
      <4>2. QED
        BY <4>1
    <3>3. Planning \/ SetVersion \/ RemoveChangeset \/ Land \/ UNCHANGED vars => UNCHANGED <<run, at>>
      BY DEF Planning, SetVersion, RemoveChangeset, Land, vars
    <3>4. ~VersionDone /\ ~PlainStep /\ ~Push /\ ~PackageStep
      BY <1>3 DEF VersionDone, RunStep, PlainStep, Push, PackageStep
    <3>5. SetVersionFails \/ PackageLate \/ PublishRefused \/ StepFails \/ Finish \/ AfterHookFails
             \/ Killed => Exit
      BY DEF SetVersionFails, PackageLate, PublishRefused, StepFails, Stop, Finish,
             AfterHookFails, Killed
    <3>6. QED
      BY <3>1, <3>2, <3>3, <3>4, <3>5 DEF Next, Works
  <2>2. Idle \in Options /\ 0 \in 0 .. (Len(Order) + 1)
    BY OrderParts DEF Idle, Options
  <2>3. QED
    BY <1>1, <2>1, <2>2 DEF Exit, RunTyped
<1>4. QED
  BY <1>2, <1>3
-----------------------------------------------------------------------------
\* The beginning.
LEMMA InitParts ==
    ASSUME Init
    PROVE  /\ RunInv /\ IndexInv /\ TreeInv /\ StageInv /\ QuietInv /\ RunTyped
           /\ FileInv /\ PlanInv /\ AdmitInv /\ WriteInv /\ WaitInv /\ GoalInv /\ GroupInv
<1>1. ws \in Workspaces /\ vers = ws.versions /\ pending = ws.changesets
      /\ ats = [e \in Edges |-> ws.versions[e.to]] /\ phase = "none" /\ rel = <<>> /\ order = <<>>
      /\ plan = <<>> /\ run = Idle /\ at = 0 /\ i = 0 /\ saved = <<>> /\ todo = {} /\ resume = 0
      /\ head = vers /\ remote = tags /\ base = vers /\ goal = vers /\ owed = {} /\ mishaps = {}
  BY DEF Init
<1>2. vers \in Trees /\ pending \subseteq Changesets
  BY <1>1, WorkspaceParts
<1>3. ats \in Ranges
  BY <1>1, <1>2, EdgeParts DEF Trees, Ranges
<1>4. ~run.live /\ run \in Options
  BY <1>1, OrderParts DEF Idle, Options
<1>5. RunInv /\ IndexInv /\ RunTyped
  BY <1>1, <1>2, <1>4, OrderParts DEF RunInv, IndexInv, RunTyped, Trees
<1>6. TreeInv /\ V0 = vers /\ A0 = ats /\ ~Done
  BY <1>1, <1>2, <1>3 DEF TreeInv, Context, Sources, V0, A0, Done
<1>7. StageInv
  <2>1. <<>> \in Seq(PlanMods)
    OBVIOUS
  <2>2. QED
    BY <1>1, <1>4, <2>1, EmptyListed DEF StageInv, RunStep
<1>8. QuietInv /\ PlanInv /\ WriteInv /\ WaitInv
  BY <1>1, <1>4 DEF QuietInv, PlanInv, WriteInv, WaitInv, ToVersion
<1>9. FileInv
  BY <1>1, <1>6, FileAssumption DEF FileInv, Shared, FileAssumption
<1>10. Admits(vers, ats)
  <2>1. ASSUME NEW e \in Edges, ws.ops[e] # "none" PROVE InRange(ws.ops[e], ats[e], vers[e.to])
    <3>1. ws.ops[e] \in {"caret", "exact", "none"} /\ ats[e] = vers[e.to] /\ vers[e.to] \in Versions
      BY <1>1, <1>2, EdgeParts, WorkspaceParts DEF Trees
    <3>2. QED
      BY <2>1, <3>1, RangeParts
  <2>2. QED
    BY <2>1 DEF Admits
<1>11. AdmitInv /\ GoalInv /\ GroupInv
  BY <1>1, <1>6, <1>10, AgreesWithItself DEF AdmitInv, GoalInv, GroupInv
<1>12. QED
  BY <1>5, <1>6, <1>7, <1>8, <1>9, <1>11
-----------------------------------------------------------------------------
\* The inductive invariants: of the run, its plan and its transaction, and of
\* the versions.
RunnerInv == RunInv /\ IndexInv /\ TreeInv /\ StageInv /\ QuietInv /\ FileInv /\ RunTyped
VersionsInv == PlanInv /\ AdmitInv /\ WriteInv /\ WaitInv /\ GoalInv /\ GroupInv

\* What holds whatever is ignored is inductive together.
LEMMA RunnerStep == RunnerInv /\ [Next]_vars => RunnerInv'
BY RunStepInv, IndexStep, TreeStep, StageStep, QuietStep, FileStep, TypedStep DEF RunnerInv

\* And so is what is known of the versions, where ignored packages are apart.
LEMMA VersionsStep ==
    ASSUME IgnoredApart, RunnerInv, VersionsInv, [Next]_vars
    PROVE  VersionsInv'
BY PlanStep, AdmitStep, WriteStep, WaitStep, GoalStep, GroupStep DEF RunnerInv, VersionsInv

\* TypeOK: every variable keeps its type, the plan's modules are those in its
\* order, each once, and the transaction's copies are there only while the
\* version step writes (planner.go: order and releases; version.go).
THEOREM TypesHold == Spec => []TypeOK
<1>1. Init => RunnerInv
  BY InitParts DEF RunnerInv
<1>2. RunnerInv /\ [Next]_vars => RunnerInv'
  BY RunnerStep
<1>3. RunnerInv => TypeOK
  <2> SUFFICES ASSUME RunnerInv PROVE TypeOK
    OBVIOUS
  <2>1. run \in Options /\ at \in 0 .. (Len(Order) + 1) /\ DOMAIN head = Packages /\ remote \subseteq tags
    BY DEF RunnerInv, RunTyped
  <2>2. i \in Nat /\ resume \in 0 .. Len(Order) /\ owed \subseteq Steps
    BY DEF RunnerInv, IndexInv, RunInv
  <2>3. DOMAIN vers = Packages /\ DOMAIN ats = Edges /\ pending \subseteq [name : Packages, bump : Bumps]
    BY CopyParts DEF RunnerInv, Trees, Ranges, Changesets
  <2>4. /\ phase \in {"none", "cascade", "coordinate", "planned"} /\ todo \subseteq pending
        /\ saved # <<>> => RunStep("version") /\ phase = "planned"
        /\ Listed(rel, order)
    BY DEF RunnerInv, StageInv
  <2>5. DOMAIN rel = ToSet(order) /\ Len(order) = Cardinality(ToSet(order))
    BY <2>4, CountParts DEF Listed
  <2>6. QED
    BY <2>1, <2>2, <2>3, <2>4, <2>5 DEF TypeOK
<1>4. QED
  BY <1>1, <1>2, <1>3, PTL DEF Spec

\* The invariants of the versions, for the theorems below.
LEMMA VersionsHold == ASSUME IgnoredApart PROVE Spec => [](RunnerInv /\ VersionsInv)
<1>1. Init => RunnerInv /\ VersionsInv
  BY InitParts DEF RunnerInv, VersionsInv
<1>2. RunnerInv /\ VersionsInv /\ [Next]_vars => (RunnerInv /\ VersionsInv)'
  BY RunnerStep, VersionsStep
<1>3. QED
  BY <1>1, <1>2, PTL DEF Spec

\* PlanIsLeast: whatever the edges, the groups, the changesets and their order,
\* a finished plan releases the least set of packages that answers for itself
\* at the versions planned (planner.go: Plan).
THEOREM LeastPlan == ASSUME IgnoredApart PROVE Spec => []PlanIsLeast
<1>1. RunnerInv /\ VersionsInv => PlanIsLeast
  <2> SUFFICES ASSUME RunnerInv, VersionsInv, phase = "planned", saved = <<>>, NotHalf
               PROVE  LET S == Releasing(rel, Packages)
                      IN  ClosedUnder(S) /\ \A T \in SUBSET S : ClosedUnder(T) => T = S
    BY DEF PlanIsLeast, NotHalf
  <2>1. Context /\ Quiet(rel) /\ Sources /\ vers \in Trees /\ ats \in Ranges
    BY CopyParts DEF RunnerInv, TreeInv, QuietInv
  <2>2. Admits(vers, ats)
    BY DEF VersionsInv, AdmitInv, V0, A0
  <2>3. Lags(vers, ats)
    BY <2>1, <2>2, AdmitsLags
  <2>4. QED
    BY <2>1, <2>3, QuietLeast
<1>2. QED
  BY <1>1, VersionsHold, PTL

\* BumpedOnce: over any failures, retries and kills but one between two writes,
\* a package is at the version its release started from or at the one its first
\* plan named (version.go: the file transaction).
THEOREM NeverBumpedTwice == ASSUME IgnoredApart PROVE Spec => []BumpedOnce
<1>1. RunnerInv /\ VersionsInv => BumpedOnce
  <2> SUFFICES ASSUME RunnerInv, VersionsInv, Clean, NEW p \in Packages
               PROVE  vers[p] \in {base[p], goal[p]}
    BY DEF BumpedOnce, Clean
  <2>0. GoalInv /\ WriteInv /\ NotHalf /\ StageInv
    BY DEF VersionsInv, RunnerInv, Clean, NotHalf
  <2>1. CASE Done \/ Waiting = {}
    BY <2>0, <2>1 DEF GoalInv
  <2>2. CASE ~Done /\ Waiting # {} /\ saved = <<>>
    BY <2>0, <2>2 DEF GoalInv, V0
  <2>3. CASE ~Done /\ Waiting # {} /\ saved # <<>>
    <3>1. V0 = base /\ goal = Fate(V0, A0) /\ vers = Partly(plan, V0, Fate(V0, A0), i)
      BY <2>0, <2>3 DEF GoalInv, WriteInv
    <3>2. \A w, u : Partly(plan, u, w, i)[p] \in {u[p], w[p]}
      BY DEF Partly
    <3>3. QED
      BY <3>1, <3>2
  <2>4. QED
    BY <2>1, <2>2, <2>3
<1>2. QED
  BY <1>1, VersionsHold, PTL

\* TreeAgrees: between version steps every range admits the version of its
\* dependency and every group that moved is at one version (planner.go: Plan;
\* version.go: what it writes, module by module).
THEOREM TreeHolds == ASSUME IgnoredApart PROVE Spec => []TreeAgrees
<1>1. RunnerInv /\ VersionsInv => TreeAgrees
  <2> SUFFICES ASSUME RunnerInv, VersionsInv, saved = <<>>, Clean PROVE TreeAgrees
    BY DEF TreeAgrees, Clean
  <2>1. Admits(vers, ats)
    BY DEF VersionsInv, AdmitInv, V0, A0, Clean, NotHalf
  <2>2. Agrees(vers, base)
    BY DEF VersionsInv, GroupInv
  <2>3. ToSet(ws.fixed) \cup ToSet(ws.linked) \cup ws.files = AllGroups
    BY DEF AllGroups
  <2>4. QED
    BY <2>1, <2>2, <2>3 DEF TreeAgrees, Admits, Agrees
<1>2. QED
  BY <1>1, VersionsHold, PTL
=============================================================================
