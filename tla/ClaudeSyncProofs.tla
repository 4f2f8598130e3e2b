-------------------------- MODULE ClaudeSyncProofs --------------------------
(***************************************************************************)
(* Proofs about ClaudeSync, for any machines, processes and bounds.        *)
(***************************************************************************)
EXTENDS ClaudeSync, TLAPS

(* The accesses to .sync.lock keep the types.                               *)
LEMMA TypeLock ==
  ASSUME TypeOK, NEW p \in Procs, LockStep(p)
  PROVE  TypeOK'
<1> USE DEF LockStep, TypeOK, Labels, InTree, Step, Goto, runVars, lockVars, repoVars, counts
<1>0. Home[p] \in Machines
  BY ClaudeAssumption DEF ClaudeAssumption
<1>1. CASE TakeLock(p)
  BY <1>0, <1>1 DEF TakeLock, Create
<1>2. CASE WriteToken(p)
  BY <1>0, <1>2 DEF WriteToken, Enter
<1>3. CASE Judge(p)
  BY <1>0, <1>3 DEF Judge
<1>4. CASE Break(p)
  BY <1>0, <1>4 DEF Break, RemoveLock
<1>5. CASE Retake(p)
  BY <1>0, <1>5 DEF Retake, Create
<1>6. CASE Release(p)
  BY <1>0, <1>6, ClaudeAssumption DEF Release, Forget, ClaudeAssumption, Commands
<1>7. CASE Unlock(p)
  BY <1>0, <1>7 DEF Unlock, RemoveLock
<1>8. QED
  BY <1>1, <1>2, <1>3, <1>4, <1>5, <1>6, <1>7

(* The look for a merge in progress keeps the types.                        *)
LEMMA TypeRepair ==
  ASSUME TypeOK, NEW p \in Procs, Repair(p)
  PROVE  TypeOK'
<1>1. pc' \in [Procs -> Labels]
  BY DEF Repair, TypeOK, Step, Goto, Labels, InTree
<1>2. at' \in [Procs -> {"repair", "diverged"}]
  BY DEF Repair, TypeOK
<1>3. QED
  BY <1>1, <1>2 DEF Repair, TypeOK, lockVars, repoVars, counts

(* No clone is without a commit.                                            *)
Rooted == \A m \in Machines : head[m] # {}

(* Every process runs on a machine.                                         *)
LEMMA HomeType == \A p \in Procs : Home[p] \in Machines
  BY ClaudeAssumption DEF ClaudeAssumption

(* Faults stay below their bound.                                           *)
LEMMA FaultType == ASSUME TypeOK, Fault PROVE faults' \in 0..MaxFaults
  BY ClaudeAssumption DEF ClaudeAssumption, TypeOK, Fault

(* Wherever a reconcile returns to is a place in a command.                 *)
LEMMA ReturnsType ==
  ASSUME NEW p \in Procs, NEW u \in BOOLEAN
  PROVE  Returns(p) \in Labels /\ Fails(p, u) \in Labels
BY DEF Returns, Fails, Labels, InTree

(* A process that moves to a place stays in one.                            *)
LEMMA GotoType ==
  ASSUME TypeOK, NEW p \in Procs, NEW to \in Labels, Goto(p, to)
  PROVE  pc' \in [Procs -> Labels]
BY DEF TypeOK, Goto

Merges == [state : {"none", "clean", "conflicted", "hard", "resolved"}, theirs : SUBSET Commits]

(* The absence of a merge is typed like a merge.                            *)
LEMMA NoMergeType == NoMerge \in Merges
BY DEF Merges, NoMerge

(* A fetch and merge keeps the types.                                       *)
LEMMA TypeReconcile ==
  ASSUME TypeOK, NEW p \in Procs, Reconcile(p)
  PROVE  TypeOK'
<1> DEFINE m == Home[p]
<1>0. m \in Machines
  BY HomeType
<1>1. pc' \in [Procs -> Labels]
  <2>1. PICK to \in Labels : Goto(p, to)
    BY ReturnsType DEF Reconcile, StartMerge, Step, Labels, InTree
  <2>2. QED
    BY <2>1, GotoType
<1>2. merge' \in [Machines -> Merges]
  <2>1. merge \in [Machines -> Merges] /\ remote \in SUBSET Commits
    BY DEF TypeOK, Merges
  <2>2. \A s \in {"clean", "conflicted", "hard"} : [state |-> s, theirs |-> remote] \in Merges
    BY <2>1 DEF Merges
  <2>3. QED
    BY <1>0, <2>1, <2>2 DEF Reconcile, StartMerge
<1>3. notes' \in [Machines -> {"committed", "dirty"}]
  BY <1>0 DEF TypeOK, Reconcile, NoteFailure, Note
<1>4. faults' \in 0..MaxFaults
  BY FaultType DEF TypeOK, Reconcile
<1>5. QED
  BY <1>1, <1>2, <1>3, <1>4 DEF TypeOK, Reconcile, Merges, runVars, lockVars

(* Settling or aborting a merge keeps the types.                            *)
LEMMA TypeResolve ==
  ASSUME TypeOK, NEW p \in Procs, Resolve(p)
  PROVE  TypeOK'
<1> DEFINE m == Home[p]
<1>0. m \in Machines
  BY HomeType
<1>1. pc' \in [Procs -> Labels]
  <2>1. PICK to \in Labels : Goto(p, to)
    BY ReturnsType DEF Resolve, Step, Labels, InTree
  <2>2. QED
    BY <2>1, GotoType
<1>2. merge' \in [Machines -> Merges]
  <2>1. merge \in [Machines -> Merges] /\ merge[m] \in Merges
    BY <1>0 DEF TypeOK, Merges
  <2>2. [merge[m] EXCEPT !.state = "resolved"] \in Merges
    BY <2>1 DEF Merges
  <2>3. CASE SetMerge(m, "resolved")
    BY <1>0, <2>1, <2>2, <2>3 DEF SetMerge
  <2>4. CASE merge' = [merge EXCEPT ![m] = NoMerge]
    BY <1>0, <2>1, <2>4, NoMergeType
  <2>5. CASE UNCHANGED merge
    BY <2>1, <2>5
  <2>6. QED
    BY <2>3, <2>4, <2>5 DEF Resolve
<1>3. tree' \in [Machines -> SUBSET (1..MaxCaptures)]
  BY <1>0 DEF TypeOK, Resolve
<1>4. notes' \in [Machines -> {"committed", "dirty"}]
  BY <1>0 DEF TypeOK, Resolve, NoteFailure, Note
<1>5. QED
  BY <1>1, <1>2, <1>3, <1>4 DEF TypeOK, Resolve, Merges, runVars, lockVars, counts

(* Committing a merge, or refusing to, keeps the types.                     *)
LEMMA TypeFinish ==
  ASSUME TypeOK, NEW p \in Procs, FinishMerge(p)
  PROVE  TypeOK'
<1> DEFINE m == Home[p]
<1>0. m \in Machines
  BY HomeType
<1>1. pc' \in [Procs -> Labels]
  <2>1. Merging(m) \in BOOLEAN
    BY DEF Merging
  <2>2. PICK to \in Labels : Goto(p, to)
    BY <2>1, ReturnsType DEF FinishMerge, Step
  <2>3. QED
    BY <2>2, GotoType
<1>2. merge \in [Machines -> Merges]
  BY DEF TypeOK, Merges
<1>3. merge' \in [Machines -> Merges]
  BY <1>0, <1>2, NoMergeType DEF FinishMerge
<1>4. head' \in [Machines -> SUBSET Commits]
  BY <1>0, <1>2 DEF TypeOK, FinishMerge, Merges
<1>5. notes' \in [Machines -> {"committed", "dirty"}]
  BY <1>0 DEF TypeOK, FinishMerge, NoteFailure, Note
<1>6. faults' \in 0..MaxFaults
  BY FaultType DEF TypeOK, FinishMerge
<1>7. QED
  BY <1>1, <1>3, <1>4, <1>5, <1>6 DEF TypeOK, FinishMerge, Merges, runVars, lockVars

(* The ff-only pull keeps the types.                                        *)
LEMMA TypeFastForward ==
  ASSUME TypeOK, NEW p \in Procs, FastForward(p)
  PROVE  TypeOK'
<1> DEFINE m == Home[p]
<1>0. m \in Machines
  BY HomeType
<1>1. pc' \in [Procs -> Labels]
  <2>1. PICK to \in Labels : Goto(p, to)
    BY DEF FastForward, Step, Labels, InTree
  <2>2. QED
    BY <2>1, GotoType
<1>2. at' \in [Procs -> {"repair", "diverged"}]
  BY DEF TypeOK, FastForward
<1>3. head' \in [Machines -> SUBSET Commits]
  BY <1>0 DEF TypeOK, FastForward
<1>4. notes' \in [Machines -> {"committed", "dirty"}]
  BY <1>0 DEF TypeOK, FastForward, Note
<1>5. faults' \in 0..MaxFaults
  BY FaultType DEF TypeOK, FastForward
<1>6. QED
  BY <1>1, <1>2, <1>3, <1>4, <1>5 DEF TypeOK, FastForward, lockVars

-----------------------------------------------------------------------------
(* What a capture and a fold add to a history are commits.                  *)
LEMMA AddingType ==
  ASSUME NEW h \in SUBSET Commits, NEW facts \in SUBSET (0..Markers), h # {}
  PROVE  Adding(h, facts) \in SUBSET Commits
<1>1. Root(h) \in 0..MaxRewrites
  BY DEF Root, Commits
<1>2. QED
  BY <1>1 DEF Adding, Commits

(* A folded history consists of commits.                                    *)
LEMMA RewrittenType ==
  ASSUME NEW h \in SUBSET Commits, NEW root \in 0..MaxRewrites
  PROVE  Rewritten(h, root) \in SUBSET Commits
BY DEF Rewritten, Facts, Commits

(* A fold changes the root of a history and none of its facts.              *)
LEMMA RewrittenFacts == \A h, root : Facts(Rewritten(h, root)) = Facts(h)
<1> TAKE h, root
<1>1. ASSUME NEW f \in Facts(h) PROVE f \in Facts(Rewritten(h, root))
  <2>1. <<root, f>> \in Rewritten(h, root)
    BY DEF Rewritten
  <2>2. QED
    BY <2>1 DEF Facts
<1>2. ASSUME NEW f \in Facts(Rewritten(h, root)) PROVE f \in Facts(h)
  <2>1. PICK c \in Rewritten(h, root) : f = c[2]
    BY DEF Facts
  <2>2. PICK g \in Facts(h) : c = <<root, g>>
    BY DEF Rewritten
  <2>3. QED
    BY <2>1, <2>2
<1>3. QED
  BY <1>1, <1>2

(* A capture keeps the types.                                               *)
LEMMA TypeCapture ==
  ASSUME TypeOK, NEW p \in Procs, Capture(p)
  PROVE  TypeOK'
<1> DEFINE m == Home[p]
<1>0. m \in Machines /\ MaxCaptures \in Nat
  BY HomeType, ClaudeAssumption DEF ClaudeAssumption
<1>1. pc' \in [Procs -> Labels]
  BY GotoType DEF Capture, Step, Labels, InTree
<1>2. taken' \in 0..MaxCaptures /\ tree' \in [Machines -> SUBSET (1..MaxCaptures)]
  BY <1>0 DEF TypeOK, Capture
<1>3. notes' \in [Machines -> {"committed", "dirty"}]
  BY <1>0 DEF TypeOK, Capture, Note
<1>4. QED
  BY <1>1, <1>2, <1>3 DEF TypeOK, Capture, runVars, lockVars

(* Publish's commit keeps the types.                                        *)
LEMMA TypeCommit ==
  ASSUME TypeOK, Rooted, NEW p \in Procs, Commit(p)
  PROVE  TypeOK'
<1> DEFINE m == Home[p]
           left == IF merge[m].state \in {"conflicted", "hard"} THEN {Markers} ELSE {}
<1>0. m \in Machines /\ MaxCaptures \in Nat /\ PushAttempts \in Nat
  BY HomeType, ClaudeAssumption DEF ClaudeAssumption
<1>1. pc' \in [Procs -> Labels]
  BY GotoType DEF Commit, CommitThen, Step, Labels, InTree
<1>2. head' \in [Machines -> SUBSET Commits]
  <2>1. head[m] \in SUBSET Commits /\ head[m] # {} /\ merge[m].theirs \in SUBSET Commits
    BY <1>0 DEF TypeOK, Rooted
  <2>2. tree[m] \cup left \in SUBSET (0..Markers)
    BY <1>0 DEF TypeOK, Markers
  <2>3. Adding(head[m], tree[m] \cup left) \cup merge[m].theirs \in SUBSET Commits
    BY <2>1, <2>2, AddingType
  <2>4. QED
    BY <1>0, <2>3 DEF TypeOK, Commit, CommitThen
<1>3. tree' \in [Machines -> SUBSET (1..MaxCaptures)]
  BY <1>0 DEF TypeOK, Commit, CommitThen
<1>4. notes' \in [Machines -> {"committed", "dirty"}]
  BY <1>0 DEF TypeOK, Commit, CommitThen, Note
<1>5. merge' \in [Machines -> Merges]
  BY <1>0, NoMergeType DEF TypeOK, Commit, CommitThen, Merges
<1>6. tries' \in [Procs -> 0..PushAttempts]
  BY <1>0 DEF TypeOK, Commit, CommitThen
<1>7. faults' \in 0..MaxFaults
  BY FaultType DEF TypeOK, Commit, CommitThen
<1>8. QED
  BY <1>1, <1>2, <1>3, <1>4, <1>5, <1>6, <1>7 DEF TypeOK, Commit, CommitThen, Merges, lockVars

(* A push, accepted, rejected or failing, keeps the types.                  *)
LEMMA TypePush ==
  ASSUME TypeOK, NEW p \in Procs, Push(p)
  PROVE  TypeOK'
<1> DEFINE m == Home[p]
<1>0. m \in Machines /\ PushAttempts \in Nat
  BY HomeType, ClaudeAssumption DEF ClaudeAssumption
<1>1. pc' \in [Procs -> Labels]
  <2>1. PICK to \in Labels : Goto(p, to)
    BY DEF Push, Step, Labels, InTree
  <2>2. QED
    BY <2>1, GotoType
<1>2. remote' \in SUBSET Commits
  BY <1>0 DEF TypeOK, Push
<1>3. tries' \in [Procs -> 0..PushAttempts]
  BY <1>0 DEF TypeOK, Push
<1>4. at' \in [Procs -> {"repair", "diverged"}]
  BY DEF TypeOK, Push
<1>5. notes' \in [Machines -> {"committed", "dirty"}]
  BY <1>0 DEF TypeOK, Push, Note
<1>6. faults' \in 0..MaxFaults
  BY FaultType DEF TypeOK, Push
<1>7. QED
  BY <1>1, <1>2, <1>3, <1>4, <1>5, <1>6 DEF TypeOK, Push, lockVars

(* History maintenance keeps the types.                                     *)
LEMMA TypeFold ==
  ASSUME TypeOK, NEW p \in Procs, Maintain(p) \/ Fold(p) \/ ForcePush(p)
  PROVE  TypeOK'
<1> DEFINE m == Home[p]
<1>0. m \in Machines /\ MaxRewrites \in Nat
  BY HomeType, ClaudeAssumption DEF ClaudeAssumption
<1>1. pc' \in [Procs -> Labels]
  <2>1. PICK to \in Labels : Goto(p, to)
    BY DEF Maintain, Fold, ForcePush, Step, Labels, InTree
  <2>2. QED
    BY <2>1, GotoType
<1>2. notes' \in [Machines -> {"committed", "dirty"}]
  BY <1>0 DEF TypeOK, Maintain, Fold, ForcePush, Note
<1>3. faults' \in 0..MaxFaults
  BY FaultType DEF TypeOK, Maintain, Fold, ForcePush
<1>4. CASE Maintain(p)
  BY <1>1, <1>2, <1>3, <1>4 DEF TypeOK, Maintain, runVars, lockVars
<1>5. CASE Fold(p)
  <2>1. rewrites' \in 0..MaxRewrites
    BY <1>0, <1>5 DEF TypeOK, Fold
  <2>2. head[m] \in SUBSET Commits
    BY <1>0 DEF TypeOK
  <2>3. head' \in [Machines -> SUBSET Commits]
    BY <1>0, <1>5, <2>1, <2>2, RewrittenType DEF TypeOK, Fold
  <2>4. QED
    BY <1>1, <1>2, <1>3, <1>5, <2>1, <2>3 DEF TypeOK, Fold, runVars, lockVars
<1>6. CASE ForcePush(p)
  <2>1. remote' \in SUBSET Commits
    BY <1>0, <1>6 DEF TypeOK, ForcePush
  <2>2. QED
    BY <1>1, <1>2, <1>3, <1>6, <2>1 DEF TypeOK, ForcePush, runVars, lockVars
<1>7. QED
  BY <1>4, <1>5, <1>6

(* The look and the leased push of a prune keep the types.                  *)
LEMMA TypePrune ==
  ASSUME TypeOK, NEW p \in Procs, PruneStep(p)
  PROVE  TypeOK'
<1>0. Home[p] \in Machines
  BY HomeType
<1>1. pc' \in [Procs -> Labels]
  <2>1. PICK to \in Labels : Goto(p, to)
    BY DEF PruneStep, Look, LeasePush, Step, Labels, InTree
  <2>2. QED
    BY <2>1, GotoType
<1>2. CASE Look(p)
  BY <1>1, <1>2 DEF TypeOK, Look, lockVars, repoVars, counts
<1>3. CASE LeasePush(p)
  <2>1. faults' \in 0..MaxFaults
    BY <1>3, FaultType DEF TypeOK, LeasePush
  <2>2. remote' \in SUBSET Commits
    BY <1>0, <1>3 DEF TypeOK, LeasePush
  <2>3. QED
    BY <1>1, <1>3, <2>1, <2>2 DEF TypeOK, LeasePush, runVars, lockVars
<1>4. QED
  BY <1>2, <1>3 DEF PruneStep

(* The start of a command keeps the types.                                  *)
LEMMA TypeStart ==
  ASSUME TypeOK, NEW p \in Procs, Start(p)
  PROVE  TypeOK'
<1>1. pc' \in [Procs -> Labels]
  <2>1. PICK to \in Labels : Goto(p, to)
    BY DEF Start, StartSync, StartPull, StartPrune, StartWindow, Begin, Step, Labels, InTree
  <2>2. QED
    BY <2>1, GotoType
<1>2. mode' \in [Procs -> Commands]
  BY DEF TypeOK, Start, StartSync, StartPull, StartPrune, StartWindow, Begin, Commands
<1>3. company' \in {"apart", "overlapped"}
  BY DEF TypeOK, Start, StartSync, StartPull, StartPrune, StartWindow, Begin, Enter
<1>4. UNCHANGED <<at, tries, lease, lockVars, repoVars, counts>>
  BY DEF Start, StartSync, StartPull, StartPrune, StartWindow, Begin
<1>5. QED
  BY <1>1, <1>2, <1>3, <1>4 DEF TypeOK, lockVars, repoVars, counts

(* A kill keeps the types.                                                  *)
LEMMA TypeCrash ==
  ASSUME TypeOK, NEW p \in Procs, Crash(p)
  PROVE  TypeOK'
<1>0. Home[p] \in Machines /\ PushAttempts \in Nat
  BY HomeType, ClaudeAssumption DEF ClaudeAssumption
<1>1. pc' \in [Procs -> Labels]
  BY GotoType DEF Crash, Labels, InTree
<1>2. /\ mode' \in [Procs -> Commands]
      /\ at' \in [Procs -> {"repair", "diverged"}]
      /\ tries' \in [Procs -> 0..PushAttempts]
      /\ lease' \in [Procs -> SUBSET Commits]
  BY <1>0 DEF TypeOK, Crash, Forget, Commands
<1>3. maker' \in [Machines -> Procs \cup {Nobody, Gone}]
  BY <1>0 DEF TypeOK, Crash
<1>4. faults' \in 0..MaxFaults
  BY FaultType DEF Crash
<1>5. QED
  BY <1>1, <1>2, <1>3, <1>4 DEF TypeOK, Crash, repoVars

(* The first state is well typed, with a commit in every clone.             *)
LEMMA TypeInit == Init => TypeOK /\ Rooted
<1> SUFFICES ASSUME Init PROVE TypeOK /\ Rooted
  OBVIOUS
<1>1. <<0, First>> \in Commits
  BY ClaudeAssumption DEF ClaudeAssumption, Commits, First, Markers
<1>2. /\ head \in [Machines -> SUBSET Commits]
      /\ merge \in [Machines -> Merges]
      /\ remote \in SUBSET Commits
  BY <1>1, NoMergeType DEF Init
<1>3. /\ taken \in 0..MaxCaptures /\ rewrites \in 0..MaxRewrites /\ faults \in 0..MaxFaults
      /\ tries \in [Procs -> 0..PushAttempts]
  BY ClaudeAssumption DEF ClaudeAssumption, Init
<1>4. TypeOK
  BY <1>2, <1>3 DEF Init, TypeOK, Merges, Labels, InTree, Commands
<1>5. QED
  BY <1>4 DEF Init, Rooted

-----------------------------------------------------------------------------
(* No step takes a fact out of a clone's history.                           *)
LEMMA HeadGrows ==
  ASSUME TypeOK, NEW p \in Procs, Start(p) \/ Continue(p) \/ Crash(p), NEW m \in Machines
  PROVE  Facts(head[m]) \subseteq Facts(head'[m])
<1>1. CASE head'[m] = head[m]
  BY <1>1
<1>2. CASE head[m] \subseteq head'[m]
  BY <1>2 DEF Facts
<1>3. CASE Fold(p)
  <2>1. head'[m] = head[m] \/ head'[m] = Rewritten(head[m], rewrites')
    BY <1>3 DEF Fold, TypeOK
  <2>2. QED
    BY <1>1, <2>1, RewrittenFacts
<1>4. CASE Commit(p) \/ FinishMerge(p) \/ FastForward(p)
  <2>1. head \in [Machines -> SUBSET Commits]
    BY DEF TypeOK
  <2>2. CASE Commit(p)
    <3>1. CASE head'[m] # head[m]
      <4>1. PICK facts : head'[m] = Adding(head[m], facts) \cup merge[m].theirs
        BY <2>1, <2>2, <3>1 DEF Commit, CommitThen
      <4>2. QED
        BY <1>2, <4>1 DEF Adding
    <3>2. QED
      BY <1>1, <3>1
  <2>3. CASE FinishMerge(p)
    BY <1>2, <2>1, <2>3 DEF FinishMerge
  <2>4. CASE FastForward(p)
    BY <1>2, <2>1, <2>4 DEF FastForward
  <2>5. QED
    BY <1>4, <2>2, <2>3, <2>4
<1>5. CASE Start(p) \/ LockStep(p) \/ PruneStep(p) \/ Crash(p)
  <2>1. UNCHANGED head
    BY <1>5 DEF Start, StartSync, StartPull, StartPrune, StartWindow, Begin, LockStep, TakeLock,
                WriteToken, Judge, Break, Retake, Release, Unlock, PruneStep, Look, LeasePush,
                Crash, repoVars
  <2>2. QED
    BY <2>1
<1>6. CASE Repair(p) \/ Reconcile(p) \/ Resolve(p) \/ Capture(p) \/ Push(p) \/ Maintain(p) \/ ForcePush(p)
  <2>1. UNCHANGED head
    BY <1>6 DEF Repair, Reconcile, Resolve, Capture, Push, Maintain, ForcePush, repoVars
  <2>2. QED
    BY <2>1
<1>7. QED
  BY <1>3, <1>4, <1>5, <1>6 DEF Continue, MergeStep, PublishStep

(* No step leaves a clone without a commit.                                 *)
LEMMA RootedStep ==
  ASSUME TypeOK, Rooted, NEW p \in Procs, Start(p) \/ Continue(p) \/ Crash(p)
  PROVE  Rooted'
<1> SUFFICES ASSUME NEW m \in Machines PROVE head'[m] # {}
  BY DEF Rooted
<1>1. PICK c \in head[m] : TRUE
  BY DEF Rooted
<1>2. c[2] \in Facts(head'[m])
  BY <1>1, HeadGrows DEF Facts
<1>3. QED
  BY <1>2 DEF Facts

(* Every step of the system keeps the types.                                *)
LEMMA TypeStep == TypeOK /\ Rooted /\ [Next]_vars => TypeOK' /\ Rooted'
<1> SUFFICES ASSUME TypeOK, Rooted, [Next]_vars PROVE TypeOK' /\ Rooted'
  OBVIOUS
<1>1. CASE UNCHANGED vars
  BY <1>1 DEF vars, runVars, lockVars, repoVars, counts, TypeOK, Rooted
<1>2. ASSUME NEW p \in Procs, Start(p) \/ Continue(p) \/ Crash(p) PROVE TypeOK' /\ Rooted'
  <2>1. TypeOK'
    BY <1>2, TypeStart, TypeCrash, TypeLock, TypePrune, TypeRepair, TypeReconcile, TypeResolve,
       TypeFinish, TypeFastForward, TypeCapture, TypeCommit, TypePush, TypeFold
       DEF Continue, MergeStep, PublishStep
  <2>2. QED
    BY <1>2, <2>1, RootedStep
<1>3. QED
  BY <1>1, <1>2 DEF Next

(* Every reachable state is well typed.                                     *)
THEOREM TypeCorrect == Spec => []TypeOK
<1>1. Spec => [](TypeOK /\ Rooted)
  BY TypeInit, TypeStep, PTL DEF Spec
<1>2. QED
  BY <1>1, PTL

-----------------------------------------------------------------------------
(* Uncommitted captures: a step keeps them, commits them, or aborts a merge.*)
LEMMA WorkStays ==
  ASSUME TypeOK, NEW p \in Procs, Start(p) \/ Continue(p) \/ Crash(p), NEW m \in Machines
  PROVE  tree[m] \subseteq Work(m)' \/ Aborts(m)
<1>1. CASE tree[m] \subseteq tree'[m]
  BY <1>1 DEF Work
<1>2. CASE Capture(p)
  BY <1>1, <1>2 DEF Capture, TypeOK
<1>3. CASE Commit(p)
  <2>1. CASE tree'[m] # tree[m]
    <3>1. tree[m] \subseteq 1..MaxCaptures /\ head \in [Machines -> SUBSET Commits] /\ MaxCaptures \in Nat
      BY ClaudeAssumption DEF TypeOK, ClaudeAssumption
    <3>2. m = Home[p]
      BY <1>3, <2>1 DEF Commit, CommitThen, TypeOK
    <3>3. PICK left : head'[m] = Adding(head[m], tree[m] \cup left) \cup merge[m].theirs
      BY <1>3, <2>1, <3>1, <3>2 DEF Commit, CommitThen
    <3>4. ASSUME NEW f \in tree[m] PROVE f \in Captures(head'[m])
      <4>1. <<Root(head[m]), f>> \in head'[m]
        BY <3>3 DEF Adding
      <4>2. f \in Facts(head'[m])
        BY <4>1 DEF Facts
      <4>3. f # Markers
        BY <3>1 DEF Markers
      <4>4. QED
        BY <4>2, <4>3 DEF Captures
    <3>5. QED
      BY <3>4 DEF Work
  <2>2. QED
    BY <1>1, <2>1
<1>4. CASE Resolve(p)
  <2>1. tree \in [Machines -> SUBSET (1..MaxCaptures)] /\ merge \in [Machines -> Merges]
    BY DEF TypeOK, Merges
  <2>2. CASE tree'[m] # tree[m]
    BY <1>4, <2>1, <2>2 DEF Resolve, Aborts
  <2>3. QED
    BY <1>1, <2>2
<1>5. CASE Start(p) \/ LockStep(p) \/ PruneStep(p) \/ Crash(p)
  <2>1. UNCHANGED tree
    BY <1>5 DEF Start, StartSync, StartPull, StartPrune, StartWindow, Begin, LockStep, TakeLock,
                WriteToken, Judge, Break, Retake, Release, Unlock, PruneStep, Look, LeasePush,
                Crash, repoVars
  <2>2. QED
    BY <1>1, <2>1
<1>6. CASE \/ Repair(p) \/ Reconcile(p) \/ FinishMerge(p) \/ FastForward(p)
           \/ Push(p) \/ Maintain(p) \/ Fold(p) \/ ForcePush(p)
  <2>1. UNCHANGED tree
    BY <1>6 DEF Repair, Reconcile, FinishMerge, FastForward, Push, Maintain, Fold, ForcePush, repoVars
  <2>2. QED
    BY <1>1, <2>1
<1>7. QED
  BY <1>2, <1>3, <1>4, <1>5, <1>6 DEF Continue, MergeStep, PublishStep

(* No command drops what a clone has committed, however many share it; what *)
(* is not committed goes only with an aborted merge.                        *)
THEOREM ClonesKeep == Spec => ClonesKeepTheirWork
<1> DEFINE Keeps == \A m \in Machines : /\ Captures(head[m]) \subseteq Captures(head'[m])
                                        /\ Work(m) \subseteq Work(m)' \/ Aborts(m)
<1>1. TypeOK /\ [Next]_vars => [Keeps]_vars
  <2> SUFFICES ASSUME TypeOK, NEW p \in Procs, Start(p) \/ Continue(p) \/ Crash(p), NEW m \in Machines
               PROVE  /\ Captures(head[m]) \subseteq Captures(head'[m])
                      /\ Work(m) \subseteq Work(m)' \/ Aborts(m)
    BY DEF Next
  <2>1. Captures(head[m]) \subseteq Captures(head'[m])
    BY HeadGrows DEF Captures
  <2>2. QED
    BY <2>1, WorkStays DEF Work
<1>2. QED
  BY <1>1, TypeCorrect, PTL DEF Spec, ClonesKeepTheirWork

-----------------------------------------------------------------------------
(* What a prune has seen of the remote stays in its clone until it pushes.  *)
Seen == \A p \in Procs :
          pc[p] = "lease" \/ (pc[p] = "fold" /\ mode[p] = "prune")
            => Captures(lease[p]) \subseteq Captures(head[Home[p]])

(* A process keeps what it has seen while another one moves.                *)
LEMMA OthersStay ==
  ASSUME TypeOK, NEW p \in Procs, Start(p) \/ Continue(p) \/ Crash(p), NEW q \in Procs, q # p
  PROVE  pc'[q] = pc[q] /\ mode'[q] = mode[q] /\ lease'[q] = lease[q]
<1> USE DEF TypeOK, Step, Goto, runVars
<1>1. CASE Start(p)
  BY <1>1 DEF Start, StartSync, StartPull, StartPrune, StartWindow, Begin
<1>2. CASE LockStep(p)
  BY <1>2 DEF LockStep, TakeLock, Create, WriteToken, Judge, Break, Retake, Release, Forget, Unlock
<1>3. CASE MergeStep(p)
  BY <1>3 DEF MergeStep, Repair, Reconcile, StartMerge, Resolve, FinishMerge, FastForward
<1>4. CASE PublishStep(p)
  BY <1>4 DEF PublishStep, Capture, Commit, CommitThen, Push, Maintain, Fold, ForcePush
<1>5. CASE PruneStep(p)
  BY <1>5 DEF PruneStep, Look, LeasePush
<1>6. CASE Crash(p)
  BY <1>6 DEF Crash, Forget
<1>7. QED
  BY <1>1, <1>2, <1>3, <1>4, <1>5, <1>6 DEF Continue

(* Which commands get where: only a sync locks and publishes.               *)
Places == \A p \in Procs :
            /\ pc[p] \in {"lock", "token", "judge", "break", "retake",
                          "capture", "commit", "push", "maintain"} => mode[p] = "sync"
            /\ pc[p] \in {"repair", "reconcile", "resolve", "finish", "ff"}
                 => mode[p] \in {"sync", "pull"}

(* No step brings a command where it does not belong.                       *)
LEMMA PlacesStep ==
  ASSUME TypeOK, Places, NEW p \in Procs, Start(p) \/ Continue(p) \/ Crash(p)
  PROVE  Places'
<1>1. SUFFICES
        /\ pc'[p] \in {"lock", "token", "judge", "break", "retake",
                       "capture", "commit", "push", "maintain"} => mode'[p] = "sync"
        /\ pc'[p] \in {"repair", "reconcile", "resolve", "finish", "ff"}
             => mode'[p] \in {"sync", "pull"}
  BY OthersStay DEF Places
<1> USE DEF TypeOK, Places, Step, Goto, runVars, Returns, Fails
<1>2. CASE Start(p)
  BY <1>2 DEF Start, StartSync, StartPull, StartPrune, StartWindow, Begin
<1>3. CASE LockStep(p)
  BY <1>3 DEF LockStep, TakeLock, Create, WriteToken, Judge, Break, Retake, Release, Forget, Unlock
<1>4. CASE MergeStep(p)
  BY <1>4 DEF MergeStep, Repair, Reconcile, StartMerge, Resolve, FinishMerge, FastForward
<1>5. CASE PublishStep(p)
  BY <1>5 DEF PublishStep, Capture, Commit, CommitThen, Push, Maintain, Fold, ForcePush
<1>6. CASE PruneStep(p)
  BY <1>6 DEF PruneStep, Look, LeasePush
<1>7. CASE Crash(p)
  BY <1>7 DEF Crash, Forget
<1>8. QED
  BY <1>2, <1>3, <1>4, <1>5, <1>6, <1>7 DEF Continue

(* Only a prune that has looked gets where it folds, and then to its push.  *)
LEMMA OnlyAfterLook ==
  ASSUME TypeOK, Places, NEW p \in Procs, Start(p) \/ Continue(p) \/ Crash(p),
         pc'[p] = "lease" \/ (pc'[p] = "fold" /\ mode'[p] = "prune"), ~Look(p)
  PROVE  pc[p] = "fold" /\ mode[p] = "prune" /\ lease'[p] = lease[p]
<1> USE DEF TypeOK, Places, Step, Goto, runVars, Returns, Fails
<1>1. CASE Start(p)
  BY <1>1 DEF Start, StartSync, StartPull, StartPrune, StartWindow, Begin
<1>2. CASE LockStep(p)
  BY <1>2 DEF LockStep, TakeLock, Create, WriteToken, Judge, Break, Retake, Release, Forget, Unlock
<1>3. CASE MergeStep(p)
  BY <1>3 DEF MergeStep, Repair, Reconcile, StartMerge, Resolve, FinishMerge, FastForward
<1>4. CASE PublishStep(p)
  BY <1>4 DEF PublishStep, Capture, Commit, CommitThen, Push, Maintain, Fold, ForcePush
<1>5. CASE PruneStep(p)
  BY <1>5 DEF PruneStep, LeasePush
<1>6. CASE Crash(p)
  BY <1>6 DEF Crash, Forget
<1>7. QED
  BY <1>1, <1>2, <1>3, <1>4, <1>5, <1>6 DEF Continue

(* What a prune has seen is still in its clone after every step.            *)
LEMMA SeenStep ==
  ASSUME TypeOK, Places, Seen, NEW p \in Procs, Start(p) \/ Continue(p) \/ Crash(p)
  PROVE  Seen'
<1> SUFFICES ASSUME NEW q \in Procs, pc'[q] = "lease" \/ (pc'[q] = "fold" /\ mode'[q] = "prune")
             PROVE  Captures(lease'[q]) \subseteq Captures(head'[Home[q]])
  BY DEF Seen
<1>1. Captures(head[Home[q]]) \subseteq Captures(head'[Home[q]])
  BY HomeType, HeadGrows DEF Captures
<1>2. CASE q = p /\ Look(p)
  <2>1. lease'[p] = remote /\ remote \subseteq head[Home[p]]
    BY <1>2 DEF Look, Step, Goto, TypeOK
  <2>2. QED
    BY <1>1, <1>2, <2>1 DEF Captures, Facts
<1>3. CASE ~(q = p /\ Look(p))
  <2>1. pc[q] = "lease" \/ (pc[q] = "fold" /\ mode[q] = "prune")
    BY <1>3, OthersStay, OnlyAfterLook
  <2>2. lease'[q] = lease[q]
    BY <1>3, OthersStay, OnlyAfterLook
  <2>3. QED
    BY <1>1, <2>1, <2>2 DEF Seen
<1>4. QED
  BY <1>2, <1>3

(* Nothing that was captured leaves the remote, but by a plain force-push.  *)
THEOREM OnlyForce == Spec => OnlyForceDrops
<1> DEFINE Drops == Captures(remote) \subseteq Captures(remote') \/ \E p \in Procs : ForcePush(p)
<1>1. Init => Places /\ Seen
  BY DEF Init, Places, Seen
<1>2. TypeOK /\ TypeOK' /\ Places /\ Seen /\ [Next]_vars => Places' /\ Seen'
  <2>1. CASE UNCHANGED vars
    BY <2>1 DEF vars, runVars, repoVars, Places, Seen
  <2>2. CASE Next
    BY <2>2, PlacesStep, SeenStep DEF Next
  <2>3. QED
    BY <2>1, <2>2
<1>3. TypeOK /\ Seen /\ [Next]_vars => [Drops]_vars
  <2> SUFFICES ASSUME TypeOK, Seen, NEW p \in Procs, Start(p) \/ Continue(p) \/ Crash(p), ~ForcePush(p)
               PROVE  Captures(remote) \subseteq Captures(remote')
    BY DEF Next
  <2>1. CASE UNCHANGED remote
    BY <2>1
  <2>2. CASE Push(p)
    <3>1. remote \subseteq remote' \/ UNCHANGED remote
      BY <2>2 DEF Push
    <3>2. QED
      BY <3>1 DEF Captures, Facts
  <2>3. CASE LeasePush(p)
    <3>1. CASE remote = lease[p] /\ remote' = head[Home[p]]
      BY <2>3, <3>1 DEF LeasePush, Step, Seen
    <3>2. QED
      BY <2>3, <3>1 DEF LeasePush
  <2>4. CASE Start(p) \/ LockStep(p) \/ Look(p) \/ Crash(p)
    BY <2>1, <2>4 DEF Start, StartSync, StartPull, StartPrune, StartWindow, Begin, LockStep, TakeLock,
                WriteToken, Judge, Break, Retake, Release, Unlock, Look, Crash, repoVars
  <2>5. CASE \/ MergeStep(p)
             \/ Capture(p) \/ Commit(p) \/ Maintain(p) \/ Fold(p)
    BY <2>1, <2>5 DEF MergeStep, Repair, Reconcile, Resolve, FinishMerge, FastForward, Capture,
                Commit, CommitThen, Maintain, Fold, repoVars
  <2>6. QED
    BY <2>2, <2>3, <2>4, <2>5 DEF Continue, PublishStep, PruneStep
<1>4. Spec => [](Places /\ Seen)
  BY <1>1, <1>2, TypeCorrect, PTL DEF Spec
<1>5. QED
  BY <1>3, <1>4, TypeCorrect, PTL DEF Spec, OnlyForceDrops

-----------------------------------------------------------------------------
(* As long as no two commands have shared a clone, no conflicted merge is   *)
(* in the clone of a sync that captures or commits, and nothing that is     *)
(* committed anywhere has markers in it.                                    *)
Undecided(m) == merge[m].state \in {"conflicted", "hard"}
Exclusive == \A p, q \in Procs : p # q /\ Home[p] = Home[q] /\ pc[p] \in InTree => pc[q] \notin InTree
Settled == \A p \in Procs : pc[p] \in {"capture", "commit"} => ~Undecided(Home[p])
Unmarked == /\ \A m \in Machines : ~Marked(head[m]) /\ ~Marked(merge[m].theirs)
            /\ ~Marked(remote)
Apart == company = "apart" => Exclusive /\ Settled /\ Unmarked

(* A process enters a clone only where Enter watches.                       *)
LEMMA EntersAlone ==
  ASSUME TypeOK, NEW p \in Procs, Start(p) \/ Continue(p) \/ Crash(p),
         company' = "apart", pc'[p] \in InTree
  PROVE  pc[p] \in InTree \/ ~Shares(p)
<1> USE DEF TypeOK, Step, Goto, InTree
<1>1. CASE Start(p)
  BY <1>1 DEF Start, StartSync, StartPull, StartPrune, StartWindow, Begin, Enter
<1>2. CASE LockStep(p)
  BY <1>2 DEF LockStep, TakeLock, Create, WriteToken, Judge, Break, Retake, Release, Unlock, Enter
<1>3. CASE MergeStep(p)
  BY <1>3 DEF MergeStep, Repair, Reconcile, StartMerge, Resolve, FinishMerge, FastForward
<1>4. CASE PublishStep(p)
  BY <1>4 DEF PublishStep, Capture, Commit, CommitThen, Push, Maintain, Fold, ForcePush
<1>5. CASE PruneStep(p)
  BY <1>5 DEF PruneStep, Look, LeasePush
<1>6. CASE Crash(p)
  BY <1>6 DEF Crash
<1>7. QED
  BY <1>1, <1>2, <1>3, <1>4, <1>5, <1>6 DEF Continue

(* Company is never forgotten.                                              *)
LEMMA CompanyLasts ==
  ASSUME NEW p \in Procs, Start(p) \/ Continue(p) \/ Crash(p), company' = "apart"
  PROVE  company = "apart"
<1>1. CASE Start(p) \/ LockStep(p) \/ Crash(p) \/ PruneStep(p)
  BY <1>1 DEF Start, StartSync, StartPull, StartPrune, StartWindow, Begin, Enter, LockStep, TakeLock,
              WriteToken, Judge, Break, Retake, Release, Unlock, Crash, PruneStep, Look, LeasePush
<1>2. CASE MergeStep(p) \/ PublishStep(p)
  BY <1>2 DEF MergeStep, Repair, Reconcile, Resolve, FinishMerge, FastForward, PublishStep, Capture,
              Commit, CommitThen, Push, Maintain, Fold, ForcePush
<1>3. QED
  BY <1>1, <1>2 DEF Continue

(* A step that nobody notes as company leaves the clones exclusive.         *)
LEMMA ExclusiveStep ==
  ASSUME TypeOK, Exclusive, NEW p \in Procs, Start(p) \/ Continue(p) \/ Crash(p), company' = "apart"
  PROVE  Exclusive'
<1>1. \A q \in Procs \ {p} : pc'[q] = pc[q]
  BY OthersStay
<1>2. pc'[p] \in InTree => pc[p] \in InTree \/ ~Shares(p)
  BY EntersAlone
<1>3. pc'[p] \in InTree => \A q \in Procs \ {p} : Home[q] = Home[p] => pc[q] \notin InTree
  BY <1>2 DEF Shares, Exclusive
<1>4. QED
  BY <1>1, <1>3 DEF Exclusive

(* Only a process that is in a clone touches the merge in it.               *)
LEMMA MergeFrame ==
  ASSUME TypeOK, NEW p \in Procs, Start(p) \/ Continue(p) \/ Crash(p), NEW m \in Machines
  PROVE  merge'[m] = merge[m] \/ (m = Home[p] /\ pc[p] \in InTree)
<1>0. merge \in [Machines -> Merges]
  BY DEF TypeOK, Merges
<1>1. CASE Start(p) \/ LockStep(p) \/ Crash(p) \/ PruneStep(p)
  BY <1>1 DEF Start, StartSync, StartPull, StartPrune, StartWindow, Begin, LockStep, TakeLock,
              WriteToken, Judge, Break, Retake, Release, Unlock, Crash, PruneStep, Look, LeasePush, repoVars
<1>2. CASE Repair(p) \/ FastForward(p) \/ Capture(p) \/ Push(p) \/ Maintain(p) \/ Fold(p) \/ ForcePush(p)
  BY <1>2 DEF Repair, FastForward, Capture, Push, Maintain, Fold, ForcePush, repoVars
<1>3. CASE Reconcile(p) \/ Resolve(p) \/ FinishMerge(p) \/ Commit(p)
  <2>1. pc[p] \in InTree
    BY <1>3 DEF Reconcile, StartMerge, Resolve, FinishMerge, Commit, CommitThen, Step, InTree
  <2>2. m # Home[p] => merge'[m] = merge[m]
    BY <1>0, <1>3 DEF Reconcile, StartMerge, Resolve, SetMerge, FinishMerge, Commit, CommitThen
  <2>3. QED
    BY <2>1, <2>2
<1>4. QED
  BY <1>1, <1>2, <1>3 DEF Continue, MergeStep, PublishStep

(* A command captures and commits only over a merge that is settled.        *)
LEMMA SettlesFirst ==
  ASSUME TypeOK, Settled, NEW p \in Procs, Start(p) \/ Continue(p) \/ Crash(p),
         pc'[p] \in {"capture", "commit"}
  PROVE  merge'[Home[p]].state \notin {"conflicted", "hard"}
<1> DEFINE m == Home[p]
<1>0. m \in Machines /\ pc \in [Procs -> Labels] /\ merge \in [Machines -> Merges]
  BY HomeType DEF TypeOK, Merges
<1>1. CASE Start(p) \/ LockStep(p) \/ Crash(p) \/ PruneStep(p)
  BY <1>0, <1>1 DEF Start, StartSync, StartPull, StartPrune, StartWindow, Begin, LockStep, TakeLock, Create,
              WriteToken, Judge, Break, Retake, Release, Unlock, Crash, PruneStep, Look, LeasePush, Step, Goto
<1>2. CASE Repair(p)
  BY <1>0, <1>2 DEF Repair, Step, Goto, Merging, repoVars
<1>3. CASE Capture(p)
  BY <1>0, <1>3 DEF Capture, Step, Goto, Settled, Undecided
<1>4. CASE Reconcile(p)
  BY <1>0, <1>4 DEF Reconcile, StartMerge, Step, Goto, Merging
<1>5. CASE Resolve(p)
  <2>1. pc'[p] # "finish"
    OBVIOUS
  <2>2. merge' = [merge EXCEPT ![m] = NoMerge]
    BY <1>0, <1>5, <2>1 DEF Resolve, Step, Goto
  <2>3. QED
    BY <1>0, <2>2 DEF NoMerge
<1>6. CASE FinishMerge(p)
  <2>1. CASE Merging(m)
    <3>1. pc'[p] # Fails(p, TRUE)
      BY <1>0 DEF Fails
    <3>2. merge' = [merge EXCEPT ![m] = NoMerge]
      BY <1>0, <1>6, <2>1, <3>1 DEF FinishMerge, Step, Goto
    <3>3. QED
      BY <1>0, <3>2 DEF NoMerge
  <2>2. CASE ~Merging(m)
    <3>1. UNCHANGED merge
      BY <1>6, <2>2 DEF FinishMerge
    <3>2. QED
      BY <2>2, <3>1 DEF Merging
  <2>3. QED
    BY <2>1, <2>2
<1>7. CASE FastForward(p) \/ Commit(p) \/ Push(p) \/ Maintain(p) \/ Fold(p) \/ ForcePush(p)
  BY <1>0, <1>7 DEF FastForward, Commit, CommitThen, Push, Maintain, Fold, ForcePush, Step, Goto
<1>8. QED
  BY <1>1, <1>2, <1>3, <1>4, <1>5, <1>6, <1>7 DEF Continue, MergeStep, PublishStep

(* In exclusive clones a sync still commits over settled merges only.       *)
LEMMA SettledStep ==
  ASSUME TypeOK, Exclusive, Settled, NEW p \in Procs, Start(p) \/ Continue(p) \/ Crash(p)
  PROVE  Settled'
<1> SUFFICES ASSUME NEW q \in Procs, pc'[q] \in {"capture", "commit"}
             PROVE  merge'[Home[q]].state \notin {"conflicted", "hard"}
  BY DEF Settled, Undecided
<1>1. CASE q = p
  BY <1>1, SettlesFirst
<1>2. CASE q # p
  <2>1. pc[q] \in {"capture", "commit"} /\ pc[q] \in InTree
    BY <1>2, OthersStay DEF InTree
  <2>2. ~(Home[q] = Home[p] /\ pc[p] \in InTree)
    BY <1>2, <2>1 DEF Exclusive
  <2>3. merge'[Home[q]] = merge[Home[q]]
    BY <2>2, HomeType, MergeFrame
  <2>4. QED
    BY <2>1, <2>3 DEF Settled, Undecided
<1>3. QED
  BY <1>1, <1>2

(* Without an undecided merge under a commit, no step makes markers.        *)
LEMMA MarkedUnion == \A g, h : Marked(g \cup h) => Marked(g) \/ Marked(h)
BY DEF Marked, Facts

(* What is added to a history is not marked unless markers are added.       *)
LEMMA MarkedAdding ==
  ASSUME NEW h, NEW facts \in SUBSET (1..MaxCaptures), Marked(Adding(h, facts))
  PROVE  Marked(h)
<1>1. Markers \notin facts
  BY ClaudeAssumption DEF ClaudeAssumption, Markers
<1>2. PICK c \in Adding(h, facts) : c[2] = Markers
  BY DEF Marked, Facts
<1>3. c \in h
  BY <1>1, <1>2 DEF Adding
<1>4. QED
  BY <1>2, <1>3 DEF Marked, Facts

(* Then no clone commits markers.                                           *)
LEMMA HeadUnmarked ==
  ASSUME TypeOK, Settled, Unmarked, NEW p \in Procs, Start(p) \/ Continue(p) \/ Crash(p),
         NEW m \in Machines
  PROVE  ~Marked(head'[m])
<1>0. head \in [Machines -> SUBSET Commits] /\ Home[p] \in Machines
  BY HomeType DEF TypeOK
<1>1. CASE head'[m] = head[m]
  BY <1>1 DEF Unmarked
<1>2. CASE Commit(p)
  <2>1. CASE head'[m] # head[m]
    <3>1. m = Home[p] /\ ~Undecided(m)
      BY <1>0, <1>2, <2>1 DEF Commit, CommitThen, Step, Settled
    <3>2. head'[m] = Adding(head[m], tree[m] \cup {}) \cup merge[m].theirs
      BY <1>0, <1>2, <2>1, <3>1 DEF Commit, CommitThen, Undecided
    <3>3. tree[m] \cup {} \in SUBSET (1..MaxCaptures)
      BY DEF TypeOK
    <3>4. QED
      BY <3>2, <3>3, MarkedUnion, MarkedAdding DEF Unmarked
  <2>2. QED
    BY <1>1, <2>1
<1>3. CASE FinishMerge(p)
  <2>1. head'[m] = head[m] \/ head'[m] = head[m] \cup merge[m].theirs
    BY <1>0, <1>3 DEF FinishMerge
  <2>2. QED
    BY <1>1, <2>1, MarkedUnion DEF Unmarked
<1>4. CASE FastForward(p)
  <2>1. head'[m] = head[m] \/ head'[m] = head[m] \cup remote
    BY <1>0, <1>4 DEF FastForward
  <2>2. QED
    BY <1>1, <2>1, MarkedUnion DEF Unmarked
<1>5. CASE Fold(p)
  <2>1. head'[m] = head[m] \/ head'[m] = Rewritten(head[m], rewrites')
    BY <1>0, <1>5 DEF Fold
  <2>2. QED
    BY <1>1, <2>1, RewrittenFacts DEF Unmarked, Marked
<1>6. CASE Start(p) \/ LockStep(p) \/ PruneStep(p) \/ Crash(p)
  BY <1>1, <1>6 DEF Start, StartSync, StartPull, StartPrune, StartWindow, Begin, LockStep, TakeLock,
              WriteToken, Judge, Break, Retake, Release, Unlock, PruneStep, Look, LeasePush, Crash, repoVars
<1>7. CASE Repair(p) \/ Reconcile(p) \/ Resolve(p) \/ Capture(p) \/ Push(p) \/ Maintain(p) \/ ForcePush(p)
  BY <1>1, <1>7 DEF Repair, Reconcile, Resolve, Capture, Push, Maintain, ForcePush, repoVars
<1>8. QED
  BY <1>2, <1>3, <1>4, <1>5, <1>6, <1>7 DEF Continue, MergeStep, PublishStep

(* Where no merge is in progress there is nothing to be marked.             *)
LEMMA NoMergeUnmarked == ~Marked(NoMerge.theirs)
BY DEF NoMerge, Marked, Facts

(* Nor does a merge fetch any.                                              *)
LEMMA TheirsUnmarked ==
  ASSUME TypeOK, Unmarked, NEW p \in Procs, Start(p) \/ Continue(p) \/ Crash(p), NEW m \in Machines
  PROVE  ~Marked(merge'[m].theirs)
<1>0. merge \in [Machines -> Merges] /\ Home[p] \in Machines
  BY HomeType DEF TypeOK, Merges
<1>1. CASE merge'[m] = merge[m] \/ merge'[m] = NoMerge
  BY <1>1, NoMergeUnmarked DEF Unmarked
<1>2. CASE Reconcile(p)
  <2>1. CASE \E s \in {"clean", "conflicted", "hard"} :
                merge' = [merge EXCEPT ![Home[p]] = [state |-> s, theirs |-> remote]]
    <3>1. merge'[m] = merge[m] \/ merge'[m].theirs = remote
      BY <1>0, <2>1
    <3>2. QED
      BY <1>1, <3>1 DEF Unmarked
  <2>2. CASE UNCHANGED merge
    BY <1>1, <2>2
  <2>3. QED
    BY <1>2, <2>1, <2>2 DEF Reconcile, StartMerge
<1>3. CASE Resolve(p)
  <2>1. CASE SetMerge(Home[p], "resolved")
    <3>1. merge'[m].theirs = merge[m].theirs
      BY <1>0, <2>1 DEF SetMerge, Merges
    <3>2. QED
      BY <3>1 DEF Unmarked
  <2>2. CASE ~SetMerge(Home[p], "resolved")
    BY <1>0, <1>1, <1>3, <2>2 DEF Resolve
  <2>3. QED
    BY <2>1, <2>2
<1>4. CASE FinishMerge(p) \/ Commit(p)
  BY <1>0, <1>1, <1>4 DEF FinishMerge, Commit, CommitThen
<1>5. CASE Start(p) \/ LockStep(p) \/ PruneStep(p) \/ Crash(p)
  BY <1>1, <1>5 DEF Start, StartSync, StartPull, StartPrune, StartWindow, Begin, LockStep, TakeLock,
              WriteToken, Judge, Break, Retake, Release, Unlock, PruneStep, Look, LeasePush, Crash, repoVars
<1>6. CASE Repair(p) \/ FastForward(p) \/ Capture(p) \/ Push(p) \/ Maintain(p) \/ Fold(p) \/ ForcePush(p)
  BY <1>1, <1>6 DEF Repair, FastForward, Capture, Push, Maintain, Fold, ForcePush, repoVars
<1>7. QED
  BY <1>2, <1>3, <1>4, <1>5, <1>6 DEF Continue, MergeStep, PublishStep

(* Nor does a push publish any.                                             *)
LEMMA UnmarkedStep ==
  ASSUME TypeOK, Settled, Unmarked, NEW p \in Procs, Start(p) \/ Continue(p) \/ Crash(p)
  PROVE  Unmarked'
<1>1. remote' = remote \/ remote' = head[Home[p]]
  <2>1. CASE Push(p) \/ ForcePush(p) \/ LeasePush(p)
    BY <2>1 DEF Push, ForcePush, LeasePush
  <2>2. CASE Start(p) \/ LockStep(p) \/ Look(p) \/ Crash(p)
    BY <2>2 DEF Start, StartSync, StartPull, StartPrune, StartWindow, Begin, LockStep, TakeLock,
                WriteToken, Judge, Break, Retake, Release, Unlock, Look, Crash, repoVars
  <2>3. CASE MergeStep(p) \/ Capture(p) \/ Commit(p) \/ Maintain(p) \/ Fold(p)
    BY <2>3 DEF MergeStep, Repair, Reconcile, Resolve, FinishMerge, FastForward, Capture,
                Commit, CommitThen, Maintain, Fold, repoVars
  <2>4. QED
    BY <2>1, <2>2, <2>3 DEF Continue, PublishStep, PruneStep
<1>2. ~Marked(remote')
  BY <1>1, HomeType DEF Unmarked
<1>3. QED
  BY <1>2, HeadUnmarked, TheirsUnmarked DEF Unmarked

(* Conflict markers are never published as long as no two commands have     *)
(* been in one clone at a time, whatever was killed or failed.              *)
THEOREM MarkersStayHome == Spec => []MarkersNeedCompany
<1>1. Init => Apart
  <2>1. ~Marked({<<0, First>>}) /\ ~Marked({})
    BY ClaudeAssumption DEF ClaudeAssumption, Marked, Facts, First, Markers
  <2>2. Init => Exclusive /\ Settled
    BY DEF Init, Exclusive, Settled, InTree
  <2>3. ASSUME Init PROVE Unmarked
    <3>1. ASSUME NEW m \in Machines PROVE head[m] = {<<0, First>>} /\ merge[m].theirs = {}
      BY <2>3 DEF Init, NoMerge
    <3>2. remote = {<<0, First>>}
      BY <2>3 DEF Init
    <3>3. QED
      BY <2>1, <3>1, <3>2 DEF Unmarked
  <2>4. QED
    BY <2>2, <2>3 DEF Apart
<1>2. TypeOK /\ Apart /\ [Next]_vars => Apart'
  <2>1. CASE UNCHANGED vars
    BY <2>1 DEF vars, runVars, lockVars, repoVars, Apart, Exclusive, Settled, Undecided, Unmarked
  <2>2. ASSUME TypeOK, Apart, NEW p \in Procs, Start(p) \/ Continue(p) \/ Crash(p), company' = "apart"
        PROVE  Exclusive' /\ Settled' /\ Unmarked'
    <3>1. Exclusive /\ Settled /\ Unmarked
      BY <2>2, CompanyLasts DEF Apart
    <3>2. QED
      BY <2>2, <3>1, ExclusiveStep, SettledStep, UnmarkedStep
  <2>3. QED
    BY <2>1, <2>2 DEF Next, Apart
<1>3. TypeOK /\ Apart => MarkersNeedCompany
  BY DEF TypeOK, Apart, Unmarked, MarkersNeedCompany
<1>4. QED
  BY <1>1, <1>2, <1>3, TypeCorrect, PTL DEF Spec
=============================================================================
