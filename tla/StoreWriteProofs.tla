-------------------------- MODULE StoreWriteProofs --------------------------
(***************************************************************************)
(* Proofs about StoreWrite, for any number of processes and hand edits.    *)
(***************************************************************************)
EXTENDS StoreWrite, TLAPS

(* While nobody dies and nobody outlasts lockStale, no lock is ever broken. *)
NeverBroken == Crashable = {} /\ Sleepers = {}

(* A Publish pushes at most twice: the attempt counter starts at zero when  *)
(* the write does and is one when the rejected push is reconciled.          *)
Locked == {"mkdir", "token", "cleanup", "wait", "break", "inside", "held",
           "rename", "release", "unlock"}
TriesInv == \A p \in Procs :
    /\ op[p] = "write" /\ pc[p] \in Locked => tries[p] = 0
    /\ pc[p] = "commit" => tries[p] = 0
    /\ pc[p] = "push" => tries[p] \in {0, 1}
    /\ pc[p] = "reconcile" => tries[p] = 1

Typed == TypeOK /\ TriesInv

(* The first state is well typed.                                           *)
LEMMA TypeInit == Init => Typed
<1> SUFFICES ASSUME Init PROVE Typed
  OBVIOUS
<1>1. Absent \in Contents
  BY DEF Contents
<1>2. TypeOK
  <2>1. pc \in [Procs -> Labels] /\ op \in [Procs -> {"write", "pull"}]
    BY DEF Init, Labels
  <2>2. base \in [Procs -> Contents] /\ file \in Contents /\ head \in Contents
    BY <1>1 DEF Init
  <2>3. draft \in [Procs -> SUBSET Facts] /\ won \in [Procs -> BOOLEAN]
        /\ tries \in [Procs -> 0..2]
    BY DEF Init
  <2>4. age \in {"fresh", "stale"} /\ branch \in {"level", "ahead"} /\ maker \in Procs \cup {Nobody} /\ token \in Procs \cup {Nobody}
    BY DEF Init
  <2>5. incoming \subseteq Edits /\ merging \subseteq Edits /\ made \subseteq Edits
        /\ landed \subseteq Facts
    BY DEF Init
  <2>6. QED
    BY <2>1, <2>2, <2>3, <2>4, <2>5 DEF TypeOK
<1>3. TriesInv
  BY DEF Init, TriesInv, Locked
<1>4. QED
  BY <1>2, <1>3 DEF Typed

(* So is the state after every step.                                        *)
LEMMA TypeStep == Typed /\ [Next]_vars => Typed'
<1> SUFFICES ASSUME Typed, [Next]_vars PROVE Typed'
  OBVIOUS
<1> USE DEF Typed, TypeOK, TriesInv, Locked, Labels, Contents, Goto
<1>1. CASE UNCHANGED vars
  BY <1>1 DEF vars, procVars, lockVars, gitVars
<1>2. ASSUME NEW p \in Procs, BeginPull(p) PROVE Typed'
  BY <1>2 DEF BeginPull, lockVars, gitVars
<1>3. ASSUME NEW p \in Procs, Load(p) PROVE Typed'
  <2>1. FactsOf(file) \cup {p} \in SUBSET Facts
    BY DEF FactsOf, Facts
  <2>2. QED
    BY <1>3, <2>1 DEF Load, lockVars, gitVars
<1>4. ASSUME NEW p \in Procs, LockStep(p) PROVE Typed'
  <2>1. CASE Mkdir(p) \/ WriteToken(p)
    BY <2>1 DEF Mkdir, WriteToken, procVars, lockVars, gitVars
  <2>2. CASE TokenFails(p) \/ Cleanup(p) \/ BreakStale(p)
    BY <2>2 DEF TokenFails, Cleanup, BreakStale, RemoveLock, procVars, lockVars, gitVars
  <2>3. CASE SeesStale(p) \/ SleepAndRetry(p) \/ DeadlinePasses(p)
    BY <2>3 DEF SeesStale, SleepAndRetry, DeadlinePasses, procVars, lockVars, gitVars
  <2>4. CASE ReadOwner(p) \/ Unlock(p)
    BY <2>4 DEF ReadOwner, Unlock, AfterLock, RemoveLock, procVars, lockVars, gitVars
  <2>5. QED
    BY <1>4, <2>1, <2>2, <2>3, <2>4 DEF LockStep
<1>5. ASSUME NEW p \in Procs, InsideStep(p) PROVE Typed'
  <2>1. FactsOf(head) \cup incoming \in SUBSET Facts
    BY DEF FactsOf, Facts
  <2>2. CASE CompareDigest(p) \/ StillHeld(p)
    BY <2>2 DEF CompareDigest, StillHeld, procVars, lockVars, gitVars
  <2>3. CASE Rename(p)
    BY <2>3 DEF Rename, Facts, lockVars, gitVars
  <2>4. CASE FastForward(p)
    BY <2>1, <2>4 DEF FastForward, Facts, lockVars, gitVars
  <2>5. QED
    BY <1>5, <2>2, <2>3, <2>4 DEF InsideStep
<1>6. ASSUME NEW p \in Procs, PublishStep(p) PROVE Typed'
  <2>1. FactsOf(head) \cup incoming \in SUBSET Facts
    BY DEF FactsOf, Facts
  <2>2. CASE Commit(p)
    BY <2>2 DEF Commit, procVars, lockVars, gitVars
  <2>3. CASE Push(p)
    BY <2>3 DEF Push, lockVars
  <2>4. CASE Reconcile(p)
    BY <2>1, <2>4 DEF Reconcile, Facts, procVars, lockVars, gitVars
  <2>5. QED
    BY <1>6, <2>2, <2>3, <2>4 DEF PublishStep
<1>7. ASSUME NEW p \in Procs, Crash(p) PROVE Typed'
  BY <1>7 DEF Crash, procVars, lockVars, gitVars
<1>8. ASSUME NEW e \in Edits, HandEdit(e) PROVE Typed'
  BY <1>8 DEF HandEdit, procVars, lockVars
<1>9. CASE Age
  BY <1>9 DEF Age, procVars, gitVars
<1>10. QED
  BY <1>1, <1>2, <1>3, <1>4, <1>5, <1>6, <1>7, <1>8, <1>9 DEF Next, RunStep

(* Every reachable state is well typed.                                     *)
THEOREM TypeCorrect == Spec => []TypeOK
<1>1. Typed => TypeOK
  BY DEF Typed
<1>2. QED
  BY TypeInit, TypeStep, <1>1, PTL DEF Spec

-----------------------------------------------------------------------------
(* The mutual exclusion that makes the comparison and the rename one step:  *)
(* whoever is between its mkdir and its release made the lock, and from the *)
(* token on the lock says so.                                               *)
Holding == {"inside", "held", "rename", "release", "unlock"}
Made == Holding \cup {"token"}
LockInv ==
    /\ age = "fresh"
    /\ \A p \in Procs :
          /\ pc[p] \in Made => maker = p
          /\ pc[p] \in Holding => token = p
          /\ pc[p] \notin {"break", "cleanup", "dead"}

(* The facts a process is about to write: everything it saw and its own.    *)
DraftInv == \A p \in Procs :
    op[p] = "write" /\ pc[p] \in Locked => draft[p] = FactsOf(base[p]) \cup {p}

(* Between the comparison and the rename nothing that was saved is missing  *)
(* from the base, because only a holder of the lock can save.               *)
KeepInv ==
    /\ landed \subseteq FactsOf(file)
    /\ \A p \in Procs : pc[p] \in {"held", "rename"} =>
          op[p] = "write" /\ landed \subseteq FactsOf(base[p])

SafeInv == Typed /\ LockInv /\ DraftInv /\ KeepInv

(* While no lock is broken, every step keeps the mutual exclusion.          *)
LEMMA LockStepInv ==
    ASSUME NeverBroken, Typed, LockInv, [Next]_vars
    PROVE  LockInv'
<1> USE StoreAssumption DEF StoreAssumption, Typed, TypeOK, LockInv, Made, Holding, NeverBroken, Goto, Facts
<1>1. CASE UNCHANGED vars
  BY <1>1 DEF vars, lockVars
<1>2. ASSUME NEW p \in Procs, BeginPull(p) \/ Load(p) PROVE LockInv'
  BY <1>2 DEF BeginPull, Load, lockVars
<1>3. ASSUME NEW p \in Procs, LockStep(p) PROVE LockInv'
  <2>1. CASE Mkdir(p)
    BY <2>1 DEF Mkdir, LockExists, lockVars
  <2>2. CASE WriteToken(p)
    BY <2>2 DEF WriteToken, LockExists
  <2>3. CASE TokenFails(p)
    BY <2>3 DEF TokenFails, LockExists
  <2>4. CASE Cleanup(p) \/ BreakStale(p) \/ SeesStale(p)
    BY <2>4 DEF Cleanup, BreakStale, SeesStale, Stale
  <2>5. CASE SleepAndRetry(p) \/ DeadlinePasses(p)
    BY <2>5 DEF SleepAndRetry, DeadlinePasses, lockVars
  <2>6. CASE ReadOwner(p)
    BY <2>6 DEF ReadOwner, AfterLock, lockVars
  <2>7. CASE Unlock(p)
    BY <2>7 DEF Unlock, AfterLock, RemoveLock
  <2>8. QED
    BY <1>3, <2>1, <2>2, <2>3, <2>4, <2>5, <2>6, <2>7 DEF LockStep
<1>4. ASSUME NEW p \in Procs, InsideStep(p) PROVE LockInv'
  BY <1>4 DEF InsideStep, CompareDigest, StillHeld, Rename, FastForward, lockVars
<1>5. ASSUME NEW p \in Procs, PublishStep(p) PROVE LockInv'
  BY <1>5 DEF PublishStep, Commit, Push, Reconcile, lockVars
<1>6. ASSUME NEW p \in Procs, Crash(p) PROVE LockInv'
  BY <1>6 DEF Crash
<1>7. ASSUME NEW e \in Edits, HandEdit(e) PROVE LockInv'
  BY <1>7 DEF HandEdit, lockVars
<1>8. CASE Age
  BY <1>8 DEF Age, LockExists, Stale
<1>9. QED
  BY <1>1, <1>2, <1>3, <1>4, <1>5, <1>6, <1>7, <1>8 DEF Next, RunStep

(* Every step keeps what a writer knows of its draft.                       *)
LEMMA DraftStep ==
    ASSUME Typed, DraftInv, [Next]_vars
    PROVE  DraftInv'
<1> USE DEF Typed, TypeOK, DraftInv, Locked, Goto
<1>1. CASE UNCHANGED vars
  BY <1>1 DEF vars, procVars
<1>2. ASSUME NEW p \in Procs, BeginPull(p) \/ Load(p) PROVE DraftInv'
  BY <1>2 DEF BeginPull, Load
<1>3. ASSUME NEW p \in Procs, LockStep(p) PROVE DraftInv'
  <2>1. UNCHANGED procVars
    BY <1>3 DEF LockStep, Mkdir, WriteToken, TokenFails, Cleanup, SeesStale, SleepAndRetry,
           DeadlinePasses, BreakStale, ReadOwner, Unlock
  <2>2. pc[p] \in Locked
    BY <1>3 DEF LockStep, Mkdir, WriteToken, TokenFails, Cleanup, SeesStale, SleepAndRetry,
           DeadlinePasses, BreakStale, ReadOwner, Unlock
  <2>3. \A q \in Procs : q # p => pc'[q] = pc[q]
    BY <1>3 DEF LockStep, Mkdir, WriteToken, TokenFails, Cleanup, SeesStale, SleepAndRetry,
           DeadlinePasses, BreakStale, ReadOwner, Unlock
  <2>4. QED
    BY <2>1, <2>2, <2>3 DEF procVars
<1>4. ASSUME NEW p \in Procs, CompareDigest(p) \/ StillHeld(p) PROVE DraftInv'
  BY <1>4 DEF CompareDigest, StillHeld, procVars
<1>5. ASSUME NEW p \in Procs, Rename(p) PROVE DraftInv'
  <2>1. op[p] = "write" => FactsOf(draft[p]) \cup {p} = draft[p]
    <3>1. draft[p] \subseteq Facts /\ Nobody \notin Facts
      BY StoreAssumption DEF StoreAssumption
    <3>2. QED
      BY <1>5, <3>1 DEF Rename, FactsOf, Absent
  <2>2. QED
    BY <1>5, <2>1 DEF Rename
<1>6. ASSUME NEW p \in Procs, FastForward(p) PROVE DraftInv'
  BY <1>6 DEF FastForward
<1>7. ASSUME NEW p \in Procs, PublishStep(p) PROVE DraftInv'
  BY <1>7 DEF PublishStep, Commit, Push, Reconcile, procVars
<1>8. ASSUME NEW p \in Procs, Crash(p) PROVE DraftInv'
  BY <1>8 DEF Crash, procVars
<1>9. ASSUME NEW e \in Edits, HandEdit(e) PROVE DraftInv'
  BY <1>9 DEF HandEdit, procVars
<1>10. CASE Age
  BY <1>10 DEF Age, procVars
<1>11. QED
  BY <1>1, <1>2, <1>3, <1>4, <1>5, <1>6, <1>7, <1>8, <1>9, <1>10 DEF Next, RunStep, InsideStep

(* Every step keeps what has landed in what is about to be written.         *)
LEMMA KeepStep ==
    ASSUME NeverBroken, Typed, LockInv, DraftInv, KeepInv, [Next]_vars
    PROVE  KeepInv'
<1> USE DEF Typed, TypeOK, KeepInv, Goto
<1>0. /\ \A c \in Contents : FactsOf(c) \subseteq Facts
      /\ \A c \in SUBSET Facts : FactsOf(c) = c
  BY StoreAssumption DEF StoreAssumption, FactsOf, Contents, Absent
<1>1. CASE UNCHANGED vars
  BY <1>1 DEF vars, procVars
<1>2. ASSUME NEW p \in Procs, BeginPull(p) \/ Load(p) PROVE KeepInv'
  BY <1>2 DEF BeginPull, Load
<1>3. ASSUME NEW p \in Procs, LockStep(p) PROVE KeepInv'
  BY <1>3 DEF LockStep, Mkdir, WriteToken, TokenFails, Cleanup, SeesStale, SleepAndRetry,
         DeadlinePasses, BreakStale, ReadOwner, Unlock, AfterLock, procVars
<1>4. ASSUME NEW p \in Procs, CompareDigest(p) \/ StillHeld(p) PROVE KeepInv'
  BY <1>4 DEF CompareDigest, StillHeld, procVars
<1>5. ASSUME NEW p \in Procs, Rename(p) PROVE KeepInv'
  <2>1. landed' \subseteq draft[p] /\ FactsOf(draft[p]) = draft[p]
    BY <1>0, <1>5 DEF Rename, DraftInv, Locked
  <2>2. \A q \in Procs : q # p => pc[q] \notin {"held", "rename"}
    BY <1>5 DEF Rename, LockInv, Made, Holding
  <2>3. QED
    BY <1>5, <2>1, <2>2 DEF Rename
<1>6. ASSUME NEW p \in Procs, FastForward(p) PROVE KeepInv'
  <2>1. \A q \in Procs : pc[q] \notin {"held", "rename"}
    BY <1>6 DEF FastForward, LockInv, Made, Holding
  <2>2. FactsOf(FactsOf(head) \cup incoming) = FactsOf(head) \cup incoming
    BY <1>0 DEF Facts
  <2>3. QED
    BY <1>6, <2>1, <2>2 DEF FastForward, gitVars
<1>7. ASSUME NEW p \in Procs, Commit(p) \/ Push(p) PROVE KeepInv'
  BY <1>7 DEF Commit, Push, procVars
<1>8. ASSUME NEW p \in Procs, Reconcile(p) PROVE KeepInv'
  <2>1. FactsOf(FactsOf(head) \cup incoming) = FactsOf(head) \cup incoming
    BY <1>0 DEF Facts
  <2>2. QED
    BY <1>8, <2>1 DEF Reconcile, procVars
<1>9. ASSUME NEW p \in Procs, Crash(p) PROVE KeepInv'
  BY <1>9 DEF Crash, procVars
<1>10. ASSUME NEW e \in Edits, HandEdit(e) PROVE KeepInv'
  BY <1>10 DEF HandEdit, procVars
<1>11. CASE Age
  BY <1>11 DEF Age, procVars
<1>12. QED
  BY <1>1, <1>2, <1>3, <1>4, <1>5, <1>6, <1>7, <1>8, <1>9, <1>10, <1>11
     DEF Next, RunStep, InsideStep, PublishStep

(* All three hold at first.                                                 *)
LEMMA SafeInit == Init => SafeInv
<1> SUFFICES ASSUME Init PROVE SafeInv
  OBVIOUS
<1>1. LockInv /\ DraftInv /\ KeepInv
  BY DEF Init, LockInv, Made, Holding, DraftInv, Locked, KeepInv
<1>2. QED
  BY <1>1, TypeInit DEF SafeInv

(* And after every step.                                                    *)
LEMMA SafeStep == NeverBroken /\ SafeInv /\ [Next]_vars => SafeInv'
  BY TypeStep, LockStepInv, DraftStep, KeepStep DEF SafeInv

(* While no lock is broken, what a Write or a Pull reported as saved stays  *)
(* in the file, for any number of processes, whatever is edited by hand and *)
(* whatever the unlocked steps of Publish do in between.                    *)
THEOREM NoLockedUpdateLost == ASSUME NeverBroken PROVE Spec => []LockedUpdatesSurvive
<1>1. SafeInv => LockedUpdatesSurvive
  BY DEF SafeInv, KeepInv, LockedUpdatesSurvive
<1>2. SafeInv /\ [Next]_vars => SafeInv'
  BY SafeStep
<1>3. QED
  BY SafeInit, <1>1, <1>2, PTL DEF Spec

-----------------------------------------------------------------------------
(* Without a hand edit there is nothing to merge, and the file under a      *)
(* process that has compared the digest is the file it compared.            *)
NoEdits == Edits = {}
FreshInv == \A p \in Procs :
    /\ pc[p] \in {"held", "rename"} => op[p] = "write" /\ file = base[p]
    /\ pc[p] # "reconcile"

(* Without edits that come from elsewhere, what a holder has compared is    *)
(* still in the file.                                                       *)
LEMMA FreshStep ==
    ASSUME NeverBroken, NoEdits, Typed, LockInv, FreshInv, [Next]_vars
    PROVE  FreshInv'
<1> USE DEF Typed, TypeOK, FreshInv, Goto
<1>0. incoming = {} /\ merging = {}
  BY DEF NoEdits
<1>1. CASE UNCHANGED vars
  BY <1>1 DEF vars, procVars
<1>2. ASSUME NEW p \in Procs, BeginPull(p) \/ Load(p) PROVE FreshInv'
  BY <1>2 DEF BeginPull, Load
<1>3. ASSUME NEW p \in Procs, LockStep(p) PROVE FreshInv'
  BY <1>3 DEF LockStep, Mkdir, WriteToken, TokenFails, Cleanup, SeesStale, SleepAndRetry,
         DeadlinePasses, BreakStale, ReadOwner, Unlock, AfterLock, procVars
<1>4. ASSUME NEW p \in Procs, CompareDigest(p) \/ StillHeld(p) PROVE FreshInv'
  BY <1>4 DEF CompareDigest, StillHeld, procVars
<1>5. ASSUME NEW p \in Procs, Rename(p) PROVE FreshInv'
  <2>1. \A q \in Procs : q # p => pc[q] \notin {"held", "rename"}
    BY <1>5 DEF Rename, LockInv, Made, Holding
  <2>2. QED
    BY <1>5, <2>1 DEF Rename
<1>6. ASSUME NEW p \in Procs, FastForward(p) PROVE FreshInv'
  BY <1>0, <1>6 DEF FastForward
<1>7. ASSUME NEW p \in Procs, PublishStep(p) PROVE FreshInv'
  BY <1>0, <1>7 DEF PublishStep, Commit, Push, Reconcile, procVars
<1>8. ASSUME NEW p \in Procs, Crash(p) PROVE FreshInv'
  BY <1>8 DEF Crash, procVars
<1>9. ASSUME NEW e \in Edits, HandEdit(e) PROVE FreshInv'
  BY <1>9 DEF NoEdits
<1>10. CASE Age
  BY <1>10 DEF Age, procVars
<1>11. QED
  BY <1>1, <1>2, <1>3, <1>4, <1>5, <1>6, <1>7, <1>8, <1>9, <1>10 DEF Next, RunStep, InsideStep

(* The first state maps to the first state of StoreCAS.                     *)
LEMMA CASInit == Init => CAS!Init
  BY DEF Init, CAS!Init

(* Every step maps to a step of StoreCAS or to none.                        *)
LEMMA CASStep ==
    ASSUME NoEdits, SafeInv, FreshInv, [Next]_vars
    PROVE  [CAS!Next]_CAS!vars
<1> USE DEF SafeInv, Typed, TypeOK, FreshInv, Goto, CAS!vars
<1>0. incoming = {} /\ merging = {}
  BY DEF NoEdits
<1>1. CASE UNCHANGED vars
  BY <1>1 DEF vars, procVars
<1>2. ASSUME NEW p \in Procs, BeginPull(p) PROVE UNCHANGED CAS!vars
  BY <1>2 DEF BeginPull
<1>3. ASSUME NEW p \in Procs, Load(p) PROVE CAS!Look(p)
  BY <1>3 DEF Load, CAS!Look
<1>4. ASSUME NEW p \in Procs, LockStep(p) PROVE UNCHANGED CAS!vars
  BY <1>4 DEF LockStep, Mkdir, WriteToken, TokenFails, Cleanup, SeesStale, SleepAndRetry,
         DeadlinePasses, BreakStale, ReadOwner, Unlock, procVars
<1>5. ASSUME NEW p \in Procs, CompareDigest(p) \/ StillHeld(p) PROVE UNCHANGED CAS!vars
  BY <1>5 DEF CompareDigest, StillHeld, procVars
<1>6. ASSUME NEW p \in Procs, Rename(p) PROVE CAS!Replace(p)
  <2>1. file = base[p] /\ draft[p] = FactsOf(base[p]) \cup {p}
    BY <1>6 DEF Rename, DraftInv, Locked
  <2>2. QED
    BY <1>6, <2>1 DEF Rename, CAS!Replace, CAS!FactsOf, FactsOf
<1>7. ASSUME NEW p \in Procs, FastForward(p) PROVE UNCHANGED CAS!vars
  BY <1>0, <1>7 DEF FastForward
<1>8. ASSUME NEW p \in Procs, PublishStep(p) PROVE UNCHANGED CAS!vars
  BY <1>0, <1>8 DEF PublishStep, Commit, Push, Reconcile, procVars
<1>9. ASSUME NEW p \in Procs, Crash(p) PROVE UNCHANGED CAS!vars
  BY <1>9 DEF Crash, procVars
<1>10. ASSUME NEW e \in Edits, HandEdit(e) PROVE FALSE
  BY <1>10 DEF NoEdits
<1>11. CASE Age
  BY <1>11 DEF Age, procVars
<1>12. QED
  BY <1>1, <1>2, <1>3, <1>4, <1>5, <1>6, <1>7, <1>8, <1>9, <1>10, <1>11
     DEF Next, RunStep, InsideStep, CAS!Next

(* With no broken lock and no hand edit, every behaviour of the processes   *)
(* is one of the atomic compare-and-replace.                                *)
THEOREM StoreImplementsCAS == ASSUME NeverBroken, NoEdits PROVE Spec => ImplementsCAS
<1>1. Init => SafeInv /\ FreshInv
  BY SafeInit DEF Init, FreshInv
<1>2. SafeInv /\ FreshInv /\ [Next]_vars => (SafeInv /\ FreshInv)'
  BY SafeStep, FreshStep DEF SafeInv
<1>3. SafeInv /\ FreshInv /\ [Next]_vars => [CAS!Next]_CAS!vars
  BY CASStep
<1>4. QED
  BY CASInit, <1>1, <1>2, <1>3, PTL DEF Spec, ImplementsCAS, CAS!Spec

=============================================================================
