--------------------------- MODULE BrewSyncProofs ---------------------------
(***************************************************************************)
(* Proofs about BrewSync, for any machines, packages and bounds: its type  *)
(* correctness, its safety invariants, and that a removal is respected     *)
(* while commands take turns.                                              *)
(***************************************************************************)
EXTENDS BrewSync, FiniteSetTheorems, WellFoundedInduction, TLAPS

(* What Snapshot publishes is well formed, and carries one verdict for each *)
(* package if the previous file did.                                        *)
LEMMA SnapshotType ==
  ASSUME NEW b \in Brews, NEW prev \in Inventories, NEW t \in Times
  PROVE  Snapshot(b, prev, t) \in Inventories
<1>1. Times \subseteq Stamps /\ None \in Stamps
  BY DEF Stamps
<1>2. \A r \in Refs : b[r].state = "asked" => b[r].at \in Times
  BY DEF Brews
<1>3. [r \in Refs |-> IF b[r].state = "asked" THEN b[r].at ELSE None] \in [Refs -> Stamps]
  BY <1>1, <1>2
<1>4. \A r \in Refs : RetiredStamp(b, prev, t, r) \in Stamps
  BY <1>1 DEF RetiredStamp, Retire, Inventories
<1>5. [r \in Refs |-> IF BrewHas(b, r) THEN prev.ack[r] ELSE None] \in [Refs -> Stamps]
  BY <1>1 DEF Inventories
<1>6. {r \in prev.opt : b[r].state # "asked"} \in SUBSET Refs
  BY DEF Inventories
<1>7. QED
  BY <1>3, <1>4, <1>5, <1>6 DEF Snapshot, Inventories

(* Snapshot keeps a file whose verdicts do not contradict each other so.    *)
LEMMA SnapshotVerdict ==
  ASSUME NEW b \in Brews, NEW prev \in Inventories, NEW t \in Times, OneVerdict(prev)
  PROVE  OneVerdict(Snapshot(b, prev, t))
<1> SUFFICES ASSUME NEW r \in Refs
             PROVE  /\ Has(Snapshot(b, prev, t), r) =>
                         /\ Snapshot(b, prev, t).ret[r] = None
                         /\ r \notin Snapshot(b, prev, t).opt
                    /\ r \in Snapshot(b, prev, t).opt => Snapshot(b, prev, t).ret[r] = None
  BY DEF OneVerdict
<1>1. CASE b[r].state = "asked"
  BY <1>1 DEF Snapshot, RetiredStamp
<1>2. CASE b[r].state # "asked"
  <2>1. ~Has(Snapshot(b, prev, t), r)
    BY <1>2 DEF Has, Snapshot
  <2>2. ASSUME r \in prev.opt PROVE Snapshot(b, prev, t).ret[r] = None
    <3>1. prev.ret[r] = None /\ ~Has(prev, r)
      BY <2>2 DEF OneVerdict
    <3>2. QED
      BY <1>2, <3>1 DEF Snapshot, RetiredStamp
  <2>3. QED
    BY <2>1, <2>2 DEF Snapshot
<1>3. QED
  BY <1>1, <1>2

-----------------------------------------------------------------------------
(* Typing.                                                                  *)
LEMMA TimesNat == Times \subseteq Nat /\ 0 \in Times /\ Times \subseteq Stamps /\ None \in Stamps
BY PlanAssumption DEF PlanAssumption, Times, Stamps

(* The first state is well typed.                                           *)
LEMMA TypeInit == Init => TypeOK
<1> SUFFICES ASSUME Init PROVE TypeOK
  OBVIOUS
<1>1. now \in Times /\ began \in [Machines -> Times]
  BY TimesNat DEF Init
<1>2. brew \in [Machines -> Brews] /\ wanted \in [Refs -> Stamps]
  BY TimesNat DEF Init, Brews
<1>3. remote \in [Machines -> Inventories]
  BY TimesNat DEF Init, Inventories
<1>4. clone \in [Machines -> [Machines -> Inventories]]
  BY <1>3 DEF Init
<1>5. removed \in [Machines -> [Refs -> Stamps]]
  BY TimesNat DEF Init
<1>6. QED
  BY <1>1, <1>2, <1>3, <1>4, <1>5 DEF Init, TypeOK, YesNo

(* What a pull leaves in a clone is well typed.                             *)
LEMMA PulledType ==
  ASSUME TypeOK, NEW m \in Machines
  PROVE  Pulled(m) \in [Machines -> Inventories]
BY DEF Pulled, TypeOK

(* A machine after `brew install` or `brew uninstall` is one Homebrew can   *)
(* be in.                                                                   *)
LEMMA InstalledType ==
  ASSUME NEW b \in Brews, NEW r \in Refs, now \in Times
  PROVE  Installed(b, r) \in Brews /\ Uninstalled(b, r) \in Brews
<1>1. Installed(b, r) \in Brews
  BY DEF Installed, Brews
<1>2. Uninstalled(b, r) \in Brews
  BY TimesNat DEF Uninstalled, Brews
<1>3. QED
  BY <1>1, <1>2

(* The inventory a command commits: a snapshot, with at most one answer or  *)
(* opt-out added.                                                           *)
Fresh(m) == Snapshot(brew[m], clone[m][m], now)
Derived(m, inv) == \/ inv = Fresh(m)
                   \/ \E o \in offers[m] : inv = Acknowledged(Fresh(m), o)
                   \/ \E r \in Refs : ~Has(Fresh(m), r) /\ inv = OptedOut(Fresh(m), r)

(* What a command writes into its own file, before it commits, is a file.   *)
LEMMA DerivedType ==
  ASSUME TypeOK, NEW m \in Machines, NEW inv, Derived(m, inv)
  PROVE  inv \in Inventories
<1>1. Fresh(m) \in Inventories
  BY SnapshotType DEF TypeOK, Fresh
<1>2. ASSUME NEW o \in Offers PROVE Acknowledged(Fresh(m), o) \in Inventories
  <2>1. o.ref \in Refs /\ o.at \in Stamps
    BY TimesNat DEF Offers
  <2>2. QED
    BY <1>1, <2>1 DEF Acknowledged, Inventories
<1>3. ASSUME NEW r \in Refs PROVE OptedOut(Fresh(m), r) \in Inventories
  BY <1>1, TimesNat DEF OptedOut, Inventories
<1>4. offers[m] \subseteq Offers
  BY DEF TypeOK
<1>5. QED
  BY <1>1, <1>2, <1>3, <1>4 DEF Derived

(* A commit of such a file keeps the clones well typed.                     *)
LEMMA CommitType ==
  ASSUME TypeOK, NEW m \in Machines, NEW files \in [Machines -> Inventories],
         NEW inv \in Inventories, NEW after \in {"idle", "plan", "work"},
         CommitAs(m, files, inv, after)
  PROVE  /\ clone' \in [Machines -> [Machines -> Inventories]]
         /\ pc' \in [Machines -> {"idle", "push", "reconcile", "repush", "plan", "work"}]
         /\ unpushed' \in [Machines -> YesNo]
         /\ next' \in [Machines -> {"idle", "plan", "work"}]
<1>1. [files EXCEPT ![m] = inv] \in [Machines -> Inventories]
  OBVIOUS
<1>2. clone' \in [Machines -> [Machines -> Inventories]]
  BY <1>1 DEF CommitAs, TypeOK
<1>3. pc' \in [Machines -> {"idle", "push", "reconcile", "repush", "plan", "work"}]
  BY DEF CommitAs, TypeOK
<1>4. unpushed' \in [Machines -> YesNo]
  BY DEF CommitAs, TypeOK, YesNo
<1>5. next' \in [Machines -> {"idle", "plan", "work"}]
  BY DEF CommitAs, TypeOK
<1>6. QED
  BY <1>2, <1>3, <1>4, <1>5

(* The time of a removal is a stamp, and nobody keeps more after it.        *)
LEMMA RemovalType ==
  ASSUME TypeOK, NEW m \in Machines, NEW r \in Refs, RemovalIsSeen(m, r)
  PROVE  /\ removed' \in [Machines -> [Refs -> Stamps]]
         /\ kept' \in [Machines -> SUBSET Refs]
<1>1. now \in Stamps
  BY TimesNat DEF TypeOK
<1>2. removed' \in [Machines -> [Refs -> Stamps]]
  BY <1>1 DEF RemovalIsSeen, TypeOK
<1>3. kept' \in [Machines -> SUBSET Refs]
  BY DEF RemovalIsSeen, TypeOK
<1>4. QED
  BY <1>2, <1>3

(* A person's step keeps the types.                                         *)
LEMMA PersonType ==
  ASSUME TypeOK, NEW m \in Machines, Person(m)
  PROVE  TypeOK'
<1>1. ASSUME NEW r \in Refs, BrewInstall(m, r) PROVE TypeOK'
  <2>1. brew' \in [Machines -> Brews]
    BY <1>1, InstalledType DEF BrewInstall, TypeOK
  <2>2. wanted' \in [Refs -> Stamps]
    BY <1>1, TimesNat DEF BrewInstall, TypeOK
  <2>3. kept' \in [Machines -> SUBSET Refs]
    BY <1>1 DEF BrewInstall, TypeOK
  <2>4. deeds' \in Nat
    BY <1>1 DEF BrewInstall, ByHand, Deed, TypeOK
  <2>5. QED
    BY <1>1, <2>1, <2>2, <2>3, <2>4 DEF BrewInstall, gitVars, runVars, workVars, TypeOK
<1>2. ASSUME NEW r \in Refs, BrewUninstall(m, r) PROVE TypeOK'
  <2>1. brew' \in [Machines -> Brews]
    BY <1>2, InstalledType DEF BrewUninstall, TypeOK
  <2>2. removed' \in [Machines -> [Refs -> Stamps]]
    BY <1>2, RemovalType DEF BrewUninstall
  <2>3. kept' \in [Machines -> SUBSET Refs]
    BY <1>2, RemovalType DEF BrewUninstall
  <2>4. deeds' \in Nat
    BY <1>2 DEF BrewUninstall, ByHand, Deed, TypeOK
  <2>5. QED
    BY <1>2, <2>1, <2>2, <2>3, <2>4 DEF BrewUninstall, gitVars, runVars, workVars, TypeOK
<1>3. ASSUME NEW r \in Refs, BecomesDependency(m, r) PROVE TypeOK'
  <2>1. brew' \in [Machines -> Brews]
    <3>1. [brew[m] EXCEPT ![r].state = "dep"] \in Brews
      <4>1. brew[m] \in [Refs -> [state : {"none", "dep", "asked"}, at : Times]]
        BY DEF TypeOK, Brews
      <4>2. [brew[m][r] EXCEPT !.state = "dep"] \in [state : {"none", "dep", "asked"}, at : Times]
        BY <4>1
      <4>3. QED
        BY <4>1, <4>2 DEF Brews
    <3>2. brew' = [brew EXCEPT ![m] = [brew[m] EXCEPT ![r].state = "dep"]]
      BY <1>3 DEF BecomesDependency
    <3>3. QED
      BY <3>1, <3>2 DEF TypeOK
  <2>2. deeds' \in Nat
    BY <1>3 DEF BecomesDependency, ByHand, Deed, TypeOK
  <2>3. QED
    BY <1>3, <2>1, <2>2 DEF BecomesDependency, gitVars, runVars, workVars, histVars, TypeOK
<1>4. ASSUME NEW r \in Refs, Skip(m, r) PROVE TypeOK'
  <2>1. Pulled(m) \in [Machines -> Inventories]
    BY PulledType
  <2>2. deeds' \in Nat /\ behind' \in [Machines -> YesNo]
    BY <1>4 DEF Skip, Deed, Open, TypeOK, YesNo
  <2>3. /\ clone' \in [Machines -> [Machines -> Inventories]]
        /\ pc' \in [Machines -> {"idle", "push", "reconcile", "repush", "plan", "work"}]
        /\ unpushed' \in [Machines -> YesNo]
        /\ next' \in [Machines -> {"idle", "plan", "work"}]
    <3>1. CASE clone' = [clone EXCEPT ![m] = Pulled(m)] /\ UNCHANGED <<pc, unpushed, next>>
      BY <2>1, <3>1 DEF TypeOK
    <3>2. CASE ~Has(Fresh(m), r) /\ CommitAs(m, Pulled(m), OptedOut(Fresh(m), r), "idle")
      <4>1. OptedOut(Fresh(m), r) \in Inventories
        BY <3>2, DerivedType DEF Derived
      <4>2. QED
        BY <2>1, <3>2, <4>1, CommitType
    <3>3. QED
      BY <1>4, <3>1, <3>2 DEF Skip, Fresh
  <2>4. QED
    BY <1>4, <2>2, <2>3 DEF Skip, workVars, histVars, TypeOK
<1>5. ASSUME Update(m) PROVE TypeOK'
  <2>1. \A k \in Machines, r \in Refs : [brew[k][r] EXCEPT !.at = now] \in
           [state : {"none", "dep", "asked"}, at : Times]
    <3> SUFFICES ASSUME NEW k \in Machines, NEW r \in Refs
                 PROVE  [brew[k][r] EXCEPT !.at = now] \in [state : {"none", "dep", "asked"}, at : Times]
      OBVIOUS
    <3>1. brew[k][r] \in [state : {"none", "dep", "asked"}, at : Times] /\ now \in Times
      BY DEF TypeOK, Brews
    <3>2. QED
      BY <3>1
  <2>2. brew' \in [Machines -> Brews]
    <3>1. PICK outdated \in SUBSET {r \in Refs : BrewHas(brew[m], r)} :
             brew' = [brew EXCEPT ![m] = [r \in Refs |->
                        IF r \in outdated THEN [@[r] EXCEPT !.at = now] ELSE @[r]]]
      BY <1>5 DEF Update
    <3>2. [r \in Refs |-> IF r \in outdated THEN [brew[m][r] EXCEPT !.at = now] ELSE brew[m][r]]
             \in Brews
      BY <2>1 DEF TypeOK, Brews
    <3>3. QED
      BY <3>1, <3>2 DEF TypeOK
  <2>3. clone' \in [Machines -> [Machines -> Inventories]]
    BY <1>5, PulledType DEF Update, TypeOK
  <2>4. behind' \in [Machines -> YesNo] /\ changed' \in [Machines -> YesNo] /\ deeds' \in Nat
    BY <1>5 DEF Update, Open, Deed, TypeOK, YesNo
  <2>5. pc' \in [Machines -> {"idle", "push", "reconcile", "repush", "plan", "work"}]
    BY <1>5 DEF Update, TypeOK
  <2>6. QED
    BY <1>5, <2>2, <2>3, <2>4, <2>5 DEF Update, runVars, histVars, TypeOK
<1>6. ASSUME Escape(m) PROVE TypeOK'
  <2>1. offers' \in [Machines -> SUBSET Offers] /\ deeds' \in Nat
    BY <1>6 DEF Escape, Deed, TypeOK
  <2>2. QED
    BY <1>6, <2>1 DEF Escape, gitVars, runVars, histVars, TypeOK
<1>7. QED
  BY <1>1, <1>2, <1>3, <1>4, <1>5, <1>6 DEF Person

(* The steps of the commands that fetch, derive a file and commit it keep   *)
(* the types.                                                               *)
LEMMA RunType ==
  ASSUME TypeOK, NEW m \in Machines, Run(m)
  PROVE  TypeOK'
<1>1. Pulled(m) \in [Machines -> Inventories]
  BY PulledType
<1>2. ASSUME Sync(m) PROVE TypeOK'
  <2>1. Fresh(m) \in Inventories
    BY DerivedType DEF Derived
  <2>2. CommitAs(m, Pulled(m), Fresh(m), "plan")
    BY <1>2 DEF Sync, Fresh
  <2>3. /\ clone' \in [Machines -> [Machines -> Inventories]]
        /\ pc' \in [Machines -> {"idle", "push", "reconcile", "repush", "plan", "work"}]
        /\ unpushed' \in [Machines -> YesNo]
        /\ next' \in [Machines -> {"idle", "plan", "work"}]
    BY <1>1, <2>1, <2>2, CommitType
  <2>4. behind' \in [Machines -> YesNo] /\ began' \in [Machines -> Times]
        /\ apply' \in [Machines -> YesNo]
    BY <1>2 DEF Sync, Open, TypeOK, YesNo
  <2>5. QED
    BY <1>2, <2>3, <2>4 DEF Sync, workVars, histVars, TypeOK
<1>3. ASSUME NEW install \in BOOLEAN, NEW ask \in BOOLEAN, Apply(m, install, ask) PROVE TypeOK'
  <2>1. clone' \in [Machines -> [Machines -> Inventories]]
    BY <1>1, <1>3 DEF Apply, TypeOK
  <2>2. todo' \in [Machines -> SUBSET Refs]
    BY <1>3 DEF Apply, Installs, TypeOK
  <2>3. offers' \in [Machines -> SUBSET Offers]
    BY <1>3 DEF Apply, Removals, TypeOK
  <2>4. pc' \in [Machines -> {"idle", "push", "reconcile", "repush", "plan", "work"}]
    BY <1>3 DEF Apply, TypeOK
  <2>5. behind' \in [Machines -> YesNo]
    BY <1>3 DEF Apply, Open, TypeOK, YesNo
  <2>6. QED
    BY <1>3, <2>1, <2>2, <2>3, <2>4, <2>5 DEF Apply, runVars, histVars, TypeOK
<1>4. QED
  BY <1>2, <1>3 DEF Run

(* A push that lands keeps the types.                                       *)
LEMMA LandsType ==
  ASSUME TypeOK, NEW m \in Machines, Lands(m)
  PROVE  /\ remote' \in [Machines -> Inventories]
         /\ unpushed' \in [Machines -> YesNo]
         /\ behind' \in [Machines -> YesNo]
         /\ pc' \in [Machines -> {"idle", "push", "reconcile", "repush", "plan", "work"}]
         /\ faults' \in Nat
BY DEF Lands, TypeOK, YesNo

(* So do a command that gives up and one that goes on after its push.       *)
LEMMA AbortType ==
  ASSUME TypeOK, NEW m \in Machines, Abort(m) \/ Carry(m)
  PROVE  /\ apply' \in [Machines -> YesNo] /\ began' \in [Machines -> Times]
         /\ offers' \in [Machines -> SUBSET Offers] /\ agreed' \in [Machines -> SUBSET Refs]
         /\ changed' \in [Machines -> YesNo]
         /\ Abort(m) => pc' \in [Machines -> {"idle", "push", "reconcile", "repush", "plan", "work"}]
<1>1. CASE Abort(m)
  <2>1. apply' \in [Machines -> YesNo] /\ changed' \in [Machines -> YesNo]
    BY <1>1 DEF Abort, TypeOK, YesNo
  <2>2. began' \in [Machines -> Times]
    BY <1>1, TimesNat DEF Abort, TypeOK
  <2>3. offers' \in [Machines -> SUBSET Offers] /\ agreed' \in [Machines -> SUBSET Refs]
    BY <1>1 DEF Abort, TypeOK
  <2>4. pc' \in [Machines -> {"idle", "push", "reconcile", "repush", "plan", "work"}]
    BY <1>1 DEF Abort, TypeOK
  <2>5. QED
    BY <2>1, <2>2, <2>3, <2>4
<1>2. CASE Carry(m) /\ ~Abort(m)
  BY <1>2 DEF Carry, TypeOK
<1>3. QED
  BY <1>1, <1>2

(* Another failure keeps their count a number.                              *)
LEMMA FaultType == TypeOK /\ Fault => faults' \in Nat
BY DEF TypeOK, Fault

(* A refused push publishes nothing.                                        *)
LEMMA RefusedType ==
  ASSUME TypeOK, NEW m \in Machines, Refused(m)
  PROVE  faults' \in Nat /\ UNCHANGED <<remote, unpushed, behind>>
BY FaultType DEF Refused, TypeOK

(* Every step of a machine keeps the types.                                 *)
LEMMA StepType ==
  ASSUME TypeOK, NEW m \in Machines, Step(m)
  PROVE  TypeOK'
<1>1. ASSUME PlanSync(m) PROVE TypeOK'
  <2>1. todo' \in [Machines -> SUBSET Refs]
    BY <1>1 DEF PlanSync, Installs, TypeOK
  <2>2. pc' \in [Machines -> {"idle", "push", "reconcile", "repush", "plan", "work"}]
    BY <1>1 DEF PlanSync, TypeOK
  <2>3. apply' \in [Machines -> YesNo] /\ began' \in [Machines -> Times]
    BY <1>1, TimesNat DEF PlanSync, TypeOK, YesNo
  <2>4. QED
    BY <1>1, <2>1, <2>2, <2>3 DEF PlanSync, gitVars, histVars, TypeOK
<1>2. ASSUME Finish(m) PROVE TypeOK'
  <2>1. /\ clone' \in [Machines -> [Machines -> Inventories]]
        /\ pc' \in [Machines -> {"idle", "push", "reconcile", "repush", "plan", "work"}]
        /\ unpushed' \in [Machines -> YesNo]
        /\ next' \in [Machines -> {"idle", "plan", "work"}]
    <3>1. CASE changed[m] = "yes"
      <4>1. Fresh(m) \in Inventories /\ clone[m] \in [Machines -> Inventories]
        BY DerivedType DEF Derived, TypeOK
      <4>2. CommitAs(m, clone[m], Fresh(m), "idle")
        BY <1>2, <3>1 DEF Finish, Fresh
      <4>3. QED
        BY <4>1, <4>2, CommitType
    <3>2. CASE changed[m] # "yes"
      BY <1>2, <3>2 DEF Finish, TypeOK
    <3>3. QED
      BY <3>1, <3>2
  <2>2. changed' \in [Machines -> YesNo]
    BY <1>2 DEF Finish, TypeOK, YesNo
  <2>3. QED
    BY <1>2, <2>1, <2>2 DEF Finish, histVars, TypeOK
<1>3. ASSUME Push(m) PROVE TypeOK'
  <2>1. /\ apply' \in [Machines -> YesNo] /\ began' \in [Machines -> Times]
        /\ offers' \in [Machines -> SUBSET Offers] /\ agreed' \in [Machines -> SUBSET Refs]
        /\ changed' \in [Machines -> YesNo]
    BY <1>3, AbortType DEF Push
  <2>2. /\ remote' \in [Machines -> Inventories]
        /\ unpushed' \in [Machines -> YesNo] /\ behind' \in [Machines -> YesNo]
        /\ pc' \in [Machines -> {"idle", "push", "reconcile", "repush", "plan", "work"}]
        /\ faults' \in Nat
    <3>1. CASE Lands(m)
      BY <3>1, LandsType
    <3>2. CASE Refused(m) /\ pc' = [pc EXCEPT ![m] = "reconcile"]
      BY <3>2, RefusedType DEF TypeOK
    <3>3. QED
      BY <1>3, <3>1, <3>2 DEF Push
  <2>3. QED
    BY <1>3, <2>1, <2>2 DEF Push, histVars, TypeOK
<1>4. ASSUME Reconcile(m) PROVE TypeOK'
  <2>1. /\ apply' \in [Machines -> YesNo] /\ began' \in [Machines -> Times]
        /\ offers' \in [Machines -> SUBSET Offers] /\ agreed' \in [Machines -> SUBSET Refs]
        /\ changed' \in [Machines -> YesNo]
    BY <1>4, AbortType DEF Reconcile
  <2>2. clone' \in [Machines -> [Machines -> Inventories]]
    <3>1. CASE clone' = [clone EXCEPT ![m] = Pulled(m)]
      BY <3>1, PulledType DEF TypeOK
    <3>2. CASE clone' = clone
      BY <3>2 DEF TypeOK
    <3>3. QED
      BY <1>4, <3>1, <3>2 DEF Reconcile
  <2>3. behind' \in [Machines -> YesNo]
    BY <1>4 DEF Reconcile, TypeOK, YesNo
  <2>4. pc' \in [Machines -> {"idle", "push", "reconcile", "repush", "plan", "work"}]
    BY <1>4, AbortType DEF Reconcile, TypeOK
  <2>5. faults' \in Nat
    BY <1>4, FaultType DEF Reconcile, TypeOK
  <2>6. QED
    BY <1>4, <2>1, <2>2, <2>3, <2>4, <2>5 DEF Reconcile, histVars, TypeOK
<1>5. ASSUME PushAgain(m) PROVE TypeOK'
  <2>1. /\ apply' \in [Machines -> YesNo] /\ began' \in [Machines -> Times]
        /\ offers' \in [Machines -> SUBSET Offers] /\ agreed' \in [Machines -> SUBSET Refs]
        /\ changed' \in [Machines -> YesNo]
    BY <1>5, AbortType DEF PushAgain
  <2>2. /\ remote' \in [Machines -> Inventories]
        /\ unpushed' \in [Machines -> YesNo] /\ behind' \in [Machines -> YesNo]
        /\ pc' \in [Machines -> {"idle", "push", "reconcile", "repush", "plan", "work"}]
        /\ faults' \in Nat
    <3>1. CASE Lands(m)
      BY <3>1, LandsType
    <3>2. CASE Refused(m) /\ Abort(m)
      BY <3>2, RefusedType, AbortType DEF TypeOK
    <3>3. QED
      BY <1>5, <3>1, <3>2 DEF PushAgain
  <2>3. QED
    BY <1>5, <2>1, <2>2 DEF PushAgain, histVars, TypeOK
<1>6. ASSUME NEW r \in Refs, InstallOne(m, r) PROVE TypeOK'
  <2>1. brew' \in [Machines -> Brews]
    <3>1. CASE brew' = [brew EXCEPT ![m] = Installed(brew[m], r)]
      BY <3>1, InstalledType DEF TypeOK
    <3>2. CASE brew' = brew
      BY <3>2 DEF TypeOK
    <3>3. QED
      BY <1>6, <3>1, <3>2 DEF InstallOne
  <2>2. todo' \in [Machines -> SUBSET Refs]
    BY <1>6 DEF InstallOne, TypeOK
  <2>3. changed' \in [Machines -> YesNo] /\ faults' \in Nat
    BY <1>6, FaultType DEF InstallOne, TypeOK, YesNo
  <2>4. QED
    BY <1>6, <2>1, <2>2, <2>3 DEF InstallOne, gitVars, runVars, histVars, TypeOK
<1>7. ASSUME NEW r \in Refs, RemoveOne(m, r) PROVE TypeOK'
  <2>1. brew' \in [Machines -> Brews]
    BY <1>7, InstalledType DEF RemoveOne, TypeOK
  <2>2. agreed' \in [Machines -> SUBSET Refs]
    BY <1>7 DEF RemoveOne, TypeOK
  <2>3. changed' \in [Machines -> YesNo] /\ faults' \in Nat
    BY <1>7, FaultType DEF RemoveOne, TypeOK, YesNo
  <2>4. removed' \in [Machines -> [Refs -> Stamps]]
    BY <1>7, RemovalType DEF RemoveOne, TypeOK
  <2>5. kept' \in [Machines -> SUBSET Refs]
    BY <1>7, RemovalType DEF RemoveOne, TypeOK
  <2>6. QED
    BY <1>7, <2>1, <2>2, <2>3, <2>4, <2>5 DEF RemoveOne, gitVars, runVars, TypeOK
<1>8. ASSUME NEW o \in Offers, Agree(m, o) PROVE TypeOK'
  <2>1. o.ref \in Refs
    BY DEF Offers
  <2>2. offers' \in [Machines -> SUBSET Offers] /\ agreed' \in [Machines -> SUBSET Refs]
    BY <1>8, <2>1 DEF Agree, TypeOK
  <2>3. QED
    BY <1>8, <2>2 DEF Agree, gitVars, runVars, histVars, TypeOK
<1>9. ASSUME NEW o \in Offers, Keep(m, o) PROVE TypeOK'
  <2>1. offers' \in [Machines -> SUBSET Offers]
    BY <1>9 DEF Keep, TypeOK
  <2>2. o.ref \in Refs
    BY DEF Offers
  <2>3. kept' \in [Machines -> SUBSET Refs]
    BY <1>9, <2>2 DEF Keep, TypeOK
  <2>4. /\ clone' \in [Machines -> [Machines -> Inventories]]
        /\ pc' \in [Machines -> {"idle", "push", "reconcile", "repush", "plan", "work"}]
        /\ unpushed' \in [Machines -> YesNo]
        /\ next' \in [Machines -> {"idle", "plan", "work"}]
    <3>1. CASE UNCHANGED <<clone, unpushed, pc, next>>
      BY <3>1 DEF TypeOK
    <3>2. CASE CommitAs(m, clone[m], Acknowledged(Fresh(m), o), "work")
      <4>1. Acknowledged(Fresh(m), o) \in Inventories /\ clone[m] \in [Machines -> Inventories]
        BY <1>9, DerivedType DEF Derived, Keep, TypeOK
      <4>2. QED
        BY <3>2, <4>1, CommitType
    <3>3. QED
      BY <1>9, <3>1, <3>2 DEF Keep, Fresh
  <2>5. QED
    BY <1>9, <2>1, <2>3, <2>4 DEF Keep, TypeOK
<1>10. QED
  BY <1>1, <1>2, <1>3, <1>4, <1>5, <1>6, <1>7, <1>8, <1>9 DEF Step

(* So does every step of the system.                                        *)
LEMMA TypeStep == TypeOK /\ [Next]_vars => TypeOK'
<1> SUFFICES ASSUME TypeOK, [Next]_vars PROVE TypeOK'
  OBVIOUS
<1>1. CASE UNCHANGED vars
  BY <1>1 DEF vars, gitVars, runVars, workVars, histVars, TypeOK
<1>2. CASE Tick
  <2>1. now' \in Times
    BY <1>2, PlanAssumption DEF Tick, TypeOK, Times, PlanAssumption
  <2>2. QED
    BY <1>2, <2>1 DEF Tick, gitVars, runVars, workVars, histVars, TypeOK
<1>3. QED
  BY <1>1, <1>2, PersonType, StepType, RunType DEF Next

(* Every reachable state is well typed: no stamp leaves the clock's range   *)
(* and no file is ever malformed, whatever fails and whoever pushes.        *)
THEOREM TypeCorrect == Spec => []TypeOK
<1>1. Init => TypeOK
  BY TypeInit
<1>2. TypeOK /\ [Next]_vars => TypeOK'
  BY TypeStep
<1>3. QED
  BY <1>1, <1>2, PTL DEF Spec

-----------------------------------------------------------------------------
(* What a step does to the repository and its clones: nothing, a fetch with *)
(* perhaps a commit on top, a commit, or a push that lands.                 *)
Still == UNCHANGED <<remote, clone, behind>>
Commits(m) == /\ UNCHANGED <<remote, behind, brew>>
              /\ \E inv : Derived(m, inv) /\ clone' = [clone EXCEPT ![m] = [clone[m] EXCEPT ![m] = inv]]
Fetches(m) == /\ UNCHANGED remote
              /\ behind' = [behind EXCEPT ![m] = "no"]
              /\ \E inv : /\ inv = clone[m][m] \/ (Derived(m, inv) /\ UNCHANGED brew)
                          /\ clone' = [clone EXCEPT ![m] = [Pulled(m) EXCEPT ![m] = inv]]
Shares(m) == pc[m] \in {"push", "repush"} /\ Lands(m) /\ UNCHANGED <<clone, brew>>

(* A pull leaves a machine's own file alone.                                *)
LEMMA PulledOwn ==
  ASSUME NEW m \in Machines
  PROVE  Pulled(m) = [Pulled(m) EXCEPT ![m] = clone[m][m]]
BY DEF Pulled

(* What one step can do to the clones and to what is published: a fetch of  *)
(* published files, a machine's own commit, or a push of it.                *)
LEMMA GitStep ==
  ASSUME TypeOK, [Next]_vars
  PROVE  Still \/ \E m \in Machines : Commits(m) \/ Fetches(m) \/ Shares(m)
<1>1. CASE UNCHANGED vars \/ Tick
  BY <1>1 DEF Tick, Still, vars, gitVars
<1>2. ASSUME NEW m \in Machines, Person(m)
      PROVE  Still \/ Fetches(m)
  <2>1. ASSUME NEW r \in Refs, BrewInstall(m, r) \/ BrewUninstall(m, r) \/ BecomesDependency(m, r)
        PROVE  Still
    BY <2>1 DEF BrewInstall, BrewUninstall, BecomesDependency, Still, gitVars
  <2>2. ASSUME NEW r \in Refs, Skip(m, r) PROVE Fetches(m)
    <3>1. UNCHANGED remote /\ UNCHANGED brew /\ behind' = [behind EXCEPT ![m] = "no"]
      BY <2>2 DEF Skip, Open
    <3>2. CASE clone' = [clone EXCEPT ![m] = Pulled(m)]
      BY <3>1, <3>2, PulledOwn DEF Fetches
    <3>3. CASE ~Has(Fresh(m), r) /\ CommitAs(m, Pulled(m), OptedOut(Fresh(m), r), "idle")
      BY <3>1, <3>3 DEF Fetches, CommitAs, Derived
    <3>4. QED
      BY <2>2, <3>2, <3>3 DEF Skip, Fresh
  <2>3. ASSUME Update(m) PROVE Fetches(m)
    BY <2>3, PulledOwn DEF Update, Open, Fetches
  <2>4. ASSUME Escape(m) PROVE Still
    BY <2>4 DEF Escape, Still, gitVars
  <2>5. QED
    BY <1>2, <2>1, <2>2, <2>3, <2>4 DEF Person
<1>3. ASSUME NEW m \in Machines, Run(m)
      PROVE  Fetches(m)
  <2>1. ASSUME Sync(m) PROVE Fetches(m)
    <3>1. CommitAs(m, Pulled(m), Fresh(m), "plan") /\ Derived(m, Fresh(m))
      BY <2>1 DEF Sync, Fresh, Derived
    <3>2. QED
      BY <2>1, <3>1 DEF Sync, Open, CommitAs, Fetches
  <2>2. ASSUME NEW install \in BOOLEAN, NEW ask \in BOOLEAN, Apply(m, install, ask)
        PROVE  Fetches(m)
    BY <2>2, PulledOwn DEF Apply, Open, Fetches
  <2>3. QED
    BY <1>3, <2>1, <2>2 DEF Run
<1>4. ASSUME NEW m \in Machines, Step(m)
      PROVE  Still \/ Commits(m) \/ Fetches(m) \/ Shares(m)
  <2>1. CASE PlanSync(m)
    BY <2>1 DEF PlanSync, Still, gitVars
  <2>2. CASE Finish(m)
    <3>1. CASE changed[m] = "yes"
      <4>1. CommitAs(m, clone[m], Fresh(m), "idle") /\ Derived(m, Fresh(m))
        BY <2>2, <3>1 DEF Finish, Fresh, Derived
      <4>2. QED
        BY <2>2, <4>1 DEF Finish, CommitAs, Commits
    <3>2. CASE changed[m] # "yes"
      BY <2>2, <3>2 DEF Finish, Still
    <3>3. QED
      BY <3>1, <3>2
  <2>3. CASE Push(m) \/ PushAgain(m)
    BY <2>3, RefusedType DEF Push, PushAgain, Shares, Still
  <2>4. CASE Reconcile(m)
    BY <2>4, PulledOwn DEF Reconcile, Fetches, Still
  <2>5. ASSUME NEW r \in Refs, InstallOne(m, r) \/ RemoveOne(m, r) PROVE Still
    BY <2>5 DEF InstallOne, RemoveOne, Still, gitVars
  <2>6. ASSUME NEW o \in Offers, Agree(m, o) PROVE Still
    BY <2>6 DEF Agree, Still, gitVars
  <2>7. ASSUME NEW o \in Offers, Keep(m, o) PROVE Still \/ Commits(m)
    <3>1. CASE UNCHANGED <<clone, unpushed, pc, next>>
      BY <2>7, <3>1 DEF Keep, Still
    <3>2. CASE CommitAs(m, clone[m], Acknowledged(Fresh(m), o), "work")
      <4>1. Derived(m, Acknowledged(Fresh(m), o))
        BY <2>7 DEF Derived, Keep
      <4>2. QED
        BY <2>7, <3>2, <4>1 DEF Keep, CommitAs, Commits
    <3>3. QED
      BY <2>7, <3>1, <3>2 DEF Keep, Fresh
  <2>8. QED
    BY <1>4, <2>1, <2>2, <2>3, <2>4, <2>5, <2>6, <2>7 DEF Step
<1>5. QED
  BY <1>1, <1>2, <1>3, <1>4 DEF Next

-----------------------------------------------------------------------------
(* A clone that is not behind has every other machine's file as it is in    *)
(* the remote: that is why a push that lands can change nobody else's.      *)
Fetched == \A m, k \in Machines : k # m /\ behind[m] = "no" => clone[m][k] = remote[k]

(* Every file of another machine in a clone has been that machine's own.    *)
LEMMA FetchedStep ==
  ASSUME TypeOK, Fetched, [Next]_vars
  PROVE  Fetched'
<1> SUFFICES ASSUME NEW m \in Machines, NEW k \in Machines, k # m, behind'[m] = "no"
             PROVE  clone'[m][k] = remote'[k]
  BY DEF Fetched
<1>1. CASE Still
  BY <1>1 DEF Still, Fetched
<1>2. ASSUME NEW n \in Machines, Commits(n) PROVE clone'[m][k] = remote'[k]
  BY <1>2 DEF Commits, Fetched, TypeOK
<1>3. ASSUME NEW n \in Machines, Fetches(n) PROVE clone'[m][k] = remote'[k]
  <2>1. CASE n = m
    BY <1>3, <2>1 DEF Fetches, Pulled, TypeOK
  <2>2. CASE n # m
    BY <1>3, <2>2 DEF Fetches, Fetched, TypeOK
  <2>3. QED
    BY <2>1, <2>2
<1>4. ASSUME NEW n \in Machines, Shares(n) PROVE clone'[m][k] = remote'[k]
  <2>1. n = m
    BY <1>4 DEF Shares, Lands
  <2>2. QED
    BY <1>4, <2>1 DEF Shares, Lands
<1>5. QED
  BY <1>1, <1>2, <1>3, <1>4, GitStep

(* A machine pushes no file but its own.                                    *)
LEMMA SharesOwn ==
  ASSUME TypeOK, Fetched, [Next]_vars, NEW m \in Machines, remote'[m] # remote[m]
  PROVE  pc[m] \in {"push", "repush"} /\ remote'[m] = clone[m][m]
<1>1. PICK n \in Machines : Shares(n)
  BY GitStep DEF Still, Commits, Fetches
<1>2. behind[n] = "no" /\ remote' = clone[n]
  BY <1>1 DEF Shares, Lands
<1>3. n = m
  BY <1>2 DEF Fetched
<1>4. QED
  BY <1>1, <1>2, <1>3 DEF Shares

(* A machine's published file changes only by its own push, to what it has  *)
(* committed, for any number of machines: a push is refused while somebody  *)
(* else's commit is missing from the clone, and a pull or a reconcile takes *)
(* every other machine's file from the remote.                              *)
THEOREM PublishedFilesAreOnesOwn == Spec => NoRollback
<1>1. Init => TypeOK /\ Fetched
  <2>1. Init => Fetched
    BY DEF Init, Fetched
  <2>2. QED
    BY <2>1, TypeInit
<1>2. TypeOK /\ Fetched /\ [Next]_vars => (TypeOK /\ Fetched)'
  BY TypeStep, FetchedStep
<1>3. TypeOK /\ Fetched /\ [Next]_vars =>
        [\A m \in Machines : remote'[m] # remote[m] =>
            pc[m] \in {"push", "repush"} /\ remote'[m] = clone[m][m]]_vars
  BY SharesOwn
<1>4. QED
  BY <1>1, <1>2, <1>3, PTL DEF Spec, NoRollback

-----------------------------------------------------------------------------
(* One verdict for each package.                                            *)
LEMMA DerivedVerdict ==
  ASSUME TypeOK, NEW m \in Machines, NEW inv, Derived(m, inv), OneVerdict(clone[m][m])
  PROVE  OneVerdict(inv)
<1>1. OneVerdict(Fresh(m)) /\ Fresh(m) \in Inventories
  BY SnapshotVerdict, SnapshotType DEF Fresh, TypeOK
<1>2. ASSUME NEW o \in Offers PROVE OneVerdict(Acknowledged(Fresh(m), o))
  BY <1>1 DEF OneVerdict, Acknowledged, Has, Inventories
<1>3. ASSUME NEW r \in Refs, ~Has(Fresh(m), r) PROVE OneVerdict(OptedOut(Fresh(m), r))
  BY <1>1, <1>3 DEF OneVerdict, OptedOut, Has, Inventories
<1>4. offers[m] \subseteq Offers
  BY DEF TypeOK
<1>5. QED
  BY <1>1, <1>2, <1>3, <1>4 DEF Derived

(* No step makes a file contradict itself.                                  *)
LEMMA VerdictStep ==
  ASSUME TypeOK, OneVerdictEach, [Next]_vars
  PROVE  OneVerdictEach'
<1> SUFFICES ASSUME NEW k \in Machines, NEW m \in Machines
             PROVE  OneVerdict(remote'[m]) /\ OneVerdict(clone'[k][m])
  BY DEF OneVerdictEach, OneVerdict, Has
<1>1. \A j, n \in Machines : OneVerdict(remote[n]) /\ OneVerdict(clone[j][n])
  BY DEF OneVerdictEach
<1>2. CASE Still
  BY <1>1, <1>2 DEF Still
<1>3. ASSUME NEW n \in Machines, Commits(n) PROVE OneVerdict(remote'[m]) /\ OneVerdict(clone'[k][m])
  <2>1. PICK inv : Derived(n, inv) /\ clone' = [clone EXCEPT ![n] = [clone[n] EXCEPT ![n] = inv]]
    BY <1>3 DEF Commits
  <2>2. OneVerdict(inv)
    BY <1>1, <2>1, DerivedVerdict
  <2>3. clone'[k][m] = inv \/ clone'[k][m] = clone[k][m]
    BY <2>1 DEF TypeOK
  <2>4. QED
    BY <1>1, <1>3, <2>2, <2>3 DEF Commits
<1>4. ASSUME NEW n \in Machines, Fetches(n) PROVE OneVerdict(remote'[m]) /\ OneVerdict(clone'[k][m])
  <2>1. PICK inv : /\ inv = clone[n][n] \/ Derived(n, inv)
                   /\ clone' = [clone EXCEPT ![n] = [Pulled(n) EXCEPT ![n] = inv]]
    BY <1>4 DEF Fetches
  <2>2. OneVerdict(inv)
    BY <1>1, <2>1, DerivedVerdict
  <2>3. clone'[k][m] = inv \/ clone'[k][m] = clone[k][m] \/ clone'[k][m] = remote[m]
    BY <2>1 DEF TypeOK, Pulled
  <2>4. QED
    BY <1>1, <1>4, <2>2, <2>3 DEF Fetches
<1>5. ASSUME NEW n \in Machines, Shares(n) PROVE OneVerdict(remote'[m]) /\ OneVerdict(clone'[k][m])
  BY <1>1, <1>5 DEF Shares, Lands
<1>6. QED
  BY <1>2, <1>3, <1>4, <1>5, GitStep

(* In every copy of every published file a package is installed, retired or *)
(* opted out of, and never two of them, on any number of machines.          *)
THEOREM VerdictsNeverContradict == Spec => []OneVerdictEach
<1>1. Init => TypeOK /\ OneVerdictEach
  <2>1. ASSUME Init PROVE OneVerdictEach
    <3>1. \A m \in Machines : OneVerdict(remote[m])
      BY <2>1 DEF Init, OneVerdict, Has
    <3>2. \A k \in Machines : clone[k] = remote
      BY <2>1 DEF Init
    <3>3. QED
      BY <3>1, <3>2 DEF OneVerdictEach
  <2>2. QED
    BY <2>1, TypeInit
<1>2. TypeOK /\ OneVerdictEach /\ [Next]_vars => (TypeOK /\ OneVerdictEach)'
  BY TypeStep, VerdictStep
<1>3. QED
  BY <1>1, <1>2, PTL DEF Spec

-----------------------------------------------------------------------------
(* What is retired was removed by a person.                                 *)
Lost(m, inv) == \A r \in Refs : inv.ret[r] # None => removed[m][r] # None
Gone(m) == \A r \in Refs : Has(clone[m][m], r) /\ ~BrewHas(brew[m], r) => removed[m][r] # None
RealInv == /\ \A k, m \in Machines : Lost(m, clone[k][m]) /\ Lost(m, remote[m])
           /\ \A m \in Machines : Gone(m)

(* What a command newly retires, the machine has lost.                      *)
LEMMA DerivedLost ==
  ASSUME TypeOK, NEW m \in Machines, NEW inv, Derived(m, inv), Lost(m, clone[m][m]), Gone(m)
  PROVE  Lost(m, inv) /\ \A r \in Refs : Has(inv, r) => BrewHas(brew[m], r)
<1>1. \A r \in Refs : Fresh(m).ret[r] = RetiredStamp(brew[m], clone[m][m], now, r)
  BY DEF Fresh, Snapshot
<1>2. Lost(m, Fresh(m))
  BY <1>1 DEF Lost, Gone, RetiredStamp
<1>3. \A r \in Refs : Has(Fresh(m), r) => BrewHas(brew[m], r)
  BY DEF Fresh, Snapshot, Has, BrewHas
<1>4. Fresh(m) \in Inventories
  BY SnapshotType DEF Fresh, TypeOK
<1>5. ASSUME NEW o \in Offers
      PROVE  /\ Lost(m, Acknowledged(Fresh(m), o))
             /\ \A r \in Refs : Has(Acknowledged(Fresh(m), o), r) => BrewHas(brew[m], r)
  BY <1>2, <1>3, <1>4 DEF Lost, Acknowledged, Has, Inventories
<1>6. ASSUME NEW p \in Refs
      PROVE  /\ Lost(m, OptedOut(Fresh(m), p))
             /\ \A r \in Refs : Has(OptedOut(Fresh(m), p), r) => BrewHas(brew[m], r)
  BY <1>2, <1>3, <1>4 DEF Lost, OptedOut, Has, Inventories
<1>7. offers[m] \subseteq Offers
  BY DEF TypeOK
<1>8. QED
  BY <1>2, <1>3, <1>5, <1>6, <1>7 DEF Derived

(* The clock never reads "never".                                           *)
LEMMA NowIsATime == TypeOK => now # None
BY PlanAssumption DEF TypeOK, Times, None, PlanAssumption

(* A removal is remembered, and every way brew loses a published package is *)
(* one.                                                                     *)
LEMMA RemovedStep ==
  ASSUME TypeOK, [Next]_vars, NEW m \in Machines, NEW r \in Refs
  PROVE  /\ removed[m][r] # None => removed'[m][r] # None
         /\ BrewHas(brew[m], r) /\ ~BrewHas(brew'[m], r) /\ Has(clone[m][m], r)
              => removed'[m][r] # None
<1> DEFINE P == /\ removed[m][r] # None => removed'[m][r] # None
                /\ BrewHas(brew[m], r) /\ ~BrewHas(brew'[m], r) /\ Has(clone[m][m], r)
                     => removed'[m][r] # None
<1>1. CASE UNCHANGED <<brew, removed>>
  BY <1>1
<1>2. ASSUME NEW n \in Machines, NEW p \in Refs,
             brew' = [brew EXCEPT ![n] = Installed(brew[n], p)], UNCHANGED removed
      PROVE  P
  BY <1>2 DEF Installed, BrewHas, TypeOK, Brews
<1>3. ASSUME NEW n \in Machines, NEW p \in Refs,
             brew' = [brew EXCEPT ![n] = Uninstalled(brew[n], p)], RemovalIsSeen(n, p)
      PROVE  P
  <2>1. removed[m][r] # None => removed'[m][r] # None
    BY <1>3, NowIsATime DEF RemovalIsSeen, TypeOK
  <2>2. ASSUME BrewHas(brew[m], r), ~BrewHas(brew'[m], r), Has(clone[m][m], r)
        PROVE  removed'[m][r] # None
    <3>1. n = m /\ p = r
      BY <1>3, <2>2 DEF Uninstalled, BrewHas, TypeOK, Brews
    <3>2. QED
      BY <1>3, <2>2, <3>1, NowIsATime DEF RemovalIsSeen, Published, TypeOK
  <2>3. QED
    BY <2>1, <2>2
<1>4. ASSUME NEW n \in Machines, NEW p \in Refs, BecomesDependency(n, p) PROVE P
  <2>1. brew' = [brew EXCEPT ![n] = [brew[n] EXCEPT ![p].state = "dep"]] /\ UNCHANGED removed
    BY <1>4 DEF BecomesDependency, histVars
  <2>2. BrewHas(brew[m], r) => BrewHas(brew'[m], r)
    BY <2>1 DEF BrewHas, TypeOK, Brews
  <2>3. QED
    BY <2>1, <2>2
<1>5. ASSUME NEW n \in Machines, Update(n) PROVE P
  <2>1. UNCHANGED removed
    BY <1>5 DEF Update, histVars
  <2>2. PICK outdated \in SUBSET {p \in Refs : BrewHas(brew[n], p)} :
           brew' = [brew EXCEPT ![n] = [p \in Refs |->
                      IF p \in outdated THEN [@[p] EXCEPT !.at = now] ELSE @[p]]]
    BY <1>5 DEF Update
  <2>3. brew[m][r] \in [state : {"none", "dep", "asked"}, at : Times]
    BY DEF TypeOK, Brews
  <2>4. brew'[m][r].state = brew[m][r].state
    BY <2>2, <2>3 DEF TypeOK
  <2>5. QED
    BY <2>1, <2>4 DEF BrewHas
<1>6. ASSUME NEW n \in Machines, Person(n) PROVE P
  BY <1>1, <1>2, <1>3, <1>4, <1>5, <1>6
     DEF Person, BrewInstall, BrewUninstall, Skip, Escape, histVars
<1>7. ASSUME NEW n \in Machines, Run(n) PROVE P
  BY <1>1, <1>7 DEF Run, Sync, Apply, histVars
<1>8. ASSUME NEW n \in Machines, Step(n) PROVE P
  <2>1. ASSUME NEW p \in Refs, InstallOne(n, p) PROVE P
    BY <1>1, <1>2, <2>1 DEF InstallOne, histVars
  <2>2. ASSUME NEW p \in Refs, RemoveOne(n, p) PROVE P
    BY <1>1, <1>3, <2>2 DEF RemoveOne
  <2>3. CASE PlanSync(n) \/ Finish(n) \/ Push(n) \/ Reconcile(n) \/ PushAgain(n)
    BY <1>1, <2>3 DEF PlanSync, Finish, Push, Reconcile, PushAgain, histVars
  <2>4. ASSUME NEW o \in Offers, Agree(n, o) \/ Keep(n, o) PROVE P
    BY <1>1, <2>4 DEF Agree, Keep, histVars
  <2>5. QED
    BY <1>8, <2>1, <2>2, <2>3, <2>4 DEF Step
<1>9. QED
  BY <1>1, <1>6, <1>7, <1>8 DEF Next, Tick, vars, histVars

(* No step publishes a retirement that did not happen.                      *)
LEMMA RealStep ==
  ASSUME TypeOK, RealInv, [Next]_vars
  PROVE  RealInv'
<1>1. \A m \in Machines, r \in Refs : removed[m][r] # None => removed'[m][r] # None
  BY RemovedStep
<1>2. \A k, m \in Machines, r \in Refs :
         /\ clone[k][m].ret[r] # None => removed'[m][r] # None
         /\ remote[m].ret[r] # None => removed'[m][r] # None
  BY <1>1 DEF RealInv, Lost
<1>3. \A m \in Machines, r \in Refs :
         Has(clone[m][m], r) /\ ~BrewHas(brew'[m], r) => removed'[m][r] # None
  BY <1>1, RemovedStep DEF RealInv, Gone
<1>4. ASSUME NEW n \in Machines, NEW inv, Derived(n, inv)
      PROVE  /\ \A r \in Refs : inv.ret[r] # None => removed'[n][r] # None
             /\ \A r \in Refs : Has(inv, r) => BrewHas(brew[n], r)
  BY <1>1, <1>4, DerivedLost DEF RealInv, Lost
<1> DEFINE Q(k, m) == \A r \in Refs :
             /\ clone'[k][m].ret[r] # None => removed'[m][r] # None
             /\ remote'[m].ret[r] # None => removed'[m][r] # None
             /\ Has(clone'[m][m], r) /\ ~BrewHas(brew'[m], r) => removed'[m][r] # None
<1>5. SUFFICES ASSUME NEW k \in Machines, NEW m \in Machines PROVE Q(k, m)
  <2>1. \A k, m \in Machines : Q(k, m)
    BY <1>5
  <2>2. QED
    BY <2>1 DEF RealInv, Lost, Gone, Has, BrewHas
<1>6. CASE Still
  BY <1>2, <1>3, <1>6 DEF Still
<1>7. ASSUME NEW n \in Machines, Commits(n) PROVE Q(k, m)
  <2>1. PICK inv : Derived(n, inv) /\ clone' = [clone EXCEPT ![n] = [clone[n] EXCEPT ![n] = inv]]
    BY <1>7 DEF Commits
  <2>2. \A i, j \in Machines : clone'[i][j] = IF i = n /\ j = n THEN inv ELSE clone[i][j]
    BY <2>1 DEF TypeOK
  <2>3. UNCHANGED <<remote, brew>>
    BY <1>7 DEF Commits
  <2>4. QED
    BY <1>2, <1>3, <1>4, <2>1, <2>2, <2>3
<1>8. ASSUME NEW n \in Machines, Fetches(n) PROVE Q(k, m)
  <2>1. PICK inv : /\ inv = clone[n][n] \/ (Derived(n, inv) /\ UNCHANGED brew)
                   /\ clone' = [clone EXCEPT ![n] = [Pulled(n) EXCEPT ![n] = inv]]
    BY <1>8 DEF Fetches
  <2>2. \A i, j \in Machines : clone'[i][j] = IF i # n THEN clone[i][j]
                                              ELSE IF j = n THEN inv ELSE remote[j]
    BY <2>1 DEF TypeOK, Pulled
  <2>3. UNCHANGED remote
    BY <1>8 DEF Fetches
  <2>4. CASE inv = clone[n][n]
    BY <1>2, <1>3, <2>2, <2>3, <2>4
  <2>5. CASE Derived(n, inv) /\ UNCHANGED brew
    BY <1>2, <1>3, <1>4, <2>2, <2>3, <2>5
  <2>6. QED
    BY <2>1, <2>4, <2>5
<1>9. ASSUME NEW n \in Machines, Shares(n) PROVE Q(k, m)
  BY <1>2, <1>3, <1>9 DEF Shares, Lands
<1>10. QED
  BY <1>6, <1>7, <1>8, <1>9, GitStep

(* What any clone shows as retired by a machine was removed there by a      *)
(* person: no sequence of syncs, dependency changes and failures turns      *)
(* anything else into an offer to uninstall on another machine.             *)
THEOREM RetirementsAreReal == Spec => []RetirementIsReal
<1>1. Init => TypeOK /\ RealInv
  <2>1. ASSUME Init PROVE RealInv
    <3>1. \A m \in Machines : Lost(m, remote[m])
      BY <2>1 DEF Init, Lost
    <3>2. \A k \in Machines : clone[k] = remote
      BY <2>1 DEF Init
    <3>3. \A m \in Machines : Gone(m)
      BY <2>1, <3>2 DEF Init, Gone, Has, BrewHas
    <3>4. QED
      BY <3>1, <3>2, <3>3 DEF RealInv
  <2>2. QED
    BY <2>1, TypeInit
<1>2. TypeOK /\ RealInv /\ [Next]_vars => (TypeOK /\ RealInv)'
  BY TypeStep, RealStep
<1>3. TypeOK /\ RealInv => RetirementIsReal
  BY DEF RealInv, Lost, RetirementIsReal
<1>4. QED
  BY <1>1, <1>2, <1>3, PTL DEF Spec

-----------------------------------------------------------------------------
(* A "keep" holds.  For a package a person kept: the answer is published,   *)
(* brew still has the package there, no removal of it is waiting to be      *)
(* published and no copy of a file retires it later than the answer.        *)
Answered(m, r) == /\ clone[m][m].ack[r] # None
                  /\ BrewHas(brew[m], r)
                  /\ ~Unpublished(r)
                  /\ NoneLater(r, clone[m][m].ack[r])
AnsweredEach == \A m \in Machines : \A r \in kept[m] : Answered(m, r)
OneOfferEach == \A m \in Machines : \A o, q \in offers[m] : o.ref = q.ref => o = q
KeptInv == AnsweredEach /\ OneOfferEach /\ KeepSticks

(* Stamps are compared as integers.                                         *)
LEMMA StampsInt == Stamps \subseteq Int /\ \A t \in Times : t # None
BY PlanAssumption DEF Stamps, Times, None, PlanAssumption

(* A machine is asked about a package once: every latest retirement has the *)
(* same stamp.                                                              *)
LEMMA OneRemoval ==
  ASSUME NEW m \in Machines, NEW all \in [Machines -> Inventories],
         NEW o \in Removals(m, all), NEW q \in Removals(m, all), o.ref = q.ref
  PROVE  o = q
<1>1. o \in Offers /\ q \in Offers
  BY DEF Removals
<1>2. PICK i \in Retirers(all, o.ref) : o.at = all[i].ret[o.ref]
  BY DEF Removals
<1>3. PICK j \in Retirers(all, o.ref) : q.at = all[j].ret[o.ref]
  BY DEF Removals
<1>4. all[i].ret[o.ref] <= all[j].ret[o.ref] /\ all[j].ret[o.ref] <= all[i].ret[o.ref]
  BY <1>2, <1>3 DEF Retirers
<1>5. all[i].ret[o.ref] \in Int /\ all[j].ret[o.ref] \in Int
  BY <1>1, <1>2, <1>3, StampsInt DEF Retirers, Inventories, Offers
<1>6. o.at = q.at
  BY <1>2, <1>3, <1>4, <1>5
<1>7. QED
  BY <1>1, <1>6 DEF Offers

(* A file a command derives retires nothing later than its machine had it   *)
(* retired, unless brew has lost the package since it was published.        *)
LEMMA DerivedStamp ==
  ASSUME TypeOK, NEW m \in Machines, NEW inv, Derived(m, inv),
         NEW r \in Refs, NEW a \in Stamps, clone[m][m].ret[r] <= a,
         ~(Published(m, r) /\ ~BrewHas(brew[m], r))
  PROVE  inv.ret[r] <= a /\ (Has(inv, r) => BrewHas(brew[m], r))
<1>1. Fresh(m) \in Inventories
  BY SnapshotType DEF Fresh, TypeOK
<1>2. Fresh(m).ret[r] = None \/ Fresh(m).ret[r] = clone[m][m].ret[r]
  BY DEF Fresh, Snapshot, RetiredStamp, Published, BrewHas
<1>3. Has(Fresh(m), r) => BrewHas(brew[m], r)
  BY DEF Fresh, Snapshot, Has, BrewHas
<1>4. None <= a
  BY PlanAssumption DEF Stamps, Times, None, PlanAssumption
<1>5. ASSUME NEW o PROVE /\ Acknowledged(Fresh(m), o).ret = Fresh(m).ret
                         /\ Acknowledged(Fresh(m), o).inst = Fresh(m).inst
  BY <1>1 DEF Acknowledged, Inventories
<1>6. ASSUME NEW p \in Refs
      PROVE  /\ OptedOut(Fresh(m), p).ret[r] = None \/ OptedOut(Fresh(m), p).ret[r] = Fresh(m).ret[r]
             /\ OptedOut(Fresh(m), p).inst = Fresh(m).inst
  BY <1>1 DEF OptedOut, Inventories
<1>7. /\ inv.ret[r] = None \/ inv.ret[r] = Fresh(m).ret[r]
      /\ inv.inst = Fresh(m).inst
  BY <1>5, <1>6 DEF Derived
<1>8. QED
  BY <1>2, <1>3, <1>4, <1>7 DEF Has

(* While no removal of a package waits to be published, no copy of a file   *)
(* comes to retire it later than the copies there are.                      *)
LEMMA NoneLaterStep ==
  ASSUME TypeOK, [Next]_vars, NEW r \in Refs, NEW a \in Stamps,
         ~Unpublished(r), NoneLater(r, a)
  PROVE  NoneLater(r, a)'
<1>1. \A k, j \in Machines : remote[k].ret[r] <= a /\ clone[j][k].ret[r] <= a
  BY DEF NoneLater
<1>2. ASSUME NEW n \in Machines, NEW inv, Derived(n, inv) PROVE inv.ret[r] <= a
  BY <1>1, <1>2, DerivedStamp DEF Unpublished
<1>3. SUFFICES ASSUME NEW k \in Machines, NEW j \in Machines
               PROVE  remote'[k].ret[r] <= a /\ clone'[j][k].ret[r] <= a
  BY DEF NoneLater
<1>4. CASE Still
  BY <1>1, <1>4 DEF Still
<1>5. ASSUME NEW n \in Machines, Commits(n) PROVE remote'[k].ret[r] <= a /\ clone'[j][k].ret[r] <= a
  <2>1. PICK inv : Derived(n, inv) /\ clone' = [clone EXCEPT ![n] = [clone[n] EXCEPT ![n] = inv]]
    BY <1>5 DEF Commits
  <2>2. clone'[j][k] = inv \/ clone'[j][k] = clone[j][k]
    BY <2>1 DEF TypeOK
  <2>3. inv.ret[r] <= a
    BY <1>2, <2>1
  <2>4. QED
    BY <1>1, <1>5, <2>2, <2>3 DEF Commits
<1>6. ASSUME NEW n \in Machines, Fetches(n) PROVE remote'[k].ret[r] <= a /\ clone'[j][k].ret[r] <= a
  <2>1. PICK inv : /\ inv = clone[n][n] \/ Derived(n, inv)
                   /\ clone' = [clone EXCEPT ![n] = [Pulled(n) EXCEPT ![n] = inv]]
    BY <1>6 DEF Fetches
  <2>2. clone'[j][k] = inv \/ clone'[j][k] = clone[j][k] \/ clone'[j][k] = remote[k]
    BY <2>1 DEF TypeOK, Pulled
  <2>3. inv.ret[r] <= a
    BY <1>1, <1>2, <2>1
  <2>4. QED
    BY <1>1, <1>6, <2>2, <2>3 DEF Fetches
<1>7. ASSUME NEW n \in Machines, Shares(n) PROVE remote'[k].ret[r] <= a /\ clone'[j][k].ret[r] <= a
  BY <1>1, <1>7 DEF Shares, Lands
<1>8. QED
  BY <1>4, <1>5, <1>6, <1>7, GitStep

(* What a machine comes to publish as installed, its brew has.              *)
LEMMA PublishedStep ==
  ASSUME TypeOK, [Next]_vars, NEW m \in Machines, NEW r \in Refs, Has(clone'[m][m], r)
  PROVE  Has(clone[m][m], r) \/ BrewHas(brew'[m], r)
<1>1. ASSUME NEW inv, Derived(m, inv), Has(inv, r) PROVE BrewHas(brew[m], r)
  <2>1. Fresh(m) \in Inventories
    BY SnapshotType DEF Fresh, TypeOK
  <2>2. inv.inst = Fresh(m).inst
    BY <1>1, <2>1 DEF Derived, Acknowledged, OptedOut, Inventories
  <2>3. QED
    BY <1>1, <2>2 DEF Fresh, Snapshot, Has, BrewHas
<1>2. CASE Still \/ \E n \in Machines : Shares(n)
  BY <1>2 DEF Still, Shares
<1>3. ASSUME NEW n \in Machines, Commits(n) PROVE Has(clone[m][m], r) \/ BrewHas(brew'[m], r)
  <2>1. PICK inv : Derived(n, inv) /\ clone' = [clone EXCEPT ![n] = [clone[n] EXCEPT ![n] = inv]]
    BY <1>3 DEF Commits
  <2>2. clone'[m][m] = (IF n = m THEN inv ELSE clone[m][m])
    BY <2>1 DEF TypeOK
  <2>3. brew' = brew
    BY <1>3 DEF Commits
  <2>4. QED
    BY <1>1, <2>1, <2>2, <2>3
<1>4. ASSUME NEW n \in Machines, Fetches(n) PROVE Has(clone[m][m], r) \/ BrewHas(brew'[m], r)
  <2>1. PICK inv : /\ inv = clone[n][n] \/ (Derived(n, inv) /\ UNCHANGED brew)
                   /\ clone' = [clone EXCEPT ![n] = [Pulled(n) EXCEPT ![n] = inv]]
    BY <1>4 DEF Fetches
  <2>2. clone'[m][m] = (IF n = m THEN inv ELSE clone[m][m])
    BY <2>1 DEF TypeOK, Pulled
  <2>3. QED
    BY <1>1, <2>1, <2>2
<1>5. QED
  BY <1>2, <1>3, <1>4, GitStep

(* The answer stays in a machine's own file while its brew has the package: *)
(* a snapshot carries it, and no other answer is about the same package.    *)
LEMMA AckStep ==
  ASSUME TypeOK, KeepSticks, [Next]_vars,
         NEW m \in Machines, NEW r \in kept[m], BrewHas(brew[m], r)
  PROVE  clone'[m][m].ack[r] = clone[m][m].ack[r]
<1>1. r \in Refs
  BY DEF TypeOK
<1>2. ASSUME NEW inv, Derived(m, inv) PROVE inv.ack[r] = clone[m][m].ack[r]
  <2>1. Fresh(m) \in Inventories
    BY SnapshotType DEF Fresh, TypeOK
  <2>2. Fresh(m).ack[r] = clone[m][m].ack[r]
    BY <1>1 DEF Fresh, Snapshot
  <2>3. ASSUME NEW o \in offers[m] PROVE Acknowledged(Fresh(m), o).ack[r] = Fresh(m).ack[r]
    <3>1. o.ref # r
      BY DEF KeepSticks
    <3>2. QED
      BY <1>1, <2>1, <3>1 DEF Acknowledged, Inventories
  <2>4. ASSUME NEW p \in Refs PROVE OptedOut(Fresh(m), p).ack = Fresh(m).ack
    BY <2>1 DEF OptedOut, Inventories
  <2>5. QED
    BY <1>2, <2>2, <2>3, <2>4 DEF Derived
<1>3. CASE Still \/ \E n \in Machines : Shares(n)
  BY <1>3 DEF Still, Shares
<1>4. ASSUME NEW n \in Machines, Commits(n) PROVE clone'[m][m].ack[r] = clone[m][m].ack[r]
  <2>1. PICK inv : Derived(n, inv) /\ clone' = [clone EXCEPT ![n] = [clone[n] EXCEPT ![n] = inv]]
    BY <1>4 DEF Commits
  <2>2. clone'[m][m] = (IF n = m THEN inv ELSE clone[m][m])
    BY <2>1 DEF TypeOK
  <2>3. QED
    BY <1>2, <2>1, <2>2
<1>5. ASSUME NEW n \in Machines, Fetches(n) PROVE clone'[m][m].ack[r] = clone[m][m].ack[r]
  <2>1. PICK inv : /\ inv = clone[n][n] \/ Derived(n, inv)
                   /\ clone' = [clone EXCEPT ![n] = [Pulled(n) EXCEPT ![n] = inv]]
    BY <1>5 DEF Fetches
  <2>2. clone'[m][m] = (IF n = m THEN inv ELSE clone[m][m])
    BY <2>1 DEF TypeOK, Pulled
  <2>3. QED
    BY <1>2, <2>1, <2>2
<1>6. QED
  BY <1>3, <1>4, <1>5, GitStep

(* A package somebody keeps after a step was kept before it or is the       *)
(* answer given in it; and the step took it neither out of the keeper's     *)
(* brew nor out of one that has published it.                               *)
KeepsNow(m, r) == \E o \in offers[m] : Keep(m, o) /\ o.ref = r /\ Settled(m, o)
StillHas(m, r) == \A k \in Machines : (k = m \/ Published(k, r)) /\ BrewHas(brew[k], r)
                                        => BrewHas(brew'[k], r)
LEMMA KeptStep ==
  ASSUME TypeOK, [Next]_vars, NEW m \in Machines, NEW r \in kept'[m]
  PROVE  (r \in kept[m] \/ KeepsNow(m, r)) /\ StillHas(m, r)
<1> DEFINE P == (r \in kept[m] \/ KeepsNow(m, r)) /\ StillHas(m, r)
<1>1. CASE UNCHANGED <<brew, kept>>
  BY <1>1 DEF StillHas
<1>2. ASSUME NEW n \in Machines, NEW p \in Refs,
             brew' = [brew EXCEPT ![n] = Installed(brew[n], p)],
             kept' = [kept EXCEPT ![n] = @ \ {p}] \/ UNCHANGED kept
      PROVE  P
  <2>1. \A k \in Machines, q \in Refs : BrewHas(brew[k], q) => BrewHas(brew'[k], q)
    BY <1>2 DEF Installed, BrewHas, TypeOK, Brews
  <2>2. r \in kept[m]
    <3>1. kept \in [Machines -> SUBSET Refs]
      BY DEF TypeOK
    <3>2. CASE kept' = [kept EXCEPT ![n] = @ \ {p}]
      BY <3>1, <3>2
    <3>3. CASE UNCHANGED kept
      BY <3>3
    <3>4. QED
      BY <1>2, <3>2, <3>3
  <2>3. r \in Refs
    BY <2>2 DEF TypeOK
  <2>4. QED
    BY <2>1, <2>2, <2>3 DEF StillHas
<1>3. ASSUME NEW n \in Machines, NEW p \in Refs,
             brew' = [brew EXCEPT ![n] = Uninstalled(brew[n], p)], RemovalIsSeen(n, p)
      PROVE  P
  <2>1. r \in kept[m] /\ r \in Refs /\ (r = p => n # m /\ ~Published(n, p))
    BY <1>3 DEF RemovalIsSeen, TypeOK
  <2>2. ASSUME NEW k \in Machines, BrewHas(brew[k], r), ~BrewHas(brew'[k], r) PROVE k = n /\ r = p
    BY <1>3, <2>1, <2>2 DEF Uninstalled, BrewHas, TypeOK, Brews
  <2>3. QED
    BY <2>1, <2>2 DEF StillHas
<1>4. ASSUME NEW n \in Machines, NEW p \in Refs, BecomesDependency(n, p) PROVE P
  <2>1. brew' = [brew EXCEPT ![n] = [brew[n] EXCEPT ![p].state = "dep"]] /\ UNCHANGED kept
    BY <1>4 DEF BecomesDependency, histVars
  <2>2. r \in kept[m] /\ r \in Refs
    BY <2>1 DEF TypeOK
  <2>3. \A k \in Machines : BrewHas(brew[k], r) => BrewHas(brew'[k], r)
    BY <2>1, <2>2 DEF BrewHas, TypeOK, Brews
  <2>4. QED
    BY <2>2, <2>3 DEF StillHas
<1>5. ASSUME NEW n \in Machines, Update(n) PROVE P
  <2>1. UNCHANGED kept
    BY <1>5 DEF Update, histVars
  <2>2. r \in kept[m] /\ r \in Refs
    BY <2>1 DEF TypeOK
  <2>3. PICK outdated \in SUBSET {p \in Refs : BrewHas(brew[n], p)} :
           brew' = [brew EXCEPT ![n] = [p \in Refs |->
                      IF p \in outdated THEN [@[p] EXCEPT !.at = now] ELSE @[p]]]
    BY <1>5 DEF Update
  <2>4. ASSUME NEW k \in Machines PROVE brew'[k][r].state = brew[k][r].state
    <3>1. brew[k][r] \in [state : {"none", "dep", "asked"}, at : Times]
      BY <2>2 DEF TypeOK, Brews
    <3>2. QED
      BY <2>2, <2>3, <3>1 DEF TypeOK
  <2>5. QED
    BY <2>2, <2>4 DEF StillHas, BrewHas
<1>6. ASSUME NEW n \in Machines, Person(n) PROVE P
  BY <1>1, <1>2, <1>3, <1>4, <1>5, <1>6
     DEF Person, BrewInstall, BrewUninstall, Skip, Escape, histVars
<1>7. ASSUME NEW n \in Machines, Run(n) PROVE P
  BY <1>1, <1>7 DEF Run, Sync, Apply, histVars
<1>8. ASSUME NEW n \in Machines, Step(n) PROVE P
  <2>1. ASSUME NEW p \in Refs, InstallOne(n, p) PROVE P
    BY <1>1, <1>2, <2>1 DEF InstallOne, histVars
  <2>2. ASSUME NEW p \in Refs, RemoveOne(n, p) PROVE P
    BY <1>1, <1>3, <2>2 DEF RemoveOne
  <2>3. CASE PlanSync(n) \/ Finish(n) \/ Push(n) \/ Reconcile(n) \/ PushAgain(n)
    BY <1>1, <2>3 DEF PlanSync, Finish, Push, Reconcile, PushAgain, histVars
  <2>4. ASSUME NEW o \in Offers, Agree(n, o) PROVE P
    BY <1>1, <2>4 DEF Agree, histVars
  <2>5. ASSUME NEW o \in Offers, Keep(n, o) PROVE P
    <3>1. StillHas(m, r)
      BY <2>5 DEF Keep, StillHas
    <3>2. CASE r \in kept[m]
      BY <3>1, <3>2
    <3>3. CASE r \notin kept[m]
      <4>1. kept' = [kept EXCEPT ![n] = IF Settled(n, o) THEN @ \cup {o.ref} ELSE @] /\ o \in offers[n]
        BY <2>5 DEF Keep
      <4>2. n = m /\ r = o.ref /\ Settled(n, o)
        BY <3>3, <4>1 DEF TypeOK
      <4>3. QED
        BY <2>5, <3>1, <4>1, <4>2 DEF KeepsNow
    <3>4. QED
      BY <3>2, <3>3
  <2>6. QED
    BY <1>8, <2>1, <2>2, <2>3, <2>4, <2>5 DEF Step
<1>9. QED
  BY <1>1, <1>6, <1>7, <1>8 DEF Next, Tick, vars, histVars

(* Offers are only answered or given up, until an apply makes new ones.     *)
LEMMA OffersStep ==
  ASSUME TypeOK, [Next]_vars, NEW m \in Machines
  PROVE  \/ offers'[m] \subseteq offers[m]
         \/ /\ offers'[m] = Removals(m, View(m, Pulled(m), now))
            /\ UNCHANGED kept
<1> DEFINE P == \/ offers'[m] \subseteq offers[m]
                \/ /\ offers'[m] = Removals(m, View(m, Pulled(m), now))
                   /\ UNCHANGED kept
<1>1. CASE UNCHANGED offers
  BY <1>1
<1>2. ASSUME NEW n \in Machines, Person(n) PROVE P
  <2>1. CASE Escape(n)
    BY <2>1 DEF Escape, TypeOK
  <2>2. CASE ~Escape(n)
    BY <1>1, <1>2, <2>2
       DEF Person, BrewInstall, BrewUninstall, BecomesDependency, Skip, Update, workVars
  <2>3. QED
    BY <2>1, <2>2
<1>3. ASSUME NEW n \in Machines, Run(n) PROVE P
  <2>1. CASE Sync(n)
    BY <1>1, <2>1 DEF Sync, workVars
  <2>2. ASSUME NEW install \in BOOLEAN, NEW ask \in BOOLEAN, Apply(n, install, ask) PROVE P
    <3>1. offers' = [offers EXCEPT ![n] = IF ask THEN Removals(n, View(n, Pulled(n), now)) ELSE {}]
      BY <2>2 DEF Apply
    <3>2. UNCHANGED kept
      BY <2>2 DEF Apply, histVars
    <3>3. QED
      BY <3>1, <3>2 DEF TypeOK
  <2>3. QED
    BY <1>3, <2>1, <2>2 DEF Run
<1>4. ASSUME NEW n \in Machines, Step(n) PROVE P
  <2>1. CASE PlanSync(n) \/ Finish(n) \/ Push(n) \/ Reconcile(n) \/ PushAgain(n)
    <3>1. offers' = offers \/ offers' = [offers EXCEPT ![n] = {}]
      BY <2>1 DEF PlanSync, Finish, Push, Reconcile, PushAgain, Carry, Abort
    <3>2. QED
      BY <3>1 DEF TypeOK
  <2>2. ASSUME NEW p \in Refs, InstallOne(n, p) \/ RemoveOne(n, p) PROVE P
    BY <1>1, <2>2 DEF InstallOne, RemoveOne
  <2>3. ASSUME NEW o \in Offers, Agree(n, o) \/ Keep(n, o) PROVE P
    BY <2>3 DEF Agree, Keep, TypeOK
  <2>4. QED
    BY <1>4, <2>1, <2>2, <2>3 DEF Step
<1>5. QED
  BY <1>1, <1>2, <1>3, <1>4 DEF Next, Tick, vars, workVars

(* The step that answers "keep" puts the answer in the machine's file.      *)
LEMMA KeepAnswers ==
  ASSUME TypeOK, NEW m \in Machines, NEW o \in Offers, Keep(m, o), BrewHas(brew[m], o.ref)
  PROVE  clone'[m][m].ack[o.ref] # None /\ o.at <= clone'[m][m].ack[o.ref]
<1>1. o.ref \in Refs /\ o.at \in Times /\ o.at \in Int
  BY StampsInt, TimesNat DEF Offers
<1>2. Fresh(m) \in Inventories
  BY SnapshotType DEF Fresh, TypeOK
<1>3. Fresh(m).ack[o.ref] = clone[m][m].ack[o.ref]
  BY <1>1 DEF Fresh, Snapshot
<1>4. CASE Declined(Fresh(m), o.ref, o.at)
  <2>1. UNCHANGED clone
    BY <1>4 DEF Keep, Fresh
  <2>2. QED
    BY <1>3, <1>4, <2>1 DEF Declined
<1>5. CASE ~Declined(Fresh(m), o.ref, o.at)
  <2>1. clone' = [clone EXCEPT ![m] = [clone[m] EXCEPT ![m] = Acknowledged(Fresh(m), o)]]
    BY <1>5 DEF Keep, CommitAs, Fresh
  <2>2. clone'[m][m] = Acknowledged(Fresh(m), o)
    BY <2>1 DEF TypeOK
  <2>3. Acknowledged(Fresh(m), o).ack[o.ref] = o.at
    BY <1>1, <1>2 DEF Acknowledged, Inventories
  <2>4. QED
    BY <1>1, <2>2, <2>3, StampsInt
<1>6. QED
  BY <1>4, <1>5

(* No removal of a package somebody keeps comes to wait to be published.    *)
LEMMA UnpublishedStep ==
  ASSUME TypeOK, [Next]_vars, NEW r \in Refs, ~Unpublished(r),
         NEW m \in Machines, StillHas(m, r)
  PROVE  ~Unpublished(r)'
<1> SUFFICES ASSUME NEW k \in Machines, Has(clone'[k][k], r), ~BrewHas(brew'[k], r)
             PROVE  FALSE
  BY DEF Unpublished, Published
<1>1. Has(clone[k][k], r)
  BY PublishedStep
<1>2. BrewHas(brew[k], r)
  BY <1>1 DEF Unpublished, Published
<1>3. QED
  BY <1>1, <1>2 DEF StillHas, Published

(* A package kept before or by this step is answered for after it.          *)
LEMMA AnsweredStep ==
  ASSUME TypeOK, KeptInv, [Next]_vars, NEW m \in Machines, NEW r \in kept'[m]
  PROVE  Answered(m, r)'
<1>1. (r \in kept[m] \/ KeepsNow(m, r)) /\ StillHas(m, r)
  BY KeptStep
<1>2. TypeOK'
  BY TypeStep
<1>3. r \in Refs
  BY <1>2 DEF TypeOK
<1>4. ASSUME NEW a \in Stamps, NoneLater(r, a), ~Unpublished(r), BrewHas(brew[m], r),
             clone'[m][m].ack[r] # None, a <= clone'[m][m].ack[r]
      PROVE  Answered(m, r)'
  <2>1. NoneLater(r, a)'
    BY <1>3, <1>4, NoneLaterStep
  <2>2. ~Unpublished(r)'
    BY <1>1, <1>3, <1>4, UnpublishedStep
  <2>3. BrewHas(brew'[m], r)
    BY <1>1, <1>4 DEF StillHas
  <2>4. \A inv \in Inventories : inv.ack[r] \in Int /\ inv.ret[r] \in Int
    BY <1>3, StampsInt DEF Inventories
  <2>5. /\ \A k, j \in Machines : remote'[k].ret[r] \in Int /\ clone'[j][k].ret[r] \in Int
        /\ clone'[m][m].ack[r] \in Int /\ a \in Int
    <3>1. \A k, j \in Machines : remote'[k] \in Inventories /\ clone'[j][k] \in Inventories
      BY <1>2 DEF TypeOK
    <3>2. QED
      BY <2>4, <3>1, StampsInt
  <2>6. \A k, j \in Machines : /\ remote'[k].ret[r] <= clone'[m][m].ack[r]
                               /\ clone'[j][k].ret[r] <= clone'[m][m].ack[r]
    BY <1>4, <2>1, <2>5 DEF NoneLater
  <2>7. QED
    BY <1>4, <2>2, <2>3, <2>6 DEF Answered, NoneLater
<1>5. CASE r \in kept[m]
  <2>1. Answered(m, r)
    BY <1>5 DEF KeptInv, AnsweredEach
  <2>2. PICK a \in Stamps : a = clone[m][m].ack[r]
    BY <1>3 DEF TypeOK, Inventories
  <2>3. clone'[m][m].ack[r] = a
    BY <1>5, <2>1, <2>2, AckStep DEF Answered, KeptInv
  <2>4. a <= a /\ a # None
    BY <2>1, <2>2, StampsInt DEF Answered
  <2>5. QED
    BY <1>4, <2>1, <2>2, <2>3, <2>4 DEF Answered
<1>6. CASE KeepsNow(m, r)
  <2>1. PICK o \in offers[m] : Keep(m, o) /\ o.ref = r /\ Settled(m, o)
    BY <1>6 DEF KeepsNow
  <2>2. o \in Offers /\ o.at \in Stamps
    BY TimesNat DEF TypeOK, Offers
  <2>3. clone'[m][m].ack[r] # None /\ o.at <= clone'[m][m].ack[r]
    BY <2>1, <2>2, KeepAnswers DEF Settled
  <2>4. QED
    BY <1>4, <2>1, <2>2, <2>3 DEF Settled
<1>7. QED
  BY <1>1, <1>5, <1>6

(* An apply does not ask about a package that is answered for.              *)
LEMMA AnsweredNotAsked ==
  ASSUME TypeOK, NEW m \in Machines, NEW r \in Refs, Answered(m, r),
         NEW o \in Removals(m, View(m, Pulled(m), now))
  PROVE  o.ref # r
<1> SUFFICES ASSUME o.ref = r PROVE FALSE
  OBVIOUS
<1> DEFINE view == View(m, Pulled(m), now)
<1>1. Pulled(m) \in [Machines -> Inventories] /\ Pulled(m)[m] = clone[m][m]
  BY PulledType DEF Pulled
<1>2. view[m] = Fresh(m)
  BY <1>1 DEF View, Fresh
<1>3. view[m].ack[r] = clone[m][m].ack[r]
  BY <1>2 DEF Fresh, Snapshot, Answered
<1>4. PICK by \in Machines \ {m} : o.at = view[by].ret[r]
  BY DEF Removals, Retirers
<1>5. view[by] = remote[by]
  BY <1>1, <1>4 DEF View, Pulled
<1>6. o.at <= clone[m][m].ack[r]
  BY <1>4, <1>5 DEF Answered, NoneLater
<1>7. Declined(view[m], r, o.at)
  BY <1>3, <1>6 DEF Declined, Answered
<1>8. QED
  BY <1>7 DEF Removals

(* Every step leaves what is kept answered for, and nothing asked twice.    *)
LEMMA KeptInvStep ==
  ASSUME TypeOK, KeptInv, [Next]_vars
  PROVE  KeptInv'
<1>1. AnsweredEach'
  BY AnsweredStep DEF AnsweredEach
<1>2. ASSUME NEW m \in Machines PROVE View(m, Pulled(m), now) \in [Machines -> Inventories]
  <2>1. Fresh(m) \in Inventories /\ Pulled(m)[m] = clone[m][m]
    BY SnapshotType DEF Fresh, Pulled, TypeOK
  <2>2. QED
    BY <2>1, PulledType DEF View, Fresh
<1>3. ASSUME NEW m \in Machines, NEW o \in offers'[m], NEW q \in offers'[m], o.ref = q.ref
      PROVE  o = q
  BY <1>2, <1>3, OffersStep, OneRemoval DEF KeptInv, OneOfferEach
<1>4. ASSUME NEW m \in Machines, NEW o \in offers'[m], o.ref \in kept'[m]
      PROVE  FALSE
  <2>1. TypeOK' /\ o.ref \in Refs
    BY <1>4, TypeStep DEF TypeOK
  <2>2. CASE offers'[m] \subseteq offers[m]
    <3>1. o.ref \notin kept[m]
      BY <2>2 DEF KeptInv, KeepSticks
    <3>2. PICK q \in offers[m] : Keep(m, q) /\ q.ref = o.ref
      BY <1>4, <3>1, KeptStep DEF KeepsNow
    <3>3. o = q
      BY <2>2, <3>2 DEF KeptInv, OneOfferEach
    <3>4. offers'[m] = offers[m] \ {q}
      BY <3>2 DEF Keep, TypeOK
    <3>5. QED
      BY <3>3, <3>4
  <2>3. CASE offers'[m] = Removals(m, View(m, Pulled(m), now)) /\ UNCHANGED kept
    <3>1. Answered(m, o.ref)
      BY <1>4, <2>3 DEF KeptInv, AnsweredEach
    <3>2. QED
      BY <2>1, <2>3, <3>1, AnsweredNotAsked
  <2>4. QED
    BY <2>2, <2>3, OffersStep
<1>5. QED
  BY <1>1, <1>3, <1>4 DEF KeptInv, OneOfferEach, KeepSticks

(* A person who answered "keep" is not asked about the package again until  *)
(* somebody removes it anew, for any number of machines: the answer stays   *)
(* in the file and no stamp of a retirement moves past it, in whatever      *)
(* order the files are pushed, pulled and pushed again.                     *)
THEOREM KeepHolds == Spec => []KeepSticks
<1>1. Init => TypeOK /\ KeptInv
  <2>1. Init => KeptInv
    BY DEF Init, KeptInv, AnsweredEach, OneOfferEach, KeepSticks
  <2>2. QED
    BY <2>1, TypeInit
<1>2. TypeOK /\ KeptInv /\ [Next]_vars => (TypeOK /\ KeptInv)'
  BY TypeStep, KeptInvStep
<1>3. KeptInv => KeepSticks
  BY DEF KeptInv
<1>4. QED
  BY <1>1, <1>2, <1>3, PTL DEF Spec

-----------------------------------------------------------------------------
(* No silent reinstall, while people and machines take turns.  What one     *)
(* machine's command knows then: nobody has pushed since it fetched, what   *)
(* it wrote into its file is what brew has, and no stamp is of the future.  *)
Wished(m) == [r \in Refs |-> IF brew[m][r].state = "asked" THEN brew[m][r].at ELSE None]
Settling == {"push", "reconcile", "repush", "plan"}
Dated(m, r) == /\ remote[m].inst[r] <= now /\ clone[m][m].inst[r] <= now
               /\ brew[m][r].at <= now /\ removed[m][r] <= now /\ wanted[r] <= now
InTurn(m) == /\ pc[m] # "idle" => behind[m] = "no"
             /\ pc[m] # "work" => todo[m] = {}
             /\ unpushed[m] = "no" => clone[m][m] = remote[m]
             /\ pc[m] \in Settling => clone[m][m].inst = Wished(m)
             /\ \A r \in Refs : Dated(m, r)
Alone == \A m, k \in Machines : pc[m] # "idle" /\ pc[k] # "idle" => m = k
TurnInv == Alone /\ \A m \in Machines : InTurn(m)

(* What an install or a removal by a command has changed and not yet        *)
(* published.                                                               *)
Pending(m) == pc[m] = "work" /\ changed[m] = "yes"

(* What a step does to brew.                                                *)
BrewGets(n, p) == brew' = [brew EXCEPT ![n] = Installed(brew[n], p)]
BrewDrops(n, p) == brew' = [brew EXCEPT ![n] = Uninstalled(brew[n], p)]
BrewDemotes(n, p) == brew' = [brew EXCEPT ![n][p].state = "dep"]

(* The steps.  By hand, while no command runs:                              *)
AllIdle == \A k \in Machines : pc[k] = "idle"
HandInstall(n, p) == /\ BrewGets(n, p)
                     /\ wanted' = [wanted EXCEPT ![p] = now]
                     /\ UNCHANGED removed
HandRemove(n, p) == /\ brew[n][p].state # "none"
                    /\ BrewDrops(n, p)
                    /\ RemovalIsSeen(n, p)
                    /\ UNCHANGED wanted
HandDemote(n, p) == /\ brew[n][p].state = "asked"
                    /\ BrewDemotes(n, p)
                    /\ UNCHANGED <<removed, wanted>>
Hand(n, p) == /\ AllIdle
              /\ UNCHANGED <<now, gitVars, pc, todo>>
              /\ HandInstall(n, p) \/ HandRemove(n, p) \/ HandDemote(n, p)

(* By a command, while every other machine is idle:                         *)
Untouched(k) == /\ pc'[k] = pc[k] /\ brew'[k] = brew[k] /\ todo'[k] = todo[k]
                /\ removed'[k] = removed[k] /\ clone'[k] = clone[k]
                /\ unpushed'[k] = unpushed[k]
Turn(n) == /\ \A k \in Machines \ {n} : pc[k] = "idle" /\ Untouched(k)
           /\ ~Diverged(n) /\ behind'[n] = "no"
           /\ UNCHANGED <<now, wanted>>
OthersBehind(n) == \A k \in Machines \ {n} : behind'[k] = behind[k]
Records(n) == /\ UNCHANGED <<remote, brew, removed, todo>> /\ OthersBehind(n)
              /\ todo[n] = {}
              /\ \E inv : /\ Derived(n, inv) /\ clone'[n][n] = inv
                          /\ \/ unpushed'[n] = "yes"
                             \/ unpushed'[n] = unpushed[n] /\ inv = clone[n][n]
Plans(n, r) == \E t \in Times : r \in Installs(n, View(n, Pulled(n), t))
                                  /\ (t = now \/ pc[n] = "plan")
Moves(n) == /\ UNCHANGED <<remote, brew, removed, unpushed>> /\ OthersBehind(n)
            /\ clone'[n][n] = clone[n][n]
            /\ \A r \in todo'[n] : r \in todo[n] \/ Plans(n, r)
            /\ pc'[n] \in Settling => pc[n] \in Settling
            /\ pc'[n] # "work" => todo'[n] = {}
            /\ pc[n] = "work" /\ changed[n] = "yes" => pc'[n] = "work" /\ changed'[n] = "yes"
Sends(n) == /\ pc[n] \in {"push", "repush"} /\ pc'[n] \in {"idle", "plan", "work"}
            /\ remote' = clone[n] /\ unpushed'[n] = "no"
            /\ \A k \in Machines \ {n} : behind'[k] = "yes"
            /\ UNCHANGED <<brew, clone, removed, todo>>
Gets(n) == /\ \E p \in todo[n] : /\ BrewGets(n, p)
                                 /\ todo' = [todo EXCEPT ![n] = @ \ {p}]
           /\ pc[n] = "work" /\ changed'[n] = "yes"
           /\ UNCHANGED <<gitVars, pc, removed>>
Drops(n) == /\ \E p \in Refs : /\ BrewDrops(n, p)
                               /\ RemovalIsSeen(n, p)
            /\ pc[n] = "work" /\ changed'[n] = "yes" /\ todo[n] = {}
            /\ UNCHANGED <<gitVars, pc, todo>>

(* A command starts only while every machine is idle.                       *)
LEMMA OpensAlone ==
  ASSUME TypeOK, Alone, MaxRunning = 1, NEW m \in Machines, Open(m)
  PROVE  AllIdle
<1> SUFFICES ASSUME NEW k \in Machines, pc[k] # "idle" PROVE FALSE
  BY DEF AllIdle
<1>1. Running = {k}
  BY DEF Alone, Running
<1>2. Cardinality(Running) = 1
  BY <1>1, FS_Singleton
<1>3. QED
  BY <1>2 DEF Open

(* Nobody but the running machine is touched by its step.                   *)
LEMMA OthersIdle ==
  ASSUME Alone, NEW m \in Machines, pc[m] # "idle"
  PROVE  \A k \in Machines \ {m} : pc[k] = "idle"
BY DEF Alone

(* A clone that is not behind is what a pull would make it.                 *)
LEMMA PulledIsClone ==
  ASSUME TypeOK, Fetched, NEW m \in Machines, behind[m] = "no"
  PROVE  Pulled(m) = clone[m]
BY DEF Fetched, Pulled, TypeOK

(* A commit touches its machine's own file.                                 *)
LEMMA CommitTurn ==
  ASSUME TypeOK, NEW m \in Machines, NEW files \in [Machines -> Inventories],
         files[m] = clone[m][m], NEW inv, NEW after, CommitAs(m, files, inv, after)
  PROVE  /\ clone'[m][m] = inv
         /\ \/ unpushed'[m] = "yes"
            \/ unpushed'[m] = unpushed[m] /\ inv = clone[m][m]
         /\ \A k \in Machines \ {m} : pc'[k] = pc[k] /\ clone'[k] = clone[k]
                                      /\ unpushed'[k] = unpushed[k]
BY DEF CommitAs, TypeOK

(* The steps that start a command.                                          *)
Kind(n) == Records(n) \/ Moves(n) \/ Sends(n) \/ Gets(n) \/ Drops(n)
Opened(m) == /\ \A k \in Machines : pc[k] = "idle" /\ todo[k] = {}
             /\ ~Diverged(m) /\ behind'[m] = "no" /\ OthersBehind(m)
LEMMA OpenTurn ==
  ASSUME TypeOK, TurnInv, MaxRunning = 1, NEW m \in Machines, Open(m)
  PROVE  Opened(m)
<1>1. AllIdle
  BY OpensAlone DEF TurnInv
<1>2. \A k \in Machines : todo[k] = {}
  BY <1>1 DEF TurnInv, InTurn, AllIdle
<1>3. behind'[m] = "no" /\ OthersBehind(m)
  BY DEF Open, OthersBehind, TypeOK
<1>4. QED
  BY <1>1, <1>2, <1>3 DEF Open, Opened, AllIdle

(* The command sync, run alone: it records what brew has and goes to plan.  *)
LEMMA SyncTurn ==
  ASSUME TypeOK, TurnInv, MaxRunning = 1, NEW m \in Machines, Sync(m)
  PROVE  Turn(m) /\ Records(m)
<1>1. Opened(m)
  BY OpenTurn DEF Sync
<1>2. CommitAs(m, Pulled(m), Fresh(m), "plan") /\ Derived(m, Fresh(m))
  BY DEF Sync, Fresh, Derived
<1>3. Pulled(m) \in [Machines -> Inventories] /\ Pulled(m)[m] = clone[m][m]
  BY PulledType DEF Pulled
<1>4. /\ clone'[m][m] = Fresh(m)
      /\ \/ unpushed'[m] = "yes"
         \/ unpushed'[m] = unpushed[m] /\ Fresh(m) = clone[m][m]
      /\ \A k \in Machines \ {m} : pc'[k] = pc[k] /\ clone'[k] = clone[k]
                                   /\ unpushed'[k] = unpushed[k]
  BY <1>2, <1>3, CommitTurn
<1>5. UNCHANGED <<now, brew, remote, todo, removed, wanted>>
  BY DEF Sync, workVars, histVars
<1>6. Turn(m)
  BY <1>1, <1>4, <1>5 DEF Opened, Turn, Untouched
<1>7. Records(m)
  BY <1>1, <1>2, <1>4, <1>5 DEF Opened, Records
<1>8. QED
  BY <1>6, <1>7

(* The command apply, run alone: it leaves its own file and brew alone.     *)
LEMMA ApplyTurn ==
  ASSUME TypeOK, TurnInv, MaxRunning = 1, NEW m \in Machines,
         NEW install \in BOOLEAN, NEW ask \in BOOLEAN, Apply(m, install, ask)
  PROVE  Turn(m) /\ Moves(m)
<1>1. Opened(m)
  BY OpenTurn DEF Apply
<1>2. clone'[m][m] = clone[m][m] /\ \A k \in Machines \ {m} : clone'[k] = clone[k]
  BY DEF Apply, Pulled, TypeOK
<1>3. UNCHANGED <<now, brew, remote, unpushed, changed, removed, wanted>>
  BY DEF Apply, histVars
<1>4. \A k \in Machines \ {m} : pc'[k] = pc[k] /\ todo'[k] = todo[k]
  BY DEF Apply, TypeOK
<1>5. Turn(m)
  BY <1>1, <1>2, <1>3, <1>4 DEF Opened, Turn, Untouched
<1>6. todo'[m] = (IF install THEN Installs(m, View(m, Pulled(m), now)) ELSE {})
  BY DEF Apply, TypeOK
<1>7. \A r \in todo'[m] : Plans(m, r)
  BY <1>6 DEF Plans, TypeOK
<1>8. pc'[m] = (IF todo'[m] = {} /\ offers'[m] = {} THEN "idle" ELSE "work")
  BY DEF Apply, TypeOK
<1>9. Moves(m)
  BY <1>1, <1>2, <1>3, <1>7, <1>8 DEF Opened, Moves, Settling
<1>10. QED
  BY <1>5, <1>9

(* The command skip, run alone: it records what brew has, opted out of p,   *)
(* or stops at once.                                                        *)
LEMMA SkipTurn ==
  ASSUME TypeOK, TurnInv, MaxRunning = 1, NEW m \in Machines, NEW p \in Refs, Skip(m, p)
  PROVE  Turn(m) /\ (Records(m) \/ Moves(m))
<1>1. Opened(m)
  BY OpenTurn DEF Skip
<1>2. UNCHANGED <<now, brew, remote, todo, changed, removed, wanted>>
  BY DEF Skip, workVars, histVars
<1>3. Pulled(m) \in [Machines -> Inventories] /\ Pulled(m)[m] = clone[m][m]
  BY PulledType DEF Pulled
<1>4. CASE clone' = [clone EXCEPT ![m] = Pulled(m)] /\ UNCHANGED <<pc, unpushed, next>>
  <2>1. clone'[m][m] = clone[m][m] /\ \A k \in Machines \ {m} : clone'[k] = clone[k]
    BY <1>3, <1>4 DEF TypeOK
  <2>2. Turn(m)
    BY <1>1, <1>2, <1>4, <2>1 DEF Opened, Turn, Untouched
  <2>3. Moves(m)
    BY <1>1, <1>2, <1>4, <2>1 DEF Opened, Moves, Settling
  <2>4. QED
    BY <2>2, <2>3
<1>5. CASE ~Has(Fresh(m), p) /\ CommitAs(m, Pulled(m), OptedOut(Fresh(m), p), "idle")
  <2>1. Derived(m, OptedOut(Fresh(m), p))
    BY <1>5 DEF Derived
  <2>2. PICK inv : inv = OptedOut(Fresh(m), p)
    OBVIOUS
  <2>3. /\ clone'[m][m] = inv
        /\ \/ unpushed'[m] = "yes"
           \/ unpushed'[m] = unpushed[m] /\ inv = clone[m][m]
        /\ \A k \in Machines \ {m} : pc'[k] = pc[k] /\ clone'[k] = clone[k]
                                     /\ unpushed'[k] = unpushed[k]
    BY <1>3, <1>5, <2>2, CommitTurn
  <2>4. Turn(m)
    BY <1>1, <1>2, <2>3 DEF Opened, Turn, Untouched
  <2>5. Records(m)
    BY <1>1, <1>2, <2>1, <2>2, <2>3 DEF Opened, Records
  <2>6. QED
    BY <2>4, <2>5
<1>6. QED
  BY <1>4, <1>5 DEF Skip, Fresh

(* The steps of a command under way.                                        *)
Busy(m) == /\ pc[m] # "idle" /\ behind[m] = "no" /\ ~Diverged(m)
           /\ \A k \in Machines \ {m} : pc[k] = "idle" /\ todo[k] = {}
LEMMA BusyAlone ==
  ASSUME TypeOK, TurnInv, NEW m \in Machines, pc[m] # "idle"
  PROVE  Busy(m)
<1>1. behind[m] = "no"
  BY DEF TurnInv, InTurn
<1>2. \A k \in Machines \ {m} : pc[k] = "idle"
  BY OthersIdle DEF TurnInv
<1>3. \A k \in Machines \ {m} : todo[k] = {}
  BY <1>2 DEF TurnInv, InTurn
<1>4. QED
  BY <1>1, <1>2, <1>3 DEF Busy, Diverged

(* Planning, run alone: only the list of installs changes.                  *)
LEMMA PlanTurn ==
  ASSUME TypeOK, TurnInv, Fetched, NEW m \in Machines, PlanSync(m)
  PROVE  Turn(m) /\ Moves(m)
<1>1. Busy(m)
  BY BusyAlone DEF PlanSync
<1>2. UNCHANGED <<now, brew, remote, clone, unpushed, behind, changed, removed, wanted>>
  BY DEF PlanSync, gitVars, histVars
<1>3. \A k \in Machines \ {m} : pc'[k] = pc[k] /\ todo'[k] = todo[k]
  BY DEF PlanSync, TypeOK
<1>4. Turn(m)
  BY <1>1, <1>2, <1>3 DEF Busy, Turn, Untouched
<1>5. Pulled(m) = clone[m]
  BY <1>1, PulledIsClone DEF Busy
<1>6. PICK now0 \in Times : now0 = began[m]
  BY DEF TypeOK
<1>7. /\ todo'[m] = (IF apply[m] = "yes" THEN Installs(m, View(m, Pulled(m), now0)) ELSE {})
      /\ pc'[m] = (IF todo'[m] = {} THEN "idle" ELSE "work")
  BY <1>5, <1>6 DEF PlanSync, TypeOK
<1>8. \A r \in todo'[m] : Plans(m, r)
  BY <1>6, <1>7 DEF Plans, PlanSync
<1>9. Moves(m)
  BY <1>2, <1>7, <1>8 DEF Moves, OthersBehind, Settling, PlanSync
<1>10. QED
  BY <1>4, <1>9

(* The end of the work: what brew has is recorded again if anything         *)
(* changed.                                                                 *)
LEMMA FinishTurn ==
  ASSUME TypeOK, TurnInv, NEW m \in Machines, Finish(m)
  PROVE  Turn(m) /\ (Records(m) \/ Moves(m))
<1>1. Busy(m)
  BY BusyAlone DEF Finish, Asked
<1>2. UNCHANGED <<now, brew, remote, behind, todo, removed, wanted>> /\ todo[m] = {}
  BY DEF Finish, Asked, histVars
<1>3. CASE changed[m] = "yes"
  <2>1. CommitAs(m, clone[m], Fresh(m), "idle") /\ Derived(m, Fresh(m))
    BY <1>3 DEF Finish, Fresh, Derived
  <2>2. /\ clone'[m][m] = Fresh(m)
        /\ \/ unpushed'[m] = "yes"
           \/ unpushed'[m] = unpushed[m] /\ Fresh(m) = clone[m][m]
        /\ \A k \in Machines \ {m} : pc'[k] = pc[k] /\ clone'[k] = clone[k]
                                     /\ unpushed'[k] = unpushed[k]
    BY <2>1, CommitTurn DEF TypeOK
  <2>3. Turn(m)
    BY <1>1, <1>2, <2>2 DEF Busy, Turn, Untouched
  <2>4. Records(m)
    BY <1>1, <1>2, <2>1, <2>2 DEF Busy, Records, OthersBehind
  <2>5. QED
    BY <2>3, <2>4
<1>4. CASE changed[m] # "yes"
  <2>1. pc' = [pc EXCEPT ![m] = "idle"] /\ UNCHANGED <<clone, unpushed>>
    BY <1>4 DEF Finish
  <2>2. pc'[m] = "idle" /\ \A k \in Machines \ {m} : pc'[k] = pc[k]
    BY <2>1 DEF TypeOK
  <2>3. Turn(m)
    BY <1>1, <1>2, <2>1, <2>2 DEF Busy, Turn, Untouched
  <2>4. Moves(m)
    BY <1>2, <1>4, <2>1, <2>2 DEF Moves, OthersBehind, Settling
  <2>5. QED
    BY <2>3, <2>4
<1>5. QED
  BY <1>3, <1>4

(* A push that lands: its clone is now what is published and every other    *)
(* clone is behind.                                                         *)
LEMMA LandsTurn ==
  ASSUME TypeOK, TurnInv, NEW m \in Machines, pc[m] \in {"push", "repush"}, Lands(m),
         UNCHANGED <<now, brew, clone, todo, removed, wanted>>
  PROVE  Turn(m) /\ Sends(m)
<1>1. Busy(m)
  BY BusyAlone
<1>2. /\ remote' = clone[m] /\ unpushed'[m] = "no" /\ behind'[m] = "no"
      /\ \A k \in Machines \ {m} : behind'[k] = "yes" /\ unpushed'[k] = unpushed[k]
                                   /\ pc'[k] = pc[k]
      /\ pc'[m] = next[m]
  BY DEF Lands, TypeOK
<1>3. next[m] \in {"idle", "plan", "work"}
  BY DEF TypeOK
<1>4. QED
  BY <1>1, <1>2, <1>3 DEF Busy, Turn, Untouched, Sends

(* A push that is refused, and the steps that follow it: nothing is         *)
(* published.                                                               *)
LEMMA HaltTurn ==   \* a push that is refused, and what follows it
  ASSUME TypeOK, TurnInv, NEW m \in Machines, pc[m] \in {"push", "reconcile", "repush"},
         UNCHANGED <<now, brew, remote, unpushed, behind, todo, removed, wanted>>,
         clone' = clone \/ clone' = [clone EXCEPT ![m] = Pulled(m)],
         NEW after \in {"reconcile", "repush", "idle"}, pc' = [pc EXCEPT ![m] = after]
  PROVE  Turn(m) /\ Moves(m)
<1>1. Busy(m)
  BY BusyAlone
<1>2. clone'[m][m] = clone[m][m] /\ \A k \in Machines \ {m} : clone'[k] = clone[k]
  BY DEF Pulled, TypeOK
<1>3. pc'[m] = after /\ \A k \in Machines \ {m} : pc'[k] = pc[k]
  BY DEF TypeOK
<1>4. todo[m] = {}
  BY DEF TurnInv, InTurn
<1>5. QED
  BY <1>1, <1>2, <1>3, <1>4 DEF Busy, Turn, Untouched, Moves, OthersBehind, Settling

(* Each step of publishing either lands or leaves what is published alone.  *)
LEMMA PublishTurn ==
  ASSUME TypeOK, TurnInv, NEW m \in Machines, Push(m) \/ Reconcile(m) \/ PushAgain(m)
  PROVE  Turn(m) /\ (Sends(m) \/ Moves(m))
<1>1. pc[m] \in {"push", "reconcile", "repush"} /\ UNCHANGED <<now, brew, todo, removed, wanted>>
  BY DEF Push, Reconcile, PushAgain, histVars
<1>2. CASE Lands(m) /\ pc[m] \in {"push", "repush"} /\ UNCHANGED clone
  BY <1>1, <1>2, LandsTurn
<1>3. CASE Push(m) /\ ~Lands(m)
  BY <1>1, <1>3, HaltTurn DEF Push, Refused
<1>4. CASE PushAgain(m) /\ ~Lands(m)
  BY <1>1, <1>4, HaltTurn DEF PushAgain, Refused, Abort
<1>5. CASE Reconcile(m)
  <2>1. UNCHANGED <<remote, unpushed>>
    BY <1>5 DEF Reconcile
  <2>2. UNCHANGED behind
    <3>1. behind[m] = "no"
      BY <1>1, BusyAlone DEF Busy
    <3>2. behind' = [behind EXCEPT ![m] = "no"] \/ UNCHANGED behind
      BY <1>5 DEF Reconcile
    <3>3. QED
      BY <3>1, <3>2 DEF TypeOK
  <2>3. CASE clone' = [clone EXCEPT ![m] = Pulled(m)] /\ pc' = [pc EXCEPT ![m] = "repush"]
    BY <1>1, <2>1, <2>2, <2>3, HaltTurn
  <2>4. CASE UNCHANGED clone /\ Abort(m)
    BY <1>1, <2>1, <2>2, <2>4, HaltTurn DEF Abort
  <2>5. QED
    BY <1>5, <2>3, <2>4 DEF Reconcile
<1>6. QED
  BY <1>2, <1>3, <1>4, <1>5 DEF Push, PushAgain

(* Installing from the plan: brew gets the package, or the install fails    *)
(* and nothing moves.                                                       *)
LEMMA InstallTurn ==
  ASSUME TypeOK, TurnInv, NEW m \in Machines, NEW p \in Refs, InstallOne(m, p)
  PROVE  Turn(m) /\ (Gets(m) \/ Moves(m))
<1>1. Busy(m)
  BY BusyAlone DEF InstallOne
<1>2. /\ UNCHANGED <<now, remote, clone, unpushed, behind, pc, removed, wanted>>
      /\ pc[m] = "work" /\ p \in todo[m] /\ todo' = [todo EXCEPT ![m] = @ \ {p}]
  BY DEF InstallOne, gitVars, histVars
<1>3. todo'[m] = todo[m] \ {p} /\ \A k \in Machines \ {m} : todo'[k] = todo[k]
  BY <1>2 DEF TypeOK
<1>4. CASE brew' = [brew EXCEPT ![m] = Installed(@, p)] /\ changed' = [changed EXCEPT ![m] = "yes"]
  <2>1. changed'[m] = "yes" /\ \A k \in Machines \ {m} : brew'[k] = brew[k]
    BY <1>4 DEF TypeOK
  <2>2. Turn(m)
    BY <1>1, <1>2, <1>3, <2>1 DEF Busy, Turn, Untouched
  <2>3. Gets(m)
    BY <1>2, <1>4, <2>1 DEF Gets, BrewGets, gitVars
  <2>4. QED
    BY <2>2, <2>3
<1>5. CASE UNCHANGED <<brew, changed>>
  <2>1. Turn(m)
    BY <1>1, <1>2, <1>3, <1>5 DEF Busy, Turn, Untouched
  <2>2. Moves(m)
    BY <1>2, <1>3, <1>5 DEF Moves, OthersBehind, Settling
  <2>3. QED
    BY <2>1, <2>2
<1>6. QED
  BY <1>4, <1>5 DEF InstallOne

(* Removing after agreement: brew drops the package, or it stays and        *)
(* nothing moves.                                                           *)
LEMMA RemoveTurn ==
  ASSUME TypeOK, TurnInv, NEW m \in Machines, NEW p \in Refs, RemoveOne(m, p)
  PROVE  Turn(m) /\ (Drops(m) \/ Moves(m))
<1>1. Busy(m)
  BY BusyAlone DEF RemoveOne, Asked
<1>2. /\ UNCHANGED <<now, remote, clone, unpushed, behind, pc, todo, wanted>>
      /\ pc[m] = "work" /\ todo[m] = {}
  BY DEF RemoveOne, Asked, gitVars
<1>3. CASE /\ brew' = [brew EXCEPT ![m] = Uninstalled(@, p)]
           /\ changed' = [changed EXCEPT ![m] = "yes"] /\ RemovalIsSeen(m, p)
  <2>1. /\ changed'[m] = "yes"
        /\ \A k \in Machines \ {m} : brew'[k] = brew[k] /\ removed'[k] = removed[k]
    BY <1>3 DEF RemovalIsSeen, TypeOK
  <2>2. Turn(m)
    BY <1>1, <1>2, <2>1 DEF Busy, Turn, Untouched
  <2>3. Drops(m)
    BY <1>2, <1>3, <2>1 DEF Drops, BrewDrops, gitVars
  <2>4. QED
    BY <2>2, <2>3
<1>4. CASE UNCHANGED <<brew, changed, removed>>
  <2>1. Turn(m)
    BY <1>1, <1>2, <1>4 DEF Busy, Turn, Untouched
  <2>2. Moves(m)
    BY <1>2, <1>4 DEF Moves, OthersBehind, Settling
  <2>3. QED
    BY <2>1, <2>2
<1>5. QED
  BY <1>3, <1>4 DEF RemoveOne

(* A person's answers record in the machine's own file alone.               *)
LEMMA AnswerTurn ==
  ASSUME TypeOK, TurnInv, NEW m \in Machines,
         Escape(m) \/ \E o \in Offers : Agree(m, o) \/ Keep(m, o)
  PROVE  Turn(m) /\ (Records(m) \/ Moves(m))
<1>1. Busy(m)
  BY BusyAlone DEF Escape, Agree, Keep
<1>2. /\ UNCHANGED <<now, brew, remote, behind, todo, changed, removed, wanted>>
      /\ pc[m] = "work" /\ todo[m] = {}
  BY DEF Escape, Agree, Keep, gitVars, histVars
<1>3. CASE UNCHANGED <<clone, unpushed, pc>>
  <2>1. Turn(m)
    BY <1>1, <1>2, <1>3 DEF Busy, Turn, Untouched
  <2>2. Moves(m)
    BY <1>2, <1>3 DEF Moves, OthersBehind, Settling
  <2>3. QED
    BY <2>1, <2>2
<1>4. ASSUME NEW o \in offers[m], CommitAs(m, clone[m], Acknowledged(Fresh(m), o), "work")
      PROVE  Turn(m) /\ Records(m)
  <2>1. PICK inv : inv = Acknowledged(Fresh(m), o)
    OBVIOUS
  <2>2. Derived(m, inv)
    BY <2>1 DEF Derived
  <2>3. /\ clone'[m][m] = inv
        /\ \/ unpushed'[m] = "yes"
           \/ unpushed'[m] = unpushed[m] /\ inv = clone[m][m]
        /\ \A k \in Machines \ {m} : pc'[k] = pc[k] /\ clone'[k] = clone[k]
                                     /\ unpushed'[k] = unpushed[k]
    BY <1>4, <2>1, CommitTurn DEF TypeOK
  <2>4. Turn(m)
    BY <1>1, <1>2, <2>3 DEF Busy, Turn, Untouched
  <2>5. Records(m)
    BY <1>1, <1>2, <2>2, <2>3 DEF Records, OthersBehind
  <2>6. QED
    BY <2>4, <2>5
<1>5. CASE Escape(m) \/ \E o \in Offers : Agree(m, o)
  BY <1>3, <1>5 DEF Escape, Agree, gitVars
<1>6. ASSUME NEW o \in Offers, Keep(m, o) PROVE Turn(m) /\ (Records(m) \/ Moves(m))
  BY <1>3, <1>4, <1>6 DEF Keep, Fresh
<1>7. QED
  BY <1>5, <1>6

(* Every step is the clock's, a person's while no command runs, or that of  *)
(* the one machine whose command runs.                                      *)
Ticks == /\ now <= now'
         /\ UNCHANGED <<brew, gitVars, pc, todo, removed, wanted, changed>>
Orderly == TakeTurns /\ MaxRunning = 1 /\ ~Upgrades
LEMMA TurnStep ==
  ASSUME TypeOK, TurnInv, Fetched, Orderly, [Next]_vars
  PROVE  \/ Ticks
         \/ \E n \in Machines : \/ \E p \in Refs : Hand(n, p)
                                \/ Turn(n) /\ Kind(n)
<1>1. CASE UNCHANGED vars \/ Tick
  <2>1. now \in Int
    BY PlanAssumption DEF TypeOK, Times
  <2>2. QED
    BY <1>1, <2>1 DEF Tick, Ticks, vars, workVars, histVars
<1>2. ASSUME NEW m \in Machines, Person(m)
      PROVE  (\E p \in Refs : Hand(m, p)) \/ (Turn(m) /\ Kind(m))
  <2>1. ASSUME NEW p \in Refs, BrewInstall(m, p) \/ BrewUninstall(m, p) \/ BecomesDependency(m, p)
        PROVE  Hand(m, p)
    <3>1. AllIdle
      BY <2>1 DEF BrewInstall, BrewUninstall, BecomesDependency, ByHand, Orderly, Running, AllIdle
    <3>2. UNCHANGED <<now, gitVars, pc, todo>>
      BY <2>1 DEF BrewInstall, BrewUninstall, BecomesDependency, workVars
    <3>3. HandInstall(m, p) \/ HandRemove(m, p) \/ HandDemote(m, p)
      BY <2>1 DEF BrewInstall, BrewUninstall, BecomesDependency, HandInstall, HandRemove,
                  HandDemote, BrewGets, BrewDrops, BrewDemotes, histVars
    <3>4. QED
      BY <3>1, <3>2, <3>3 DEF Hand
  <2>2. ~Update(m)
    BY DEF Update, Orderly
  <2>3. QED
    BY <1>2, <2>1, <2>2, SkipTurn, AnswerTurn DEF Person, Kind, Orderly
<1>3. ASSUME NEW m \in Machines, Run(m) PROVE Turn(m) /\ Kind(m)
  BY <1>3, SyncTurn, ApplyTurn DEF Run, Kind, Orderly
<1>4. ASSUME NEW m \in Machines, Step(m) PROVE Turn(m) /\ Kind(m)
  BY <1>4, PlanTurn, FinishTurn, PublishTurn, InstallTurn, RemoveTurn, AnswerTurn DEF Step, Kind
<1>5. QED
  BY <1>1, <1>2, <1>3, <1>4 DEF Next

-----------------------------------------------------------------------------
(* Stamps of a well typed state are integers.                               *)
LEMMA StampedInts ==
  ASSUME TypeOK, NEW m \in Machines, NEW r \in Refs
  PROVE  /\ now \in Int /\ 0 <= now /\ None <= now
         /\ remote[m].inst[r] \in Int /\ remote[m].ret[r] \in Int
         /\ clone[m][m].inst[r] \in Int /\ clone[m][m].ret[r] \in Int
         /\ brew[m][r].at \in Int /\ brew[m][r].at \in Times /\ Wished(m)[r] \in Int
         /\ removed[m][r] \in Int /\ wanted[r] \in Int
<1>1. now \in Int /\ 0 <= now /\ None <= now
  BY PlanAssumption DEF TypeOK, Times, None, PlanAssumption
<1>2. remote[m] \in Inventories /\ clone[m][m] \in Inventories
  BY DEF TypeOK
<1>3. \A inv \in Inventories : inv.inst[r] \in Int /\ inv.ret[r] \in Int
  BY StampsInt DEF Inventories
<1>4. brew[m][r].at \in Times
  BY DEF TypeOK, Brews
<1>5. Times \subseteq Int
  BY DEF Times
<1>6. Wished(m)[r] \in Int
  BY <1>4, <1>5 DEF Wished, None
<1>7. removed[m][r] \in Int /\ wanted[r] \in Int
  BY StampsInt DEF TypeOK
<1>8. QED
  BY <1>1, <1>2, <1>3, <1>4, <1>5, <1>6, <1>7

(* What a command writes into its file as installed is what brew has.       *)
LEMMA DerivedInst ==
  ASSUME TypeOK, NEW m \in Machines, NEW inv, Derived(m, inv)
  PROVE  inv.inst = Wished(m)
<1>1. Fresh(m) \in Inventories
  BY SnapshotType DEF Fresh, TypeOK
<1>2. Fresh(m).inst = Wished(m)
  BY DEF Fresh, Snapshot, Wished
<1>3. QED
  BY <1>1, <1>2 DEF Derived, Acknowledged, OptedOut, Inventories

(* Brew after an install or a removal, package by package.                  *)
LEMMA BrewInstalled ==
  ASSUME TypeOK, NEW n \in Machines, NEW p \in Refs,
         BrewGets(n, p), NEW m \in Machines, NEW r \in Refs
  PROVE  \/ brew'[m][r] = brew[m][r] /\ ~ (m = n /\ r = p)
         \/ /\ m = n /\ r = p /\ brew'[m][r].state = "asked"
            /\ brew'[m][r].at = now \/ brew'[m][r].at = brew[m][r].at
BY DEF BrewGets, Installed, TypeOK, Brews

(* Dropping a package empties its entry and leaves every other.             *)
LEMMA BrewUninstalled ==
  ASSUME TypeOK, NEW n \in Machines, NEW p \in Refs,
         BrewDrops(n, p), NEW m \in Machines, NEW r \in Refs
  PROVE  \/ brew'[m][r] = brew[m][r] /\ ~ (m = n /\ r = p)
         \/ m = n /\ r = p /\ brew'[m][r].state = "none" /\ brew'[m][r].at = 0
BY DEF BrewDrops, Uninstalled, TypeOK, Brews

(* A package something still depends on stays, no longer asked for.         *)
LEMMA BrewDemoted ==
  ASSUME TypeOK, NEW n \in Machines, NEW p \in Refs,
         BrewDemotes(n, p), NEW m \in Machines, NEW r \in Refs
  PROVE  \/ brew'[m][r] = brew[m][r] /\ ~ (m = n /\ r = p)
         \/ m = n /\ r = p /\ brew'[m][r].state = "dep" /\ brew'[m][r].at = brew[m][r].at
<1>1. brew[n][p] \in [state : {"none", "dep", "asked"}, at : Times]
  BY DEF TypeOK, Brews
<1>2. brew' = [brew EXCEPT ![n] = [brew[n] EXCEPT ![p] = [brew[n][p] EXCEPT !.state = "dep"]]]
  BY DEF BrewDemotes
<1>3. brew[n] \in [Refs -> [state : {"none", "dep", "asked"}, at : Times]]
  BY DEF TypeOK, Brews
<1>4. brew'[n] = [brew[n] EXCEPT ![p] = [brew[n][p] EXCEPT !.state = "dep"]]
         /\ (m # n => brew'[m] = brew[m])
  BY <1>2 DEF TypeOK
<1>5. QED
  BY <1>1, <1>3, <1>4

(* A removal that is seen is of now, and no other stamp moves.              *)
LEMMA RemovedThen ==
  ASSUME TypeOK, NEW n \in Machines, NEW p \in Refs, RemovalIsSeen(n, p),
         NEW m \in Machines, NEW r \in Refs
  PROVE  \/ removed'[m][r] = removed[m][r]
         \/ m = n /\ r = p /\ removed'[m][r] = now /\ Has(clone[m][m], r)
BY DEF RemovalIsSeen, Published, TypeOK

(* No stamp is of the future.                                               *)
LEMMA DatedStep ==
  ASSUME TypeOK, TurnInv, Fetched, Orderly, [Next]_vars, NEW m \in Machines, NEW r \in Refs
  PROVE  Dated(m, r)'
<1>1. Dated(m, r) /\ TypeOK' /\ \A k \in Machines : Dated(k, r)
  BY TypeStep DEF TurnInv, InTurn
<1>2. CASE Ticks
  <2>1. now' \in Int
    BY <1>1, PlanAssumption DEF TypeOK, Times
  <2>2. QED
    BY <1>1, <1>2, <2>1, StampedInts DEF Ticks, Dated, gitVars
<1>3. ASSUME NEW n \in Machines, NEW p \in Refs, Hand(n, p) PROVE Dated(m, r)'
  <2>1. /\ now' = now /\ remote'[m].inst[r] <= now /\ clone'[m][m].inst[r] <= now
    BY <1>1, <1>3 DEF Hand, gitVars, Dated
  <2>2. brew'[m][r].at <= now
    BY <1>1, <1>3, BrewInstalled, BrewUninstalled, BrewDemoted, StampedInts
       DEF Hand, HandInstall, HandRemove, HandDemote, Dated
  <2>3. removed'[m][r] <= now
    BY <1>1, <1>3, RemovedThen, StampedInts DEF Hand, HandInstall, HandRemove, HandDemote, Dated
  <2>4. wanted'[r] <= now
    <3>1. wanted' = wanted \/ wanted' = [wanted EXCEPT ![p] = now]
      BY <1>3 DEF Hand, HandInstall, HandRemove, HandDemote
    <3>2. wanted'[r] = wanted[r] \/ wanted'[r] = now
      BY <3>1 DEF TypeOK
    <3>3. QED
      BY <1>1, <3>2, StampedInts DEF Dated
  <2>5. QED
    BY <2>1, <2>2, <2>3, <2>4 DEF Dated
<1>4. ASSUME NEW n \in Machines, Turn(n), Kind(n) PROVE Dated(m, r)'
  <2>1. now' = now /\ wanted'[r] <= now
    BY <1>1, <1>4 DEF Turn, Dated
  <2>2. brew'[m][r].at <= now
    <3>1. CASE brew' = brew
      BY <1>1, <3>1 DEF Dated
    <3>2. ASSUME NEW p \in Refs, BrewGets(n, p)
          PROVE  brew'[m][r].at <= now
      <4>1. \/ brew'[m][r].at = brew[m][r].at
            \/ brew'[m][r].at = now
        BY <1>4, <3>2, BrewInstalled
      <4>2. QED
        BY <1>1, <4>1, StampedInts DEF Dated
    <3>3. ASSUME NEW p \in Refs, BrewDrops(n, p)
          PROVE  brew'[m][r].at <= now
      <4>1. \/ brew'[m][r].at = brew[m][r].at
            \/ brew'[m][r].at = 0
        BY <1>4, <3>3, BrewUninstalled
      <4>2. QED
        BY <1>1, <4>1, StampedInts DEF Dated
    <3>4. todo[n] \subseteq Refs
      BY DEF TypeOK
    <3>5. QED
      BY <1>4, <3>1, <3>2, <3>3, <3>4 DEF Kind, Records, Moves, Sends, Gets, Drops
  <2>3. removed'[m][r] <= now
    BY <1>1, <1>4, RemovedThen, StampedInts DEF Kind, Records, Moves, Sends, Gets, Drops, Dated
  <2>4. clone'[m][m].inst[r] <= now
    <3>1. CASE m # n
      BY <1>1, <1>4, <3>1 DEF Turn, Untouched, Dated
    <3>2. CASE m = n /\ Records(n)
      <4>1. clone'[m][m].inst = Wished(m)
        BY <3>2, DerivedInst DEF Records
      <4>2. QED
        BY <1>1, <4>1, StampedInts DEF Wished, Dated
    <3>3. CASE m = n /\ ~Records(n)
      BY <1>1, <1>4, <3>3 DEF Kind, Moves, Sends, Gets, Drops, gitVars, Dated
    <3>4. QED
      BY <3>1, <3>2, <3>3
  <2>5. remote'[m].inst[r] <= now
    <3>1. remote'[m] = remote[m] \/ remote'[m] = clone[m][m]
      BY SharesOwn
    <3>2. QED
      BY <1>1, <3>1 DEF Dated
  <2>6. QED
    BY <2>1, <2>2, <2>3, <2>4, <2>5 DEF Dated
<1>5. QED
  BY <1>2, <1>3, <1>4, TurnStep

(* One command at a time, after every step.                                 *)
LEMMA AloneStep ==
  ASSUME TypeOK, TurnInv, Fetched, Orderly, [Next]_vars
  PROVE  Alone'
<1>1. CASE UNCHANGED pc
  BY <1>1 DEF TurnInv, Alone
<1>2. ASSUME NEW n \in Machines, Turn(n) PROVE Alone'
  <2>1. \A k \in Machines \ {n} : pc'[k] = "idle"
    BY <1>2 DEF Turn, Untouched
  <2>2. QED
    BY <2>1 DEF Alone
<1>3. QED
  BY <1>1, <1>2, TurnStep DEF Ticks, Hand

(* What the running machine's clone and file hold after its step.           *)
LEMMA OwnFileStep ==
  ASSUME TypeOK, TurnInv, Fetched, NEW n \in Machines, Turn(n), Kind(n)
  PROVE  /\ pc'[n] # "work" => todo'[n] = {}
         /\ unpushed'[n] = "no" => clone'[n][n] = remote'[n]
         /\ pc'[n] \in Settling => clone'[n][n].inst = Wished(n)'
<1>1. InTurn(n)
  BY DEF TurnInv
<1>2. CASE Records(n)
  <2>1. clone'[n][n].inst = Wished(n) /\ Wished(n)' = Wished(n)
    BY <1>2, DerivedInst DEF Records, Wished
  <2>2. QED
    BY <1>1, <1>2, <2>1 DEF Records, InTurn
<1>3. CASE Moves(n)
  <2>1. Wished(n)' = Wished(n)
    BY <1>3 DEF Moves, Wished
  <2>2. QED
    BY <1>1, <1>3, <2>1 DEF Moves, InTurn
<1>4. CASE Sends(n)
  <2>1. Wished(n)' = Wished(n)
    BY <1>4 DEF Sends, Wished
  <2>2. todo'[n] = {}
    BY <1>1, <1>4 DEF Sends, InTurn
  <2>3. QED
    BY <1>1, <1>4, <2>1, <2>2 DEF Sends, InTurn, Settling
<1>5. CASE Gets(n) \/ Drops(n)
  BY <1>1, <1>5 DEF Gets, Drops, InTurn, Settling, gitVars
<1>6. QED
  BY <1>2, <1>3, <1>4, <1>5 DEF Kind

(* Every step keeps the turns.                                              *)
LEMMA TurnInvStep ==
  ASSUME TypeOK, TurnInv, Fetched, Orderly, [Next]_vars
  PROVE  TurnInv'
<1>1. Alone' /\ \A m \in Machines, r \in Refs : Dated(m, r)'
  BY AloneStep, DatedStep
<1>2. SUFFICES ASSUME NEW m \in Machines
               PROVE  /\ pc'[m] # "idle" => behind'[m] = "no"
                      /\ pc'[m] # "work" => todo'[m] = {}
                      /\ unpushed'[m] = "no" => clone'[m][m] = remote'[m]
                      /\ pc'[m] \in Settling => clone'[m][m].inst = Wished(m)'
  BY <1>1 DEF TurnInv, InTurn
<1>3. InTurn(m)
  BY DEF TurnInv
<1>4. CASE Ticks
  <2>1. Wished(m)' = Wished(m)
    BY <1>4 DEF Ticks, Wished
  <2>2. QED
    BY <1>3, <1>4, <2>1 DEF Ticks, gitVars, InTurn
<1>6. CASE \E n \in Machines, p \in Refs : Hand(n, p)
  <2>1. pc[m] = "idle" /\ UNCHANGED <<pc, todo, remote, clone, unpushed, behind>>
    BY <1>6 DEF Hand, AllIdle, gitVars
  <2>2. QED
    BY <1>3, <2>1 DEF InTurn, Settling
<1>7. ASSUME NEW n \in Machines, Turn(n), Kind(n), n = m
      PROVE  /\ pc'[m] # "idle" => behind'[m] = "no"
             /\ pc'[m] # "work" => todo'[m] = {}
             /\ unpushed'[m] = "no" => clone'[m][m] = remote'[m]
             /\ pc'[m] \in Settling => clone'[m][m].inst = Wished(m)'
  BY <1>7, OwnFileStep DEF Turn
<1>8. ASSUME NEW n \in Machines, Turn(n), Kind(n), n # m
      PROVE  /\ pc'[m] = "idle" /\ todo'[m] = {}
             /\ unpushed'[m] = "no" => clone'[m][m] = remote'[m]
  <2>1. pc'[m] = "idle" /\ todo'[m] = todo[m] /\ pc[m] = "idle"
        /\ unpushed'[m] = unpushed[m] /\ clone'[m] = clone[m]
    BY <1>8 DEF Turn, Untouched
  <2>2. remote'[m] = remote[m]
    <3>1. CASE Sends(n)
      <4>1. behind[n] = "no" /\ remote' = clone[n]
        BY <1>8, <3>1 DEF Sends, TurnInv, InTurn
      <4>2. QED
        BY <1>8, <4>1 DEF Fetched
    <3>2. CASE ~Sends(n)
      BY <1>8, <3>2 DEF Kind, Records, Moves, Gets, Drops, gitVars
    <3>3. QED
      BY <3>1, <3>2
  <2>3. QED
    BY <1>3, <2>1, <2>2 DEF InTurn
<1>9. CASE \E n \in Machines : Turn(n) /\ Kind(n)
  <2>1. PICK n \in Machines : Turn(n) /\ Kind(n)
    BY <1>9
  <2>2. CASE n = m
    BY <1>7, <2>1, <2>2
  <2>3. CASE n # m
    BY <1>8, <2>1, <2>3 DEF Settling
  <2>4. QED
    BY <2>2, <2>3
<1>10. QED
  BY <1>4, <1>6, <1>9, TurnStep

-----------------------------------------------------------------------------
(* A set of numbers that is not empty has a least one, so that of the       *)
(* stamps of the machines one is the latest.                                *)
Less == {ss \in Nat \X Nat : ss[1] < ss[2]}
LEMMA Least ==
  ASSUME NEW S \in SUBSET Nat, S # {}
  PROVE  \E x \in S : \A y \in S : x <= y
<1>1. PICK x \in S : \A y \in S : ~ (<<y, x>> \in Less)
  BY NatLessThanWellFounded, WFMin DEF OpToRel, Less
<1>2. ASSUME NEW y \in S PROVE x <= y
  <2>1. x \in Nat /\ y \in Nat /\ <<y, x>> \notin Less
    BY <1>1, <1>2
  <2>2. ASSUME y < x PROVE <<y, x>> \in Less
    <3>1. <<y, x>> \in Nat \X Nat /\ <<y, x>>[1] < <<y, x>>[2]
      BY <2>1, <2>2
    <3>2. QED
      BY <3>1 DEF Less
  <2>3. QED
    BY <2>1, <2>2
<1>3. QED
  BY <1>1, <1>2

(* Among the machines' stamps one is the latest.                            *)
LEMMA Latest ==
  ASSUME NEW f \in [Machines -> Stamps], NEW m \in Machines
  PROVE  \E k \in Machines : \A j \in Machines : f[j] <= f[k]
<1> DEFINE S == {MaxTime - f[k] : k \in Machines}
<1>1. \A k \in Machines : f[k] \in Int /\ f[k] <= MaxTime
  BY PlanAssumption DEF PlanAssumption, Stamps, Times, None
<1>2. S \subseteq Nat /\ MaxTime \in Int
  BY <1>1, PlanAssumption DEF PlanAssumption
<1>3. S # {}
  OBVIOUS
<1>4. PICK x \in S : \A y \in S : x <= y
  BY <1>2, <1>3, Least
<1>5. PICK k \in Machines : x = MaxTime - f[k]
  OBVIOUS
<1>6. ASSUME NEW j \in Machines PROVE f[j] <= f[k]
  <2>1. MaxTime - f[k] <= MaxTime - f[j]
    BY <1>4, <1>5
  <2>2. QED
    BY <1>1, <1>2, <2>1
<1>7. QED
  BY <1>6

(* A retirement that no published install is later than retires the         *)
(* package for everybody.                                                   *)
LEMMA RetiredBy ==
  ASSUME NEW all \in [Machines -> Inventories], NEW r \in Refs, NEW m \in Machines,
         NEW s \in Times, all[m].ret[r] = s, \A k \in Machines : all[k].inst[r] <= s
  PROVE  Retired(all, r)
<1>1. \A k \in Machines : all[k].ret[r] \in Stamps /\ all[k].inst[r] \in Stamps
  BY DEF Inventories
<1>2. s \in Int /\ 0 <= s /\ s # None
  BY PlanAssumption DEF PlanAssumption, Times, None
<1>3. PICK k \in Machines : \A j \in Machines : all[j].ret[r] <= all[k].ret[r]
  <2> DEFINE f == [j \in Machines |-> all[j].ret[r]]
  <2>1. f \in [Machines -> Stamps]
    BY <1>1
  <2>2. PICK k \in Machines : \A j \in Machines : f[j] <= f[k]
    BY <2>1, Latest
  <2>3. QED
    BY <2>2
<1>4. k \in Retirers(all, r)
  <2>1. s <= all[k].ret[r]
    BY <1>3
  <2>2. all[k].ret[r] # None
    BY <1>2, <2>1 DEF None
  <2>3. QED
    BY <1>3, <2>2 DEF Retirers
<1>5. LatestInstall(all, r) \in Int /\ LatestInstall(all, r) <= s
  <2> DEFINE P(t) == /\ t = 0 \/ \E j \in Machines : all[j].inst[r] = t
                     /\ \A j \in Machines : all[j].inst[r] <= t
             f == [j \in Machines |-> all[j].inst[r]]
  <2>1. f \in [Machines -> Stamps]
    BY <1>1
  <2>2. PICK l \in Machines : \A j \in Machines : f[j] <= f[l]
    BY <2>1, Latest
  <2>3. \E t \in Times : P(t)
    <3>1. CASE all[l].inst[r] = None
      <4>1. \A j \in Machines : all[j].inst[r] <= 0
        <5>1. \A j \in Machines : all[j].inst[r] \in Int /\ all[j].inst[r] <= None
          BY <1>1, <2>2, <3>1, StampsInt
        <5>2. QED
          BY <5>1 DEF None
      <4>2. QED
        BY <4>1, TimesNat
    <3>2. CASE all[l].inst[r] # None
      <4>1. all[l].inst[r] \in Times
        BY <1>1, <3>2 DEF Stamps
      <4>2. QED
        BY <2>2, <4>1
    <3>3. QED
      BY <3>1, <3>2
  <2>4. PICK t \in Times : t = LatestInstall(all, r) /\ P(t)
    BY <2>3 DEF LatestInstall
  <2>5. t <= s /\ t \in Int
    BY <1>2, <2>4 DEF Times
  <2>6. QED
    BY <2>4, <2>5
<1>6. ASSUME NEW j \in Retirers(all, r) PROVE LatestInstall(all, r) <= all[j].ret[r]
  <2>1. s <= all[j].ret[r] /\ all[j].ret[r] \in Int
    BY <1>1, StampsInt DEF Retirers
  <2>2. QED
    BY <1>2, <1>5, <2>1
<1>7. QED
  BY <1>4, <1>6 DEF Retired

(* A package that a person removed on m after it was last asked for is not  *)
(* there and not about to be installed.  Unless m's clone has diverged, its *)
(* file still shows it as installed (the next snapshot retires it as of     *)
(* then), or opts out of it, or retires it at a time s that every published *)
(* install is no later than: an install that is later comes from a plan     *)
(* that did not know of the removal, and its machine publishes it before m  *)
(* can publish the retirement, so that m's clone diverges.                  *)
Unwanted(m, r) == removed[m][r] > wanted[r]
AskedSince(k, r, s) == brew[k][r].state = "asked" /\ brew[k][r].at > s
Respects(k, r, s) == /\ r \notin todo[k]
                     /\ \/ Diverged(k)
                        \/ clone[k][k].inst[r] <= s /\ ~AskedSince(k, r, s)
Stands(m, r, s) ==
    /\ s # None
    /\ \A k \in Machines : remote[k].inst[r] <= s
    /\ \A k \in Machines : AskedSince(k, r, s) =>
                              clone[k][k].inst[r] = brew[k][r].at \/ Pending(k)
    /\ remote[m].ret[r] = s => \A k \in Machines : Respects(k, r, s)
Decided(m, r) == \/ Has(clone[m][m], r) \/ r \in clone[m][m].opt
                 \/ Stands(m, r, clone[m][m].ret[r])
LeftAlone(m, r) == Unwanted(m, r) => /\ brew[m][r].state = "none" /\ r \notin todo[m]
                                     /\ Diverged(m) \/ Decided(m, r)
AllLeft == \A m \in Machines, r \in Refs : LeftAlone(m, r)

(* The view a plan is made from: the published files, and a fresh snapshot  *)
(* in place of the machine's own.                                           *)
LEMMA ViewParts ==
  ASSUME TypeOK, NEW n \in Machines, NEW t \in Times
  PROVE  /\ View(n, Pulled(n), t) \in [Machines -> Inventories]
         /\ View(n, Pulled(n), t)[n] = Snapshot(brew[n], clone[n][n], t)
         /\ \A k \in Machines \ {n} : View(n, Pulled(n), t)[k] = remote[k]
<1>1. Pulled(n) \in [Machines -> Inventories] /\ Pulled(n)[n] = clone[n][n]
  BY PulledType DEF Pulled
<1>2. Snapshot(brew[n], clone[n][n], t) \in Inventories
  BY SnapshotType DEF TypeOK
<1>3. QED
  BY <1>1, <1>2 DEF View, Pulled

(* No machine plans to install what was removed there since it was last     *)
(* asked for.                                                               *)
LEMMA OwnPlan ==
  ASSUME TypeOK, TurnInv, OneVerdictEach, NEW n \in Machines, NEW r \in Refs,
         LeftAlone(n, r), Unwanted(n, r), ~Diverged(n), Plans(n, r)
  PROVE  FALSE
<1>1. PICK t \in Times : r \in Installs(n, View(n, Pulled(n), t)) /\ (t = now \/ pc[n] = "plan")
  BY DEF Plans
<1> DEFINE view == View(n, Pulled(n), t)
           own == Snapshot(brew[n], clone[n][n], t)
<1>2. /\ view \in [Machines -> Inventories] /\ view[n] = own
      /\ \A k \in Machines \ {n} : view[k] = remote[k]
  BY ViewParts
<1>3. brew[n][r].state = "none" /\ Decided(n, r)
  BY DEF LeftAlone
<1>4. own.inst[r] = None
  BY <1>3 DEF Snapshot
<1>5. ~Retired(view, r) /\ r \notin own.opt
  BY <1>1, <1>2 DEF Installs
<1> HIDE DEF view, own
<1>6. ASSUME NEW s \in Times, own.ret[r] = s, \A k \in Machines : remote[k].inst[r] <= s
      PROVE  FALSE
  <2>1. None <= s
    BY PlanAssumption DEF PlanAssumption, Times, None
  <2>2. \A k \in Machines : view[k].inst[r] <= s
    BY <1>2, <1>4, <1>6, <2>1
  <2>3. QED
    BY <1>2, <1>5, <1>6, <2>2, RetiredBy
<1>7. CASE Has(clone[n][n], r)
  <2>1. clone[n][n].ret[r] = None
    BY <1>7 DEF OneVerdictEach, OneVerdict
  <2>2. t = now
    <3>1. pc[n] # "plan"
      <4>1. pc[n] = "plan" => clone[n][n].inst[r] = Wished(n)[r]
        BY DEF TurnInv, InTurn, Settling
      <4>2. Wished(n)[r] = None
        BY <1>3 DEF Wished
      <4>3. QED
        BY <1>7, <4>1, <4>2 DEF Has
    <3>2. QED
      BY <1>1, <3>1
  <2>3. own.ret[r] = now
    BY <1>3, <1>7, <2>1, <2>2 DEF own, Snapshot, RetiredStamp, Retire, BrewHas
  <2>4. \A k \in Machines : remote[k].inst[r] <= now
    BY DEF TurnInv, InTurn, Dated
  <2>5. QED
    BY <1>6, <2>3, <2>4 DEF TypeOK
<1>8. CASE r \in clone[n][n].opt
  BY <1>3, <1>5, <1>8 DEF own, Snapshot
<1>9. CASE ~Has(clone[n][n], r) /\ Stands(n, r, clone[n][n].ret[r])
  <2>1. own.ret[r] = clone[n][n].ret[r]
    BY <1>3, <1>9 DEF own, Snapshot, RetiredStamp
  <2>2. clone[n][n].ret[r] \in Times
    BY <1>9 DEF Stands, TypeOK, Inventories, Stamps
  <2>3. QED
    BY <1>6, <1>9, <2>1, <2>2 DEF Stands
<1>10. QED
  BY <1>3, <1>7, <1>8, <1>9 DEF Decided

(* And none plans to install what another machine has retired for good.     *)
LEMMA OtherPlan ==
  ASSUME TypeOK, NEW n \in Machines, NEW m \in Machines, m # n, NEW r \in Refs,
         Stands(m, r, remote[m].ret[r]), ~Diverged(n), Plans(n, r)
  PROVE  FALSE
<1>1. PICK t \in Times : r \in Installs(n, View(n, Pulled(n), t))
  BY DEF Plans
<1>2. PICK s \in Times : s = remote[m].ret[r]
  BY DEF Stands, TypeOK, Inventories, Stamps
<1>3. ~AskedSince(n, r, s) /\ \A k \in Machines : remote[k].inst[r] <= s
  BY <1>2 DEF Stands, Respects
<1> DEFINE view == View(n, Pulled(n), t)
<1>4. /\ view \in [Machines -> Inventories] /\ view[n] = Snapshot(brew[n], clone[n][n], t)
      /\ \A k \in Machines \ {n} : view[k] = remote[k]
  BY ViewParts
<1>5. ~Retired(view, r)
  BY <1>1 DEF Installs
<1> HIDE DEF view
<1>6. view[n].inst[r] <= s
  <2>1. view[n].inst[r] = IF brew[n][r].state = "asked" THEN brew[n][r].at ELSE None
    BY <1>4 DEF Snapshot
  <2>2. brew[n][r].at \in Int /\ s \in Int /\ None <= s
    BY StampedInts, PlanAssumption DEF PlanAssumption, Times, None
  <2>3. QED
    BY <1>3, <2>1, <2>2 DEF AskedSince
<1>7. \A k \in Machines : view[k].inst[r] <= s
  BY <1>3, <1>4, <1>6
<1>8. view[m].ret[r] = s
  BY <1>2, <1>4
<1>9. QED
  BY <1>4, <1>5, <1>7, <1>8, RetiredBy

(* A retirement that stands goes on standing over steps that install        *)
(* nothing and publish nothing.                                             *)
LEMMA StandsOn ==
  ASSUME NEW m \in Machines, NEW r \in Refs, NEW s, Stands(m, r, s),
         remote' = remote,
         \A k \in Machines : /\ clone'[k][k] = clone[k][k]
                             /\ AskedSince(k, r, s)' =>
                                   AskedSince(k, r, s) /\ brew'[k][r].at = brew[k][r].at
                             /\ Pending(k) => Pending(k)'
                             /\ Diverged(k) => Diverged(k)',
         remote[m].ret[r] = s => \A k \in Machines : r \notin todo'[k]
  PROVE  Stands(m, r, s)'
<1>1. \A k \in Machines : AskedSince(k, r, s)' =>
                             clone'[k][k].inst[r] = brew'[k][r].at \/ Pending(k)'
  BY DEF Stands
<1>2. ASSUME remote'[m].ret[r] = s, NEW k \in Machines PROVE Respects(k, r, s)'
  <2>1. Respects(k, r, s) /\ r \notin todo'[k]
    BY <1>2 DEF Stands
  <2>2. QED
    BY <2>1 DEF Respects
<1>3. QED
  BY <1>1, <1>2 DEF Stands

(* A machine has decided when the retirement in its own file stands.        *)
LEMMA DecidedBy ==
  ASSUME NEW m \in Machines, NEW r \in Refs, NEW s, s = clone'[m][m].ret[r], Stands(m, r, s)'
  PROVE  Decided(m, r)'
BY DEF Decided, Stands

(* Whoever had decided has, where the step leaves m's file alone and what   *)
(* stood stands.                                                            *)
LEMMA StillDecided ==
  ASSUME NEW m \in Machines, NEW r \in Refs, Decided(m, r), clone'[m][m] = clone[m][m],
         \A s : s = clone[m][m].ret[r] /\ Stands(m, r, s) => Stands(m, r, s)'
  PROVE  Decided(m, r)'
<1>1. CASE Has(clone[m][m], r) \/ r \in clone[m][m].opt
  BY <1>1 DEF Decided, Has
<1>2. CASE Stands(m, r, clone[m][m].ret[r])
  <2>1. PICK s : s = clone[m][m].ret[r]
    OBVIOUS
  <2>2. Stands(m, r, s)'
    BY <1>2, <2>1
  <2>3. QED
    BY <2>1, <2>2, DecidedBy
<1>3. QED
  BY <1>1, <1>2 DEF Decided

(* The clock, and people while no command runs.                             *)
LEMMA TickLeaves ==
  ASSUME TypeOK, AllLeft, Ticks, NEW m \in Machines, NEW r \in Refs
  PROVE  LeftAlone(m, r)'
<1> SUFFICES ASSUME Unwanted(m, r)'
             PROVE  /\ brew'[m][r].state = "none" /\ r \notin todo'[m]
                    /\ Diverged(m)' \/ Decided(m, r)'
  BY DEF LeftAlone
<1>1. UNCHANGED <<brew, remote, clone, unpushed, behind, pc, todo, removed, wanted, changed>>
  BY DEF Ticks, gitVars
<1>2. /\ brew[m][r].state = "none" /\ r \notin todo[m]
      /\ Diverged(m) \/ Decided(m, r)
  BY <1>1 DEF AllLeft, LeftAlone, Unwanted
<1>3. \A k \in Machines : (Pending(k) => Pending(k)') /\ (Diverged(k) => Diverged(k)')
  BY <1>1 DEF Pending, Diverged
<1>4. ASSUME NEW s, Stands(m, r, s) PROVE Stands(m, r, s)'
  <2>1. \A k \in Machines : AskedSince(k, r, s)' => AskedSince(k, r, s)
    BY <1>1 DEF AskedSince
  <2>2. remote[m].ret[r] = s => \A k \in Machines : r \notin todo'[k]
    BY <1>1, <1>4 DEF Stands, Respects
  <2>3. QED
    BY <1>1, <1>3, <1>4, <2>1, <2>2, StandsOn
<1>5. QED
  BY <1>1, <1>2, <1>3, <1>4, StillDecided

(* What a person does by hand to brew leaves alone what was removed.        *)
LEMMA HandLeaves ==
  ASSUME TypeOK, TurnInv, AllLeft, NEW n \in Machines, NEW p \in Refs, Hand(n, p),
         NEW m \in Machines, NEW r \in Refs
  PROVE  LeftAlone(m, r)'
<1> SUFFICES ASSUME Unwanted(m, r)'
             PROVE  /\ brew'[m][r].state = "none" /\ r \notin todo'[m]
                    /\ Diverged(m)' \/ Decided(m, r)'
  BY DEF LeftAlone
<1>1. UNCHANGED <<now, remote, clone, unpushed, behind, pc, todo>> /\ AllIdle
  BY DEF Hand, gitVars
<1>2. \A k \in Machines : todo[k] = {} /\ ~Pending(k)
  BY <1>1 DEF AllIdle, Pending, TurnInv, InTurn
<1>3. \A k \in Machines : (Pending(k) => Pending(k)') /\ (Diverged(k) => Diverged(k)')
  BY <1>1, <1>2 DEF Diverged
<1>4. ASSUME Unwanted(m, r), brew'[m][r].state = brew[m][r].state,
             \A k \in Machines : brew'[k][r].state = "asked" => brew'[k][r] = brew[k][r]
      PROVE  /\ brew'[m][r].state = "none" /\ r \notin todo'[m]
             /\ Diverged(m)' \/ Decided(m, r)'
  <2>1. /\ brew[m][r].state = "none" /\ r \notin todo[m]
        /\ Diverged(m) \/ Decided(m, r)
    BY <1>4 DEF AllLeft, LeftAlone
  <2>2. ASSUME NEW s, Stands(m, r, s) PROVE Stands(m, r, s)'
    <3>1. \A k \in Machines : AskedSince(k, r, s)' => AskedSince(k, r, s) /\ brew'[k][r].at = brew[k][r].at
      BY <1>4 DEF AskedSince
    <3>2. QED
      BY <1>1, <1>2, <1>3, <2>2, <3>1, StandsOn
  <2>3. QED
    BY <1>1, <1>2, <1>3, <1>4, <2>1, <2>2, StillDecided
<1>5. CASE HandInstall(n, p)
  <2>1. BrewGets(n, p) /\ removed' = removed
    BY <1>5 DEF HandInstall
  <2>2. p # r
    <3>1. p = r => wanted'[r] = now
      BY <1>5 DEF HandInstall, TypeOK
    <3>2. removed[m][r] <= now
      BY DEF TurnInv, InTurn, Dated
    <3>3. QED
      BY <2>1, <3>1, <3>2, StampedInts DEF Unwanted
  <2>3. Unwanted(m, r)
    <3>1. wanted'[r] = wanted[r]
      BY <1>5, <2>2 DEF HandInstall, TypeOK
    <3>2. QED
      BY <2>1, <3>1 DEF Unwanted
  <2>4. \A k \in Machines : brew'[k][r] = brew[k][r]
    BY <2>1, <2>2, BrewInstalled
  <2>5. QED
    BY <1>4, <2>3, <2>4
<1>6. CASE HandRemove(n, p)
  <2>1. BrewDrops(n, p) /\ RemovalIsSeen(n, p) /\ wanted' = wanted /\ brew[n][p].state # "none"
    BY <1>6 DEF HandRemove
  <2>2. \A k \in Machines : \/ brew'[k][r] = brew[k][r] /\ ~ (k = n /\ r = p)
                            \/ k = n /\ r = p /\ brew'[k][r].state = "none"
    BY <2>1, BrewUninstalled
  <2>3. CASE m = n /\ r = p /\ Has(clone[m][m], r)
    BY <1>1, <1>2, <2>2, <2>3 DEF Decided, Has
  <2>4. CASE removed'[m][r] = removed[m][r]
    <3>1. Unwanted(m, r)
      BY <2>1, <2>4 DEF Unwanted
    <3>2. brew[m][r].state = "none"
      BY <3>1 DEF AllLeft, LeftAlone
    <3>3. QED
      BY <1>4, <2>1, <2>2, <3>1, <3>2
  <2>5. QED
    BY <2>1, <2>3, <2>4, RemovedThen
<1>7. CASE HandDemote(n, p)
  <2>1. BrewDemotes(n, p) /\ UNCHANGED <<removed, wanted>> /\ brew[n][p].state = "asked"
    BY <1>7 DEF HandDemote
  <2>2. \A k \in Machines : \/ brew'[k][r] = brew[k][r] /\ ~ (k = n /\ r = p)
                            \/ k = n /\ r = p /\ brew'[k][r].state = "dep"
    BY <2>1, BrewDemoted
  <2>3. Unwanted(m, r)
    BY <2>1 DEF Unwanted
  <2>4. brew[m][r].state = "none"
    BY <2>3 DEF AllLeft, LeftAlone
  <2>5. QED
    BY <1>4, <2>1, <2>2, <2>3, <2>4
<1>8. QED
  BY <1>5, <1>6, <1>7 DEF Hand

(* What the running machine's step leaves of the others.                    *)
LEMMA TurnParts ==
  ASSUME TypeOK, TurnInv, NEW n \in Machines, Turn(n), NEW k \in Machines, k # n
  PROVE  /\ pc[k] = "idle" /\ todo[k] = {} /\ todo'[k] = {} /\ ~Pending(k)
         /\ brew'[k] = brew[k] /\ removed'[k] = removed[k] /\ clone'[k] = clone[k]
         /\ unpushed'[k] = unpushed[k] /\ wanted' = wanted
<1>1. pc[k] = "idle" /\ Untouched(k) /\ wanted' = wanted
  BY DEF Turn
<1>2. todo[k] = {}
  BY <1>1 DEF TurnInv, InTurn
<1>3. QED
  BY <1>1, <1>2 DEF Untouched, Pending

(* A file a command derives keeps what was decided about a package that is  *)
(* gone from brew.                                                          *)
LEMMA DerivedKeeps ==
  ASSUME TypeOK, OneVerdictEach, NEW n \in Machines, NEW inv, Derived(n, inv), NEW r \in Refs,
         brew[n][r].state = "none"
  PROVE  /\ r \in clone[n][n].opt => r \in inv.opt
         /\ Has(clone[n][n], r) => inv.ret[r] = now \/ r \in inv.opt
         /\ ~Has(clone[n][n], r) => inv.ret[r] = clone[n][n].ret[r] \/ r \in inv.opt
<1>1. Fresh(n) \in Inventories
  BY SnapshotType DEF Fresh, TypeOK
<1>2. /\ r \in clone[n][n].opt => r \in Fresh(n).opt
      /\ Has(clone[n][n], r) => Fresh(n).ret[r] = now
      /\ ~Has(clone[n][n], r) => Fresh(n).ret[r] = clone[n][n].ret[r]
  <2>1. Has(clone[n][n], r) => clone[n][n].ret[r] = None
    BY DEF OneVerdictEach, OneVerdict
  <2>2. Fresh(n).ret[r] = RetiredStamp(brew[n], clone[n][n], now, r)
    BY DEF Fresh, Snapshot
  <2>3. r \in clone[n][n].opt => r \in Fresh(n).opt
    BY DEF Fresh, Snapshot
  <2>4. QED
    BY <2>1, <2>2, <2>3 DEF RetiredStamp, Retire, BrewHas
<1>3. ASSUME NEW o PROVE /\ Acknowledged(Fresh(n), o).ret = Fresh(n).ret
                         /\ Acknowledged(Fresh(n), o).opt = Fresh(n).opt
  BY <1>1 DEF Acknowledged, Inventories
<1>4. ASSUME NEW q \in Refs
      PROVE  /\ Fresh(n).opt \subseteq OptedOut(Fresh(n), q).opt
             /\ OptedOut(Fresh(n), q).ret[r] = Fresh(n).ret[r] \/ r \in OptedOut(Fresh(n), q).opt
  BY <1>1 DEF OptedOut, Inventories
<1>5. \/ inv.ret = Fresh(n).ret /\ inv.opt = Fresh(n).opt
      \/ /\ Fresh(n).opt \subseteq inv.opt
         /\ inv.ret[r] = Fresh(n).ret[r] \/ r \in inv.opt
  BY <1>3, <1>4 DEF Derived
<1>6. QED
  BY <1>2, <1>5

(* A commit.                                                                *)
LEMMA RecordsLeave ==
  ASSUME TypeOK, TurnInv, OneVerdictEach, AllLeft, NEW n \in Machines, Turn(n), Records(n),
         NEW m \in Machines, NEW r \in Refs
  PROVE  LeftAlone(m, r)'
<1> SUFFICES ASSUME Unwanted(m, r)'
             PROVE  /\ brew'[m][r].state = "none" /\ r \notin todo'[m]
                    /\ Diverged(m)' \/ Decided(m, r)'
  BY DEF LeftAlone
<1>1. /\ UNCHANGED <<remote, brew, removed, todo, wanted>> /\ todo[n] = {}
      /\ ~Diverged(n) /\ \A k \in Machines \ {n} : behind'[k] = behind[k]
  BY DEF Records, Turn, OthersBehind
<1>2. /\ brew[m][r].state = "none" /\ r \notin todo[m]
      /\ Diverged(m) \/ Decided(m, r)
  BY <1>1 DEF AllLeft, LeftAlone, Unwanted
<1>3. PICK inv : Derived(n, inv) /\ clone'[n][n] = inv
  BY DEF Records
<1>4. clone'[n][n].inst[r] = Wished(n)[r]
  BY <1>3, DerivedInst
<1>5. \A k \in Machines \ {n} : /\ todo[k] = {} /\ ~Pending(k) /\ clone'[k] = clone[k]
                                /\ unpushed'[k] = unpushed[k]
  BY TurnParts
<1>6. \A k \in Machines \ {n} : Diverged(k) => Diverged(k)'
  BY <1>1, <1>5 DEF Diverged
<1>7. \A k \in Machines : r \notin todo'[k]
  BY <1>1, <1>5
<1>8. ASSUME NEW s, s \in Int, Stands(m, r, s) PROVE Stands(m, r, s)'
  <2>1. ASSUME NEW k \in Machines, AskedSince(k, r, s)'
        PROVE  clone'[k][k].inst[r] = brew'[k][r].at \/ Pending(k)'
    <3>1. AskedSince(k, r, s) /\ brew'[k][r].at = brew[k][r].at
      BY <1>1, <2>1 DEF AskedSince
    <3>2. CASE k = n
      BY <1>4, <3>1, <3>2 DEF AskedSince, Wished
    <3>3. CASE k # n
      BY <1>5, <1>8, <3>1, <3>3 DEF Stands
    <3>4. QED
      BY <3>2, <3>3
  <2>2. ASSUME remote'[m].ret[r] = s, NEW k \in Machines PROVE Respects(k, r, s)'
    <3>1. Respects(k, r, s)
      BY <1>1, <1>8, <2>2 DEF Stands
    <3>2. AskedSince(k, r, s)' <=> AskedSince(k, r, s)
      BY <1>1 DEF AskedSince
    <3>3. CASE k = n
      <4>1. ~AskedSince(n, r, s)
        BY <1>1, <3>1, <3>3 DEF Respects
      <4>2. Wished(n)[r] <= s
        <5>1. brew[n][r].at \in Int /\ None <= s
          <6>1. remote[n].inst[r] \in Stamps /\ remote[n].inst[r] <= s
            BY <1>8 DEF Stands, TypeOK, Inventories
          <6>2. QED
            BY <1>8, <6>1, StampedInts, PlanAssumption
               DEF PlanAssumption, Stamps, Times, None
        <5>2. QED
          BY <1>8, <4>1, <5>1 DEF AskedSince, Wished
      <4>3. QED
        BY <1>4, <1>7, <3>2, <3>3, <4>1, <4>2 DEF Respects
    <3>4. CASE k # n
      BY <1>5, <1>6, <1>7, <3>1, <3>2, <3>4 DEF Respects
    <3>5. QED
      BY <3>3, <3>4
  <2>3. QED
    BY <1>1, <1>8, <2>1, <2>2 DEF Stands
<1>9. CASE m # n
  <2>1. \A s : s = clone[m][m].ret[r] => s \in Int
    BY StampedInts
  <2>2. QED
    BY <1>1, <1>2, <1>5, <1>6, <1>7, <1>8, <1>9, <2>1, StillDecided
<1>10. CASE m = n
  <2>1. Decided(n, r) /\ brew[n][r].state = "none"
    BY <1>1, <1>2, <1>10
  <2>2. CASE r \in inv.opt
    BY <1>1, <1>2, <1>3, <1>10, <2>2 DEF Decided
  <2>3. CASE r \notin inv.opt /\ Has(clone[n][n], r)
    <3>1. inv.ret[r] = now
      BY <1>3, <2>1, <2>3, DerivedKeeps
    <3>2. \A k \in Machines : Dated(k, r)
      BY DEF TurnInv, InTurn
    <3>3. \A k \in Machines : ~AskedSince(k, r, now)' /\ clone'[k][k].inst[r] <= now
      <4> TAKE k \in Machines
      <4>1. brew[k][r].at <= now /\ clone[k][k].inst[r] <= now
        BY <3>2 DEF Dated
      <4>2. Wished(n)[r] = None /\ None <= now
        BY <2>1, StampedInts DEF Wished
      <4>3. PICK t : t = now /\ now' = now
        BY DEF Turn
      <4>4. ~ (brew'[k][r].at > t)
        BY <1>1, <4>1, <4>3, StampedInts
      <4>5. QED
        BY <1>4, <1>5, <4>1, <4>2, <4>3, <4>4 DEF AskedSince
    <3>4. PICK t : t = now /\ now' = now
      BY DEF Turn
    <3>5. Stands(m, r, t)'
      <4>1. t # None /\ \A k \in Machines : remote'[k].inst[r] <= t
        BY <1>1, <3>2, <3>4, NowIsATime DEF Dated
      <4>2. \A k \in Machines : ~AskedSince(k, r, t)' /\ clone'[k][k].inst[r] <= t
        BY <3>3, <3>4 DEF AskedSince
      <4>3. QED
        BY <1>7, <4>1, <4>2 DEF Stands, Respects
    <3>6. t = clone'[m][m].ret[r]
      BY <1>3, <1>10, <3>1, <3>4
    <3>7. QED
      BY <1>1, <1>2, <3>5, <3>6, DecidedBy
  <2>4. CASE r \notin inv.opt /\ ~Has(clone[n][n], r)
    <3>1. inv.ret[r] = clone[n][n].ret[r] /\ r \notin clone[n][n].opt
      BY <1>3, <2>1, <2>4, DerivedKeeps
    <3>2. PICK s : s = clone[n][n].ret[r]
      OBVIOUS
    <3>3. Stands(m, r, s) /\ s \in Int
      BY <1>10, <2>1, <2>4, <3>1, <3>2, StampedInts DEF Decided
    <3>4. Stands(m, r, s)' /\ s = clone'[m][m].ret[r]
      BY <1>3, <1>8, <1>10, <3>1, <3>2, <3>3
    <3>5. QED
      BY <1>1, <1>2, <3>4, DecidedBy
  <2>5. QED
    BY <2>2, <2>3, <2>4
<1>11. QED
  BY <1>9, <1>10

(* A plan, an answer, a push that is refused: nothing is published or       *)
(* changed, and what is planned had not been removed.                       *)
LEMMA MovesLeave ==
  ASSUME TypeOK, TurnInv, OneVerdictEach, AllLeft, NEW n \in Machines, Turn(n), Moves(n),
         NEW m \in Machines, NEW r \in Refs
  PROVE  LeftAlone(m, r)'
<1> SUFFICES ASSUME Unwanted(m, r)'
             PROVE  /\ brew'[m][r].state = "none" /\ r \notin todo'[m]
                    /\ Diverged(m)' \/ Decided(m, r)'
  BY DEF LeftAlone
<1>1. /\ UNCHANGED <<remote, brew, removed, unpushed, wanted>> /\ clone'[n][n] = clone[n][n]
      /\ ~Diverged(n) /\ \A k \in Machines \ {n} : behind'[k] = behind[k]
  BY DEF Moves, Turn, OthersBehind
<1>2. /\ Unwanted(m, r) /\ brew[m][r].state = "none" /\ r \notin todo[m]
      /\ Diverged(m) \/ Decided(m, r)
  BY <1>1 DEF AllLeft, LeftAlone, Unwanted
<1>3. \A k \in Machines \ {n} : todo'[k] = {} /\ ~Pending(k) /\ clone'[k] = clone[k]
  BY TurnParts
<1>4. \A k \in Machines : Diverged(k) => Diverged(k)'
  BY <1>1 DEF Diverged
<1>5. \A k \in Machines : Pending(k) => Pending(k)'
  BY <1>3 DEF Moves, Pending
<1>6. r \notin todo'[m]
  <2>1. CASE m = n
    <3>1. ~Plans(n, r)
      BY <1>1, <1>2, <2>1, OwnPlan DEF AllLeft
    <3>2. QED
      BY <1>2, <2>1, <3>1 DEF Moves
  <2>2. CASE m # n
    BY <1>3, <2>2
  <2>3. QED
    BY <2>1, <2>2
<1>7. ASSUME NEW s, Stands(m, r, s) PROVE Stands(m, r, s)'
  <2>1. \A k \in Machines : AskedSince(k, r, s)' => AskedSince(k, r, s)
    BY <1>1 DEF AskedSince
  <2>2. ASSUME remote[m].ret[r] = s, NEW k \in Machines PROVE r \notin todo'[k]
    <3>1. CASE k = n /\ m # n
      <4>1. ~Plans(n, r)
        BY <1>1, <1>7, <2>2, <3>1, OtherPlan
      <4>2. r \notin todo[n]
        BY <1>7, <2>2 DEF Stands, Respects
      <4>3. QED
        BY <3>1, <4>1, <4>2 DEF Moves
    <3>2. CASE k # n \/ m = n
      BY <1>3, <1>6, <3>2
    <3>3. QED
      BY <3>1, <3>2
  <2>3. \A k \in Machines : clone'[k][k] = clone[k][k]
    BY <1>1, <1>3
  <2>4. QED
    BY <1>1, <1>4, <1>5, <1>7, <2>1, <2>2, <2>3, StandsOn
<1>8. clone'[m][m] = clone[m][m]
  BY <1>1, <1>3
<1>9. QED
  BY <1>1, <1>2, <1>4, <1>6, <1>7, <1>8, StillDecided

(* A push that lands.                                                       *)
LEMMA SendsLeave ==
  ASSUME TypeOK, TurnInv, Fetched, AllLeft, NEW n \in Machines, Turn(n), Sends(n),
         NEW m \in Machines, NEW r \in Refs
  PROVE  LeftAlone(m, r)'
<1> SUFFICES ASSUME Unwanted(m, r)'
             PROVE  /\ brew'[m][r].state = "none" /\ r \notin todo'[m]
                    /\ Diverged(m)' \/ Decided(m, r)'
  BY DEF LeftAlone
<1>1. /\ UNCHANGED <<brew, clone, removed, todo, wanted>> /\ remote' = clone[n]
      /\ ~Diverged(n) /\ pc[n] \in {"push", "repush"}
      /\ \A k \in Machines \ {n} : behind'[k] = "yes" /\ unpushed'[k] = unpushed[k]
  BY TurnParts DEF Sends, Turn
<1>2. /\ Unwanted(m, r) /\ brew[m][r].state = "none" /\ r \notin todo[m]
      /\ Diverged(m) \/ Decided(m, r)
  BY <1>1 DEF AllLeft, LeftAlone, Unwanted
<1>3. \A k \in Machines \ {n} : todo[k] = {} /\ ~Pending(k) /\ remote'[k] = remote[k]
  <2>1. behind[n] = "no"
    BY <1>1 DEF TurnInv, InTurn
  <2>2. \A k \in Machines \ {n} : remote'[k] = remote[k]
    BY <1>1, <2>1 DEF Fetched
  <2>3. QED
    BY <2>2, TurnParts
<1>4. \A k \in Machines \ {n} : Diverged(k) => Diverged(k)'
  BY <1>1 DEF Diverged
<1>5. ~Pending(n) /\ todo[n] = {} /\ clone[n][n].inst[r] = Wished(n)[r]
  BY <1>1 DEF Pending, TurnInv, InTurn, Settling
<1>6. \A k \in Machines \ {n} : unpushed[k] = "no" => clone[k][k] = remote[k]
  BY DEF TurnInv, InTurn
<1>7. \A k \in Machines \ {n} : ~Diverged(k)' => unpushed[k] = "no"
  BY <1>1 DEF Diverged, TypeOK, YesNo
<1>8. ASSUME NEW s, Stands(m, r, s), clone[n][n].inst[r] <= s,
             remote'[m].ret[r] = s => \A k \in Machines : Respects(k, r, s)'
      PROVE  Stands(m, r, s)'
  <2>1. \A k \in Machines : remote'[k].inst[r] <= s
    BY <1>1, <1>3, <1>8 DEF Stands
  <2>2. \A k \in Machines : AskedSince(k, r, s)' =>
                              clone'[k][k].inst[r] = brew'[k][r].at \/ Pending(k)'
    BY <1>1, <1>3, <1>5, <1>8 DEF Stands, AskedSince
  <2>3. QED
    BY <1>8, <2>1, <2>2 DEF Stands
<1>9. CASE m = n
  <2>1. Decided(n, r) /\ Wished(n)[r] = None
    BY <1>1, <1>2, <1>9 DEF Wished
  <2>2. ASSUME NEW s, s \in Int, Stands(n, r, s) PROVE Stands(n, r, s)'
    <3>1. clone[n][n].inst[r] <= s
      <4>1. remote[n].inst[r] \in Stamps /\ remote[n].inst[r] <= s
        BY <2>2 DEF Stands, TypeOK, Inventories
      <4>2. QED
        BY <1>5, <2>1, <2>2, <4>1, PlanAssumption DEF PlanAssumption, Stamps, Times, None
    <3>2. ASSUME NEW k \in Machines PROVE Respects(k, r, s)'
      <4>1. CASE k = n
        BY <1>1, <1>2, <1>5, <1>9, <3>1, <4>1 DEF Respects, AskedSince
      <4>2. CASE k # n /\ ~Diverged(k)'
        <5>1. clone[k][k].inst[r] <= s
          BY <1>6, <1>7, <2>2, <4>2 DEF Stands
        <5>2. ~AskedSince(k, r, s)
          <6>1. AskedSince(k, r, s) => clone[k][k].inst[r] = brew[k][r].at
            BY <1>3, <2>2, <4>2 DEF Stands
          <6>2. QED
            BY <2>2, <5>1, <6>1, StampedInts DEF AskedSince
        <5>3. QED
          BY <1>1, <1>3, <4>2, <5>1, <5>2 DEF Respects, AskedSince
      <4>3. CASE k # n /\ Diverged(k)'
        BY <1>1, <1>3, <4>3 DEF Respects
      <4>4. QED
        BY <4>1, <4>2, <4>3
    <3>3. QED
      BY <1>8, <1>9, <2>2, <3>1, <3>2
  <2>3. clone'[n][n] = clone[n][n] /\ \A s : s = clone[n][n].ret[r] => s \in Int
    BY <1>1, StampedInts
  <2>4. Decided(n, r)'
    BY <2>1, <2>2, <2>3, StillDecided
  <2>5. QED
    BY <1>1, <1>2, <1>9, <2>4
<1>10. CASE m # n /\ ~Diverged(m)'
  <2>1. unpushed[m] = "no" /\ clone[m][m] = remote[m] /\ Decided(m, r)
    BY <1>2, <1>4, <1>6, <1>7, <1>10
  <2>2. ASSUME NEW s, s = clone[m][m].ret[r], Stands(m, r, s) PROVE Stands(m, r, s)'
    <3>1. \A k \in Machines : Respects(k, r, s)
      BY <2>1, <2>2 DEF Stands
    <3>2. clone[n][n].inst[r] <= s
      BY <1>1, <3>1 DEF Respects
    <3>3. ASSUME NEW k \in Machines PROVE Respects(k, r, s)'
      BY <1>1, <1>4, <3>1 DEF Respects, AskedSince
    <3>4. QED
      BY <1>8, <2>2, <3>2, <3>3
  <2>3. clone'[m][m] = clone[m][m]
    BY <1>1
  <2>4. Decided(m, r)'
    BY <2>1, <2>2, <2>3, StillDecided
  <2>5. QED
    BY <1>1, <1>2, <2>4
<1>11. QED
  BY <1>1, <1>2, <1>9, <1>10

(* An install by a command, and a removal.                                  *)
LEMMA ChangesLeave ==
  ASSUME TypeOK, TurnInv, AllLeft, NEW n \in Machines, Turn(n), Gets(n) \/ Drops(n),
         NEW m \in Machines, NEW r \in Refs
  PROVE  LeftAlone(m, r)'
<1> SUFFICES ASSUME Unwanted(m, r)'
             PROVE  /\ brew'[m][r].state = "none" /\ r \notin todo'[m]
                    /\ Diverged(m)' \/ Decided(m, r)'
  BY DEF LeftAlone
<1>1. /\ UNCHANGED <<remote, clone, unpushed, behind, pc, wanted>>
      /\ ~Diverged(n) /\ pc[n] = "work" /\ changed'[n] = "yes"
  BY DEF Gets, Drops, Turn, gitVars
<1>2. \A k \in Machines \ {n} : todo[k] = {} /\ todo'[k] = {} /\ ~Pending(k)
                                /\ brew'[k] = brew[k]
  BY TurnParts
<1>3. \A k \in Machines : (Pending(k) => Pending(k)') /\ (Diverged(k) => Diverged(k)')
  BY <1>1, <1>2 DEF Pending, Diverged
<1>4. Pending(n)'
  BY <1>1 DEF Pending
<1>5. CASE Gets(n)
  <2>1. PICK p \in todo[n] : BrewGets(n, p) /\ todo' = [todo EXCEPT ![n] = @ \ {p}]
    BY <1>5 DEF Gets
  <2>2. p \in Refs /\ \A k \in Machines : todo'[k] \subseteq todo[k]
    BY <2>1 DEF TypeOK
  <2>3. Unwanted(m, r)
    BY <1>1, <1>5 DEF Gets, Unwanted
  <2>4. /\ brew[m][r].state = "none" /\ r \notin todo[m]
        /\ Diverged(m) \/ Decided(m, r)
    BY <2>3 DEF AllLeft, LeftAlone
  <2>5. \A k \in Machines : \/ brew'[k][r] = brew[k][r] /\ ~ (k = n /\ r = p)
                            \/ k = n /\ r = p
    BY <2>1, <2>2, BrewInstalled
  <2>6. ~ (m = n /\ r = p)
    BY <2>1, <2>4
  <2>7. ASSUME NEW s, Stands(m, r, s) PROVE Stands(m, r, s)'
    <3>1. CASE r # p
      <4>1. \A k \in Machines : AskedSince(k, r, s)' =>
               AskedSince(k, r, s) /\ brew'[k][r].at = brew[k][r].at
        BY <2>5, <3>1 DEF AskedSince
      <4>2. remote[m].ret[r] = s => \A k \in Machines : r \notin todo'[k]
        BY <2>2, <2>7 DEF Stands, Respects
      <4>3. QED
        BY <1>1, <1>3, <2>7, <4>1, <4>2, StandsOn
    <3>2. CASE r = p
      <4>1. remote'[m].ret[r] # s
        BY <1>1, <2>1, <2>7, <3>2 DEF Stands, Respects
      <4>2. ASSUME NEW k \in Machines, AskedSince(k, r, s)'
            PROVE  clone'[k][k].inst[r] = brew'[k][r].at \/ Pending(k)'
        <5>1. CASE k = n
          BY <1>4, <5>1
        <5>2. CASE k # n
          BY <1>1, <1>2, <2>7, <4>2, <5>2 DEF Stands, AskedSince
        <5>3. QED
          BY <5>1, <5>2
      <4>3. QED
        BY <1>1, <2>7, <4>1, <4>2 DEF Stands
    <3>3. QED
      BY <3>1, <3>2
  <2>8. QED
    BY <1>1, <1>3, <2>2, <2>4, <2>5, <2>6, <2>7, StillDecided
<1>6. CASE Drops(n)
  <2>1. PICK p \in Refs : BrewDrops(n, p) /\ RemovalIsSeen(n, p)
    BY <1>6 DEF Drops
  <2>2. todo' = todo /\ todo[n] = {}
    BY <1>6 DEF Drops
  <2>3. \A k \in Machines : \/ brew'[k][r] = brew[k][r] /\ ~ (k = n /\ r = p)
                            \/ k = n /\ r = p /\ brew'[k][r].state = "none"
    BY <2>1, BrewUninstalled
  <2>4. CASE m = n /\ r = p /\ Has(clone[m][m], r)
    BY <1>1, <2>2, <2>3, <2>4 DEF Decided, Has
  <2>5. CASE removed'[m][r] = removed[m][r]
    <3>1. Unwanted(m, r)
      BY <1>1, <2>5 DEF Unwanted
    <3>2. /\ brew[m][r].state = "none" /\ r \notin todo[m]
          /\ Diverged(m) \/ Decided(m, r)
      BY <3>1 DEF AllLeft, LeftAlone
    <3>3. ASSUME NEW s, Stands(m, r, s) PROVE Stands(m, r, s)'
      <4>1. \A k \in Machines : AskedSince(k, r, s)' =>
               AskedSince(k, r, s) /\ brew'[k][r].at = brew[k][r].at
        BY <2>3 DEF AskedSince
      <4>2. \A k \in Machines : r \notin todo'[k]
        BY <1>2, <2>2
      <4>3. QED
        BY <1>1, <1>3, <3>3, <4>1, <4>2, StandsOn
    <3>4. QED
      BY <1>1, <1>3, <2>2, <2>3, <3>2, <3>3, StillDecided
  <2>6. QED
    BY <2>1, <2>4, <2>5, RemovedThen
<1>7. QED
  BY <1>5, <1>6

(* Every step leaves alone what was removed on each machine.                *)
LEMMA AllLeftStep ==
  ASSUME TypeOK, TurnInv, Fetched, OneVerdictEach, AllLeft, Orderly, [Next]_vars
  PROVE  AllLeft'
<1> SUFFICES ASSUME NEW m \in Machines, NEW r \in Refs PROVE LeftAlone(m, r)'
  BY DEF AllLeft
<1>1. ASSUME NEW n \in Machines, Turn(n), Kind(n) PROVE LeftAlone(m, r)'
  BY <1>1, RecordsLeave, MovesLeave, SendsLeave, ChangesLeave DEF Kind
<1>2. QED
  BY <1>1, TickLeaves, HandLeaves, TurnStep

(* What a step plans to install on a machine, nobody has removed there      *)
(* since it was last asked for.                                             *)
LEMMA PlanRespects ==
  ASSUME TypeOK, TurnInv, Fetched, OneVerdictEach, AllLeft, Orderly, [Next]_vars,
         NEW m \in Machines, NEW r \in todo'[m] \ todo[m]
  PROVE  removed[m][r] <= wanted[r]
<1>1. r \in Refs
  BY TypeStep DEF TypeOK
<1>2. PICK n \in Machines : Turn(n) /\ Kind(n)
  BY TurnStep DEF Ticks, Hand
<1>3. n = m
  BY <1>2, TurnParts
<1>4. Moves(n)
  BY <1>2, <1>3 DEF Kind, Records, Sends, Gets, Drops, TypeOK
<1>5. Plans(n, r) /\ ~Diverged(n)
  BY <1>2, <1>3, <1>4 DEF Moves, Turn
<1>6. ~Unwanted(m, r)
  BY <1>1, <1>3, <1>5, OwnPlan DEF AllLeft
<1>7. QED
  BY <1>1, <1>6, StampedInts DEF Unwanted

(* A removal is not undone by itself: no sync or apply plans to install on  *)
(* a machine what its person removed after the last time anybody asked for  *)
(* it, for any number of machines and packages, whatever fails and however  *)
(* often a push is refused.  It is so while one command runs at a time,     *)
(* people leave brew alone meanwhile, and nothing is upgraded.              *)
THEOREM RemovalIsRespected ==
  ASSUME TakeTurns, MaxRunning = 1, ~Upgrades
  PROVE  Spec => NoSilentReinstall
<1> DEFINE I == TypeOK /\ TurnInv /\ Fetched /\ OneVerdictEach /\ AllLeft
<1>1. Orderly
  BY DEF Orderly
<1>2. Init => I
  <2> SUFFICES ASSUME Init PROVE I
    OBVIOUS
  <2>1. TypeOK
    BY TypeInit
  <2>2. \A m \in Machines : OneVerdict(remote[m]) /\ clone[m] = remote
    BY DEF Init, OneVerdict, Has
  <2>3. Fetched /\ OneVerdictEach
    BY <2>2 DEF Fetched, OneVerdictEach
  <2>4. \A m \in Machines, r \in Refs : /\ remote[m].inst[r] \in {0, None}
                                        /\ brew[m][r].at = 0 /\ removed[m][r] = None
                                        /\ wanted[r] \in {0, None}
    BY DEF Init
  <2>5. now = 0 /\ \A m \in Machines : pc[m] = "idle" /\ todo[m] = {}
    BY DEF Init
  <2>6. \A m \in Machines, r \in Refs : Dated(m, r)
    BY <2>2, <2>4, <2>5 DEF Dated, None
  <2>7. TurnInv
    BY <2>2, <2>5, <2>6 DEF TurnInv, Alone, InTurn, Settling
  <2>8. AllLeft
    <3>1. \A m \in Machines, r \in Refs : ~Unwanted(m, r)
      BY <2>4 DEF Unwanted, None
    <3>2. QED
      BY <3>1 DEF AllLeft, LeftAlone
  <2>9. QED
    BY <2>1, <2>3, <2>7, <2>8
<1>3. I /\ [Next]_vars => I'
  BY <1>1, TypeStep, TurnInvStep, FetchedStep, VerdictStep, AllLeftStep
<1>4. I /\ [Next]_vars =>
        [\A m \in Machines : \A r \in todo'[m] \ todo[m] : removed[m][r] <= wanted[r]]_vars
  BY <1>1, PlanRespects
<1>5. QED
  BY <1>2, <1>3, <1>4, PTL DEF Spec, NoSilentReinstall
=============================================================================
