------------------------------ MODULE BrewSync ------------------------------
(***************************************************************************)
(* internal/brewrig/commands: several machines publish their inventories   *)
(* to one shared git repository and bring themselves up to the union.      *)
(*                                                                         *)
(* Each machine runs one command at a time (StoreWrite is about two on one *)
(* machine).  A git command, a brew command and an answer are one step     *)
(* each.  Pull, snapshot, Write and Commit of one command are one step     *)
(* together: they only touch this machine's clone, and what another        *)
(* machine pushes meanwhile is met by the push.                            *)
(***************************************************************************)
EXTENDS BrewPlan

CONSTANTS MaxDeeds,   \* bound: what people do to their Homebrew by hand
          MaxFaults,  \* bound: brew and network failures
          MaxRunning, \* how many machines may have a command under way at once
          Upgrades,   \* whether `brewrig update` is ever run
          TakeTurns   \* whether people leave brew alone while a command runs

ASSUME SyncAssumption == /\ MaxDeeds \in Nat /\ MaxFaults \in Nat
                         /\ MaxRunning \in Nat /\ Upgrades \in BOOLEAN /\ TakeTurns \in BOOLEAN

VARIABLES now,        \* the clock
          brew,       \* what Homebrew has on each machine
          remote,     \* the shared repository: machine -> inventory
          clone,      \* each machine's clone of it (committed contents)
          unpushed,   \* "yes": the clone has commits the remote lacks
          behind,     \* "yes": the remote has commits the clone lacks
          pc,         \* where each machine's command is
          next,       \* where it goes on once it has published
          apply,      \* whether its sync installs (--apply or auto-apply)
          began,      \* the time its sync began: the plan at its end uses it
          todo,       \* packages still to be installed
          offers,     \* removals still to be asked about
          agreed,     \* removals a person said yes to
          changed,    \* whether it has changed Homebrew
          removed,    \* history: when a person last removed here what was published
          wanted,     \* history: when a person last installed it anywhere
          kept,       \* history: packages kept in answer to their last removal
          deeds, faults  \* how often the bounded actions have happened

gitVars  == <<remote, clone, unpushed, behind>>
runVars  == <<next, apply, began>>
workVars == <<todo, offers, agreed, changed>>
histVars == <<removed, wanted, kept>>
vars == <<now, brew, gitVars, pc, runVars, workVars, histVars, deeds, faults>>

YesNo == {"yes", "no"}

TypeOK ==
    /\ now \in Times
    /\ brew \in [Machines -> Brews]
    /\ remote \in [Machines -> Inventories]
    /\ clone \in [Machines -> [Machines -> Inventories]]
    /\ unpushed \in [Machines -> YesNo]
    /\ behind \in [Machines -> YesNo]
    /\ pc \in [Machines -> {"idle", "push", "reconcile", "repush", "plan", "work"}]
    /\ next \in [Machines -> {"idle", "plan", "work"}]
    /\ apply \in [Machines -> YesNo]
    /\ began \in [Machines -> Times]
    /\ todo \in [Machines -> SUBSET Refs]
    /\ offers \in [Machines -> SUBSET Offers]
    /\ agreed \in [Machines -> SUBSET Refs]
    /\ changed \in [Machines -> YesNo]
    /\ removed \in [Machines -> [Refs -> Stamps]]
    /\ wanted \in [Refs -> Stamps]
    /\ kept \in [Machines -> SUBSET Refs]
    /\ deeds \in Nat /\ faults \in Nat

(* Every machine has run `brewrig init`: it has published what it has and   *)
(* seen the others.                                                         *)
Init ==
    /\ now = 0
    /\ \E have \in SUBSET (Machines \X Refs) :
         /\ brew = [m \in Machines |-> [r \in Refs |->
                      [state |-> IF <<m, r>> \in have THEN "asked" ELSE "none", at |-> 0]]]
         /\ wanted = [r \in Refs |-> IF \E m \in Machines : <<m, r>> \in have
                                     THEN 0 ELSE None]
    /\ remote = [m \in Machines |-> [inst |-> [r \in Refs |->
                      IF brew[m][r].state = "asked" THEN 0 ELSE None],
                    ret |-> [r \in Refs |-> None], ack |-> [r \in Refs |-> None],
                    opt |-> {}]]
    /\ clone = [m \in Machines |-> remote]
    /\ unpushed = [m \in Machines |-> "no"]
    /\ behind = [m \in Machines |-> "no"]
    /\ pc = [m \in Machines |-> "idle"]
    /\ next = [m \in Machines |-> "idle"]
    /\ apply = [m \in Machines |-> "no"]
    /\ began = [m \in Machines |-> 0]
    /\ todo = [m \in Machines |-> {}]
    /\ offers = [m \in Machines |-> {}]
    /\ agreed = [m \in Machines |-> {}]
    /\ changed = [m \in Machines |-> "no"]
    /\ removed = [m \in Machines |-> [r \in Refs |-> None]]
    /\ kept = [m \in Machines |-> {}]
    /\ deeds = 0 /\ faults = 0

-----------------------------------------------------------------------------
(* The environment: time, and people using brew directly.                   *)
Tick ==
    /\ now < MaxTime
    /\ now' = now + 1
    /\ UNCHANGED <<brew, gitVars, pc, runVars, workVars, histVars, deeds, faults>>

Running == {m \in Machines : pc[m] # "idle"}

Deed == deeds < MaxDeeds /\ deeds' = deeds + 1
ByHand == Deed /\ (TakeTurns => Running = {})
Fault == faults < MaxFaults /\ faults' = faults + 1

(* `brew install` of a package that is there as a dependency only records   *)
(* that it is wanted; its install time stays.                               *)
Installed(b, r) ==
    [b EXCEPT ![r] = [state |-> "asked", at |-> IF b[r].state = "none" THEN now ELSE b[r].at]]
Uninstalled(b, r) == [b EXCEPT ![r] = [state |-> "none", at |-> 0]]

(* A person's removal of something this machine had published is a decision *)
(* brewrig can see, and a new one for every machine that kept the package:  *)
(* engine.Apply's "it won't be offered again" is about the removals there   *)
(* were, and a newer retirement is a separate decision (plan.Build).        *)
Published(m, r) == Has(clone[m][m], r)
RemovalIsSeen(m, r) ==
    /\ removed' = IF Published(m, r) THEN [removed EXCEPT ![m][r] = now] ELSE removed
    /\ kept' = [k \in Machines |->
                   IF k = m \/ Published(m, r) THEN kept[k] \ {r} ELSE kept[k]]

BrewInstall(m, r) ==
    /\ ByHand
    /\ brew[m][r].state # "asked"
    /\ brew' = [brew EXCEPT ![m] = Installed(@, r)]
    /\ wanted' = [wanted EXCEPT ![r] = now]
    /\ kept' = [kept EXCEPT ![m] = @ \ {r}]
    /\ UNCHANGED <<now, gitVars, pc, runVars, workVars, removed, faults>>

BrewUninstall(m, r) ==
    /\ ByHand
    /\ brew[m][r].state # "none"
    /\ brew' = [brew EXCEPT ![m] = Uninstalled(@, r)]
    /\ RemovalIsSeen(m, r)
    /\ UNCHANGED <<now, gitVars, pc, runVars, workVars, wanted, faults>>

(* Something else starts depending on it: no longer installed_on_request.   *)
BecomesDependency(m, r) ==
    /\ ByHand
    /\ brew[m][r].state = "asked"
    /\ brew' = [brew EXCEPT ![m][r].state = "dep"]
    /\ UNCHANGED <<now, gitVars, pc, runVars, workVars, histVars, faults>>

-----------------------------------------------------------------------------
(* Pull is ff-only: it fails on a clone that has diverged, and the command  *)
(* ends before it has done anything.  Otherwise the other machines' files   *)
(* become the remote's.                                                     *)
Diverged(m) == unpushed[m] = "yes" /\ behind[m] = "yes"
Pulled(m) == [k \in Machines |-> IF k = m THEN clone[m][m] ELSE remote[k]]

Open(m) ==
    /\ pc[m] = "idle"
    /\ Cardinality(Running) < MaxRunning
    /\ ~Diverged(m)
    /\ behind' = [behind EXCEPT ![m] = "no"]

(* Write and the commit of Publish: `files` with this machine's file        *)
(* replaced.  An unchanged file makes no commit, and without one Publish    *)
(* returns before it pushes.                                                *)
CommitAs(m, files, inv, after) ==
    /\ clone' = [clone EXCEPT ![m] = [files EXCEPT ![m] = inv]]
    /\ IF inv = files[m]
       THEN /\ pc' = [pc EXCEPT ![m] = after]
            /\ UNCHANGED unpushed
       ELSE /\ pc' = [pc EXCEPT ![m] = "push"]
            /\ unpushed' = [unpushed EXCEPT ![m] = "yes"]
    /\ next' = [next EXCEPT ![m] = after]

(* brewrig sync [--apply] *)
Sync(m) ==
    /\ Open(m)
    /\ CommitAs(m, Pulled(m), Snapshot(brew[m], clone[m][m], now), "plan")
    /\ \E a \in YesNo : apply' = [apply EXCEPT ![m] = a]
    /\ began' = [began EXCEPT ![m] = now]
    /\ UNCHANGED <<now, brew, remote, workVars, histVars, deeds, faults>>

(* planNow: this machine's fresh snapshot, not saved, stands in for its     *)
(* published file.                                                          *)
View(m, files, t) == [files EXCEPT ![m] = Snapshot(brew[m], files[m], t)]

(* The end of a sync.  It never asks about removals.                        *)
PlanSync(m) ==
    /\ pc[m] = "plan"
    /\ LET todoNow == IF apply[m] = "yes" THEN Installs(m, View(m, clone[m], began[m])) ELSE {}
       IN /\ todo' = [todo EXCEPT ![m] = todoNow]
          /\ pc' = [pc EXCEPT ![m] = IF todoNow = {} THEN "idle" ELSE "work"]
    /\ apply' = [apply EXCEPT ![m] = "no"]
    /\ began' = [began EXCEPT ![m] = 0]
    /\ UNCHANGED <<now, brew, gitVars, next, offers, agreed, changed, histVars,
                   deeds, faults>>

(* brewrig apply.  On a terminal the person may refuse the installs; away   *)
(* from one nobody is asked about removals.                                 *)
Apply(m, install, ask) ==
    /\ Open(m)
    /\ clone' = [clone EXCEPT ![m] = Pulled(m)]
    /\ LET view == View(m, Pulled(m), now) IN
         /\ todo' = [todo EXCEPT ![m] = IF install THEN Installs(m, view) ELSE {}]
         /\ offers' = [offers EXCEPT ![m] = IF ask THEN Removals(m, view) ELSE {}]
    /\ pc' = [pc EXCEPT ![m] = IF todo'[m] = {} /\ offers'[m] = {} THEN "idle" ELSE "work"]
    /\ UNCHANGED <<now, brew, remote, unpushed, runVars, agreed, changed, histVars,
                   deeds, faults>>

(* engine.Apply: one package at a time, a failure does not stop the rest.   *)
InstallOne(m, r) ==
    /\ pc[m] = "work"
    /\ r \in todo[m]
    /\ todo' = [todo EXCEPT ![m] = @ \ {r}]
    /\ \/ /\ brew' = [brew EXCEPT ![m] = Installed(@, r)]
          /\ changed' = [changed EXCEPT ![m] = "yes"]
          /\ UNCHANGED faults
       \/ /\ Fault
          /\ UNCHANGED <<brew, changed>>
    /\ UNCHANGED <<now, gitVars, pc, runVars, offers, agreed, histVars, deeds>>

(* confirmRemovals.  A "keep" is acknowledged at once, which publishes.     *)
Agree(m, o) ==
    /\ pc[m] = "work" /\ todo[m] = {}
    /\ o \in offers[m]
    /\ offers' = [offers EXCEPT ![m] = @ \ {o}]
    /\ agreed' = [agreed EXCEPT ![m] = @ \cup {o.ref}]
    /\ UNCHANGED <<now, brew, gitVars, pc, runVars, todo, changed, histVars, deeds, faults>>

Acknowledged(inv, o) == [inv EXCEPT !.ack[o.ref] = o.at]

(* History: the answer is about the last removal there is when no copy of a *)
(* published file holds a later retirement, and no machine has a removal    *)
(* that it has yet to publish.                                              *)
Unpublished(r) == \E k \in Machines : Published(k, r) /\ ~BrewHas(brew[k], r)
NoneLater(r, at) ==
    \A k \in Machines : remote[k].ret[r] <= at /\ \A j \in Machines : clone[j][k].ret[r] <= at
Settled(m, o) == BrewHas(brew[m], o.ref) /\ ~Unpublished(o.ref) /\ NoneLater(o.ref, o.at)

Keep(m, o) ==
    /\ pc[m] = "work" /\ todo[m] = {}
    /\ o \in offers[m]
    /\ offers' = [offers EXCEPT ![m] = @ \ {o}]
    /\ LET inv == Snapshot(brew[m], clone[m][m], now) IN
       IF Declined(inv, o.ref, o.at)
       THEN UNCHANGED <<clone, unpushed, pc, next>>
       ELSE CommitAs(m, clone[m], Acknowledged(inv, o), "work")
    /\ kept' = [kept EXCEPT ![m] = IF Settled(m, o) THEN @ \cup {o.ref} ELSE @]
    /\ UNCHANGED <<now, brew, remote, behind, apply, began, todo, agreed, changed,
                   removed, wanted, deeds, faults>>

(* Escaping out of the prompts stops the asking.                            *)
Escape(m) ==
    /\ Deed
    /\ pc[m] = "work" /\ todo[m] = {} /\ offers[m] # {}
    /\ offers' = [offers EXCEPT ![m] = {}]
    /\ UNCHANGED <<now, brew, gitVars, pc, runVars, todo, agreed, changed, histVars, faults>>

(* engine.ApplyRemovals, once every question is answered.                   *)
Asked(m) == pc[m] = "work" /\ todo[m] = {} /\ offers[m] = {}

RemoveOne(m, r) ==
    /\ Asked(m)
    /\ r \in agreed[m]
    /\ agreed' = [agreed EXCEPT ![m] = @ \ {r}]
    /\ \/ /\ brew[m][r].state = "asked"
          /\ brew' = [brew EXCEPT ![m] = Uninstalled(@, r)]
          /\ changed' = [changed EXCEPT ![m] = "yes"]
          /\ RemovalIsSeen(m, r)
          /\ UNCHANGED faults
       \/ /\ brew[m][r].state # "asked"
          /\ UNCHANGED <<brew, changed, removed, kept, faults>>
       \/ /\ Fault
          /\ UNCHANGED <<brew, changed, removed, kept>>
    /\ UNCHANGED <<now, gitVars, pc, runVars, todo, offers, wanted, deeds>>

(* finishMutation and republish: if Homebrew changed, publish before        *)
(* returning.                                                               *)
Finish(m) ==
    /\ Asked(m) /\ agreed[m] = {}
    /\ IF changed[m] = "yes"
       THEN CommitAs(m, clone[m], Snapshot(brew[m], clone[m][m], now), "idle")
       ELSE /\ pc' = [pc EXCEPT ![m] = "idle"]
            /\ UNCHANGED <<clone, unpushed, next>>
    /\ changed' = [changed EXCEPT ![m] = "no"]
    /\ UNCHANGED <<now, brew, remote, behind, apply, began, todo, offers, agreed,
                   histVars, deeds, faults>>

SkipKeepsRetirement(inv, r) ==   \* mutant: the opt-out leaves the retirement published
    [inv EXCEPT !.opt = @ \cup {r}]

(* optOut: this machine declines the package; an earlier retirement would   *)
(* say the opposite.                                                        *)
OptedOut(inv, r) == [inv EXCEPT !.opt = @ \cup {r}, !.ret[r] = None]

(* brewrig skip: refused for a package installed here.                      *)
Skip(m, r) ==
    /\ Deed
    /\ Open(m)
    /\ LET inv == Snapshot(brew[m], clone[m][m], now) IN
       IF Has(inv, r) \/ r \in inv.opt
       THEN /\ clone' = [clone EXCEPT ![m] = Pulled(m)]
            /\ UNCHANGED <<pc, unpushed, next>>
       ELSE CommitAs(m, Pulled(m), OptedOut(inv, r), "idle")
    /\ UNCHANGED <<now, brew, remote, apply, began, workVars, histVars, faults>>

(* brewrig update: brew rewrites the install time of what it upgrades, then *)
(* the command republishes whether or not anything was outdated.            *)
Update(m) ==
    /\ Upgrades
    /\ Deed
    /\ Open(m)
    /\ clone' = [clone EXCEPT ![m] = Pulled(m)]
    /\ \E outdated \in SUBSET {r \in Refs : BrewHas(brew[m], r)} :
         brew' = [brew EXCEPT ![m] = [r \in Refs |->
                    IF r \in outdated THEN [@[r] EXCEPT !.at = now] ELSE @[r]]]
    /\ changed' = [changed EXCEPT ![m] = "yes"]
    /\ pc' = [pc EXCEPT ![m] = "work"]
    /\ UNCHANGED <<now, remote, unpushed, runVars, todo, offers, agreed, histVars, faults>>

-----------------------------------------------------------------------------
LandsByForce(m) ==   \* mutant: push --force
    /\ remote' = clone[m]
    /\ unpushed' = [unpushed EXCEPT ![m] = "no"]
    /\ behind' = [k \in Machines |-> IF k = m THEN "no" ELSE "yes"]
    /\ pc' = [pc EXCEPT ![m] = next[m]]
    /\ UNCHANGED faults

(* The rest of Publish.  A push lands when the remote has nothing the clone *)
(* lacks; the first one that does not is reconciled and retried, the second *)
(* ends the command.                                                        *)
Lands(m) ==
    /\ behind[m] = "no"
    /\ remote' = clone[m]
    /\ unpushed' = [unpushed EXCEPT ![m] = "no"]
    /\ behind' = [k \in Machines |-> IF k = m THEN "no" ELSE "yes"]
    /\ pc' = [pc EXCEPT ![m] = next[m]]
    /\ UNCHANGED faults

Refused(m) == UNCHANGED <<remote, unpushed, behind>> /\ \/ behind[m] = "yes" /\ UNCHANGED faults
                                                        \/ Fault

(* The command ends: what it still had to do is forgotten.                  *)
Abort(m) ==
    /\ pc' = [pc EXCEPT ![m] = "idle"]
    /\ apply' = [apply EXCEPT ![m] = "no"]
    /\ began' = [began EXCEPT ![m] = 0]
    /\ offers' = [offers EXCEPT ![m] = {}]
    /\ agreed' = [agreed EXCEPT ![m] = {}]
    /\ changed' = [changed EXCEPT ![m] = "no"]

Carry(m) == UNCHANGED <<apply, began, offers, agreed, changed>>

Push(m) ==
    /\ pc[m] = "push"
    /\ Carry(m)
    /\ \/ Lands(m)
       \/ Refused(m) /\ pc' = [pc EXCEPT ![m] = "reconcile"]
    /\ UNCHANGED <<now, brew, clone, next, todo, histVars, deeds>>

Reconcile(m) ==
    /\ pc[m] = "reconcile"
    /\ \/ /\ clone' = [clone EXCEPT ![m] = Pulled(m)]
          /\ behind' = [behind EXCEPT ![m] = "no"]
          /\ pc' = [pc EXCEPT ![m] = "repush"]
          /\ Carry(m)
          /\ UNCHANGED faults
       \/ /\ Fault
          /\ Abort(m)
          /\ UNCHANGED <<clone, behind>>
    /\ UNCHANGED <<now, brew, remote, unpushed, next, todo, histVars, deeds>>

PushAgain(m) ==
    /\ pc[m] = "repush"
    /\ \/ Lands(m) /\ Carry(m)
       \/ Refused(m) /\ Abort(m)
    /\ UNCHANGED <<now, brew, clone, next, todo, histVars, deeds>>

-----------------------------------------------------------------------------
Person(m) ==
    \/ \E r \in Refs : BrewInstall(m, r) \/ BrewUninstall(m, r)
                         \/ BecomesDependency(m, r) \/ Skip(m, r)
    \/ Update(m) \/ Escape(m)

Step(m) ==
    \/ PlanSync(m) \/ Finish(m) \/ Push(m) \/ Reconcile(m) \/ PushAgain(m)
    \/ \E r \in Refs : InstallOne(m, r) \/ RemoveOne(m, r)
    \/ \E o \in Offers : Agree(m, o) \/ Keep(m, o)

Run(m) == Sync(m) \/ \E install, ask \in BOOLEAN : Apply(m, install, ask)

Next == Tick \/ \E m \in Machines : Person(m) \/ Step(m) \/ Run(m)

Spec == Init /\ [][Next]_vars

(* A command that was started goes on, every machine keeps running sync and *)
(* apply on a terminal, and time passes.                                    *)
FairSpec ==
    /\ Spec
    /\ WF_vars(Tick)
    /\ \A m \in Machines : /\ WF_vars(Step(m))
                           /\ SF_vars(Sync(m))
                           /\ SF_vars(Apply(m, TRUE, TRUE))

-----------------------------------------------------------------------------
(* In every copy of every published file, a package is installed, retired   *)
(* or opted out of, and never two of them: a skip next to a retirement would *)
(* uninstall on the other machines what was only declined here.             *)
OneVerdict(inv) ==
    \A r \in Refs : /\ Has(inv, r) => inv.ret[r] = None /\ r \notin inv.opt
                    /\ r \in inv.opt => inv.ret[r] = None
OneVerdictEach ==
    \A k, m \in Machines : OneVerdict(remote[m]) /\ OneVerdict(clone[k][m])

(* What a machine publishes as retired was removed there by a person: a     *)
(* package that only stopped being asked for is never offered for removal   *)
(* elsewhere.                                                               *)
RetirementIsReal ==
    \A k, m \in Machines, r \in Refs : clone[k][m].ret[r] # None => removed[m][r] # None

(* A person who answered "keep" to the last removal of a package there was  *)
(* is not asked about it again until somebody removes it anew: no snapshot, *)
(* merge, retry or aborted command makes the old removal look like a new    *)
(* one, or loses the answer.                                                *)
KeepSticks ==
    \A m \in Machines : \A o \in offers[m] : o.ref \notin kept[m]

(* brewrig plans to install nothing on a machine whose person removed it    *)
(* after the last time anybody asked for it.                                *)
NoSilentReinstall ==
    [][\A m \in Machines : \A r \in todo'[m] \ todo[m] :
          removed[m][r] <= wanted[r]]_vars

(* A machine's published file changes only by its own push, to what it has  *)
(* committed: no other machine's merge takes it back.                       *)
NoRollback ==
    [][\A m \in Machines : remote'[m] # remote[m] =>
          pc[m] \in {"push", "repush"} /\ remote'[m] = clone[m][m]]_vars

(* Once people leave their machines alone, either some clone is diverged    *)
(* for good or everything published is current, nothing is left to install  *)
(* and nobody has a removal left to decide.                                 *)
Current(m) ==
    LET view == View(m, remote, now)
    IN remote[m] = view[m] /\ Installs(m, view) = {} /\ Removals(m, view) = {}
Settles == <>[](\A m \in Machines : Current(m)) \/ <>(\E m \in Machines : pc[m] = "idle" /\ Diverged(m))
=============================================================================
