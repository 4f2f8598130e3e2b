------------------------------ MODULE BrewPlan ------------------------------
(***************************************************************************)
(* internal/brewrig: what one machine publishes (inventory, engine.Snapshot)*)
(* and what it concludes from everybody's publications (plan.Build).  Both *)
(* are pure: they are operators here, and BrewSync is the system that runs *)
(* them.                                                                   *)
(*                                                                         *)
(* Times are whole seconds, as brew and the published files record them.   *)
(* A version, a tap and the fields that only feed a report are left out;   *)
(* `changedAt` is too, because Snapshot freezes it exactly when nothing    *)
(* else moved.                                                             *)
(***************************************************************************)
EXTENDS Integers, FiniteSets

CONSTANTS Machines,   \* the machines that publish to the shared repository
          Refs,       \* package references, kind and name
          MaxTime     \* bound on the clock

ASSUME PlanAssumption == MaxTime \in Nat

None == -1                       \* no stamp recorded
Times == 0..MaxTime              \* 0 doubles as "brew records no install time"
Stamps == Times \cup {None}

(* One published file: install times of what was asked for, retirement and  *)
(* decline stamps, and the packages opted out of.                           *)
Inventories == [inst : [Refs -> Stamps], ret : [Refs -> Stamps],
                ack : [Refs -> Stamps], opt : SUBSET Refs]

Has(inv, r) == inv.inst[r] # None

(* What Homebrew knows on one machine: whether it has the package, whether  *)
(* somebody asked for it, and when it was installed.                        *)
Brews == [Refs -> [state : {"none", "dep", "asked"}, at : Times]]
BrewHas(b, r) == b[r].state # "none"

-----------------------------------------------------------------------------
(* Machine.Retire keeps the earliest observation.                           *)
Retire(stamp, at) == IF stamp # None /\ stamp < at THEN stamp ELSE at

RetiredUnlessAsked(b, prev, now, r) ==   \* mutant: Has where the code asks BrewHas
    IF b[r].state = "asked" THEN None
    ELSE IF Has(prev, r) THEN Retire(prev.ret[r], now)
    ELSE prev.ret[r]

RetiredAnew(b, prev, now, r) ==          \* mutant: every snapshot re-stamps an absence
    IF b[r].state = "asked" THEN None
    ELSE IF ~BrewHas(b, r) /\ (Has(prev, r) \/ prev.ret[r] # None) THEN now
    ELSE prev.ret[r]

(* The stamp Snapshot publishes for r: the previous one is carried, what    *)
(* was published as installed and is gone from brew is retired now, and     *)
(* what is asked for here is not retired here.                              *)
RetiredStamp(b, prev, now, r) ==
    IF b[r].state = "asked" THEN None
    ELSE IF Has(prev, r) /\ ~BrewHas(b, r) THEN Retire(prev.ret[r], now)
    ELSE prev.ret[r]

SnapshotForgets(b, prev, now) ==   \* mutant: acknowledgements are not carried
    [inst |-> [r \in Refs |-> IF b[r].state = "asked" THEN b[r].at ELSE None],
     ret  |-> [r \in Refs |-> RetiredStamp(b, prev, now, r)],
     ack  |-> [r \in Refs |-> None],
     opt  |-> {r \in prev.opt : b[r].state # "asked"}]

(* engine.Snapshot: what this machine publishes now, on top of what it      *)
(* published last time.                                                     *)
Snapshot(b, prev, now) ==
    [inst |-> [r \in Refs |-> IF b[r].state = "asked" THEN b[r].at ELSE None],
     ret  |-> [r \in Refs |-> RetiredStamp(b, prev, now, r)],
     ack  |-> [r \in Refs |-> IF BrewHas(b, r) THEN prev.ack[r] ELSE None],
     opt  |-> {r \in prev.opt : b[r].state # "asked"}]

-----------------------------------------------------------------------------
(* plan.retirements.  `all` maps every machine to its inventory.            *)
LatestInstall(all, r) ==
    CHOOSE t \in Times : /\ t = 0 \/ \E m \in Machines : all[m].inst[r] = t
                         /\ \A m \in Machines : all[m].inst[r] <= t

Retirers(all, r) ==
    {m \in Machines : /\ all[m].ret[r] # None
                      /\ \A k \in Machines : all[k].ret[r] <= all[m].ret[r]}

RetiredStrictly(all, r) ==   \* mutant: a tie revokes the retirement
    /\ Retirers(all, r) # {}
    /\ \A m \in Retirers(all, r) : LatestInstall(all, r) < all[m].ret[r]

(* A reinstall strictly later than the retirement revokes it.               *)
Retired(all, r) ==
    /\ Retirers(all, r) # {}
    /\ \A m \in Retirers(all, r) : LatestInstall(all, r) <= all[m].ret[r]

InUnion(all, r) == \E m \in Machines : Has(all[m], r)

(* declined: this machine answered no to this retirement or a later one.    *)
Declined(inv, r, at) == inv.ack[r] # None /\ at <= inv.ack[r]

(* plan.Build for `self`: the packages to install, and the removals to ask  *)
(* about, each with the stamp of the retirement.                            *)
Installs(self, all) ==
    {r \in Refs : InUnion(all, r) /\ ~Retired(all, r)
                    /\ r \notin all[self].opt /\ ~Has(all[self], r)}

Offers == [ref : Refs, at : Times]

Removals(self, all) ==
    {o \in Offers : /\ InUnion(all, o.ref) /\ Retired(all, o.ref)
                    /\ Has(all[self], o.ref)
                    /\ ~Declined(all[self], o.ref, o.at)
                    /\ \E by \in Retirers(all, o.ref) \ {self} : o.at = all[by].ret[o.ref]}
=============================================================================
