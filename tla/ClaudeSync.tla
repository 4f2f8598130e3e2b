----------------------------- MODULE ClaudeSync -----------------------------
(***************************************************************************)
(* clauderig: `sync`, `pull` and the two prunes of several machines, each  *)
(* with a staging clone of one shared repository.                          *)
(*                                                                         *)
(* A commit is a pair of the root its history grew from and what it adds:  *)
(* the first commit, a capture, or conflict markers left in a file.  A     *)
(* history is a set of commits; rewriting it gives every commit a new      *)
(* root, as new hashes do.  A merge commit is identified with the history  *)
(* it joins.                                                               *)
(*                                                                         *)
(* A step is one git command, one capture, or one access to .sync.lock;    *)
(* several processes of a machine interleave between them.                 *)
(***************************************************************************)
EXTENDS Integers, FiniteSets

CONSTANTS Machines, Procs,
          Home,         \* the machine a process runs on
          Runs,         \* the commands a process runs
          Nobody,       \* no process
          Gone,         \* a process that was killed
          PushAttempts, \* reconciles a Publish goes through before it gives up
          MaxCaptures,  \* bound: captures that find something new
          MaxRewrites,  \* bound: times a history is folded
          MaxFaults     \* bound: kills, failed pushes, refusals, hard conflicts

Commands == {"sync", "pull", "prune", "window"}

ASSUME ClaudeAssumption ==
    /\ Home \in [Procs -> Machines]
    /\ Runs \in [Procs -> SUBSET Commands]
    /\ Nobody \notin Procs /\ Gone \notin Procs /\ Nobody # Gone
    /\ PushAttempts \in Nat /\ MaxCaptures \in Nat /\ MaxRewrites \in Nat /\ MaxFaults \in Nat

First == 0                      \* what `init` committed
Markers == MaxCaptures + 1      \* <<<<<<< and >>>>>>> in a committed file
Commits == (0..MaxRewrites) \X (0..Markers)
Facts(h) == {c[2] : c \in h}
Marked(h) == Markers \in Facts(h)
Captures(h) == Facts(h) \ {Markers}

VARIABLES pc,         \* where each process is
          mode,       \* the command it runs
          at,         \* what it reconciles for: "repair" or "diverged"
          tries,      \* reconciles of this Publish so far
          lease,      \* the remote tip `repo prune` has seen
          maker,      \* who created .sync.lock (Nobody: there is none)
          token,      \* whether the file has its token yet
          head,       \* the clone's HEAD
          tree,       \* captures in its working tree, not committed
          notes,      \* "dirty": its journal has records not committed
          merge,      \* the merge in progress: its state and MERGE_HEAD
          remote,     \* origin/main
          taken,      \* captures so far
          rewrites,   \* histories folded so far
          faults,
          company     \* "overlapped" once two commands have shared a clone

runVars  == <<mode, at, tries, lease>>
lockVars == <<maker, token>>
repoVars == <<head, tree, notes, merge, remote>>
counts   == <<taken, rewrites, faults>>
vars == <<pc, runVars, lockVars, repoVars, counts, company>>

InTree == {"repair", "capture", "commit", "push", "reconcile", "resolve",
           "finish", "maintain", "force", "ff", "look", "fold", "lease"}
Labels == InTree \cup {"idle", "lock", "token", "judge", "break", "retake",
                       "release", "unlock"}
NoMerge == [state |-> "none", theirs |-> {}]

TypeOK ==
    /\ pc \in [Procs -> Labels]
    /\ mode \in [Procs -> Commands]
    /\ at \in [Procs -> {"repair", "diverged"}]
    /\ tries \in [Procs -> 0..PushAttempts]
    /\ lease \in [Procs -> SUBSET Commits]
    /\ maker \in [Machines -> Procs \cup {Nobody, Gone}]
    /\ token \in [Machines -> {"blank", "written"}]
    /\ head \in [Machines -> SUBSET Commits]
    /\ tree \in [Machines -> SUBSET (1..MaxCaptures)]
    /\ notes \in [Machines -> {"committed", "dirty"}]
    /\ merge \in [Machines -> [state : {"none", "clean", "conflicted", "hard", "resolved"},
                               theirs : SUBSET Commits]]
    /\ remote \in SUBSET Commits
    /\ taken \in 0..MaxCaptures
    /\ rewrites \in 0..MaxRewrites
    /\ faults \in 0..MaxFaults
    /\ company \in {"apart", "overlapped"}

Init ==
    /\ pc = [p \in Procs |-> "idle"]
    /\ mode = [p \in Procs |-> "sync"]
    /\ at = [p \in Procs |-> "repair"]
    /\ tries = [p \in Procs |-> 0]
    /\ lease = [p \in Procs |-> {}]
    /\ maker = [m \in Machines |-> Nobody]
    /\ token = [m \in Machines |-> "blank"]
    /\ head = [m \in Machines |-> {<<0, First>>}]
    /\ tree = [m \in Machines |-> {}]
    /\ notes = [m \in Machines |-> "committed"]
    /\ merge = [m \in Machines |-> NoMerge]
    /\ remote = {<<0, First>>}
    /\ taken = 0 /\ rewrites = 0 /\ faults = 0
    /\ company = "apart"

Goto(p, to) == pc' = [pc EXCEPT ![p] = to]
Step(p, from, to) == pc[p] = from /\ Goto(p, to)
Fault == faults < MaxFaults /\ faults' = faults + 1
Shares(p) == \E q \in Procs \ {p} : Home[q] = Home[p] /\ pc[q] \in InTree
Enter(p) == company' = IF Shares(p) THEN "overlapped" ELSE company

-----------------------------------------------------------------------------
(* The commands begin.  Only sync takes .sync.lock; pull is the            *)
(* SessionStart hook, "window" the prune of the desktop window.            *)
StartSync(p) ==
    /\ "sync" \in Runs[p]
    /\ Step(p, "idle", "lock")
    /\ mode' = [mode EXCEPT ![p] = "sync"]
    /\ UNCHANGED <<at, tries, lease, lockVars, repoVars, counts, company>>

Begin(p, what, label) ==
    /\ what \in Runs[p]
    /\ Step(p, "idle", label)
    /\ mode' = [mode EXCEPT ![p] = what]
    /\ Enter(p)
    /\ UNCHANGED <<at, tries, lease, lockVars, repoVars, counts>>

StartPull(p) == Begin(p, "pull", "repair")
StartPrune(p) == Begin(p, "prune", "look")
StartWindow(p) == Begin(p, "window", "fold")

(* .sync.lock: create it exclusively, then write the token into it.        *)
Create(p) ==
    /\ maker[Home[p]] = Nobody
    /\ maker' = [maker EXCEPT ![Home[p]] = p]
    /\ token' = [token EXCEPT ![Home[p]] = "blank"]
    /\ Goto(p, "token")

TakeLock(p) ==
    /\ pc[p] = "lock"
    /\ \/ Create(p)
       \/ maker[Home[p]] # Nobody /\ Goto(p, "judge") /\ UNCHANGED lockVars
    /\ UNCHANGED <<runVars, repoVars, counts, company>>

WriteToken(p) ==
    /\ Step(p, "token", "repair")
    /\ token' = IF maker[Home[p]] = p THEN [token EXCEPT ![Home[p]] = "written"]
                                      ELSE token
    /\ Enter(p)
    /\ UNCHANGED <<runVars, maker, repoVars, counts>>

(* lockIsStale: an unreadable file and a dead holder's are both disbelieved. *)
Stale(m) == maker[m] \in {Nobody, Gone} \/ token[m] = "blank"

Judge(p) ==
    /\ \/ Stale(Home[p]) /\ Step(p, "judge", "break")
       \/ ~Stale(Home[p]) /\ Step(p, "judge", "idle")
    /\ UNCHANGED <<runVars, lockVars, repoVars, counts, company>>

RemoveLock(m) ==
    /\ maker' = [maker EXCEPT ![m] = Nobody]
    /\ token' = [token EXCEPT ![m] = "blank"]

Break(p) ==
    /\ Step(p, "break", "retake")
    /\ RemoveLock(Home[p])
    /\ UNCHANGED <<runVars, repoVars, counts, company>>

Retake(p) ==
    /\ pc[p] = "retake"
    /\ \/ Create(p)
       \/ maker[Home[p]] # Nobody /\ Goto(p, "idle") /\ UNCHANGED lockVars
    /\ UNCHANGED <<runVars, repoVars, counts, company>>

Owns(p) == maker[Home[p]] = p /\ token[Home[p]] = "written"

(* The command returns, and a sync gives back the lock if it is its own.    *)
Forget(p) ==
    /\ mode' = [mode EXCEPT ![p] = "sync"]
    /\ at' = [at EXCEPT ![p] = "repair"]
    /\ tries' = [tries EXCEPT ![p] = 0]
    /\ lease' = [lease EXCEPT ![p] = {}]

Release(p) ==
    /\ \/ mode[p] = "sync" /\ Owns(p) /\ Step(p, "release", "unlock")
       \/ ~(mode[p] = "sync" /\ Owns(p)) /\ Step(p, "release", "idle")
    /\ Forget(p)
    /\ UNCHANGED <<lockVars, repoVars, counts, company>>

Unlock(p) ==
    /\ Step(p, "unlock", "idle")
    /\ RemoveLock(Home[p])
    /\ UNCHANGED <<runVars, repoVars, counts, company>>

-----------------------------------------------------------------------------
(* Where a reconcile returns to, without and with an error: RepairMerge     *)
(* runs it before a capture or a pull, Publish and Pull on divergence.      *)
Returns(p) ==
    IF at[p] = "repair" THEN IF mode[p] = "sync" THEN "capture" ELSE "ff"
                        ELSE IF mode[p] = "sync" THEN "push" ELSE "release"
Fails(p, unfinished) ==
    IF at[p] = "repair"
    THEN IF mode[p] = "pull" THEN "ff" ELSE IF unfinished THEN "release" ELSE "capture"
    ELSE "release"

Merging(m) == merge[m].state # "none"
Dirty(m) == notes[m] = "dirty"

(* A failure is journalled in the staging tree, and stays uncommitted there, *)
(* unless it happened while repairing.                                      *)
Note(m) == notes' = [notes EXCEPT ![m] = "dirty"]
NoteFailure(p) == IF at[p] = "diverged" THEN Note(Home[p]) ELSE UNCHANGED notes

RepairSkipped(p) ==   \* mutant: a merge in progress is not looked for
    /\ pc[p] = "repair"
    /\ at' = [at EXCEPT ![p] = "repair"]
    /\ Goto(p, IF mode[p] = "sync" THEN "capture" ELSE "ff")
    /\ UNCHANGED <<mode, tries, lease, lockVars, repoVars, counts, company>>

(* RepairMerge: settle what an earlier run left before touching the tree.   *)
Repair(p) ==
    /\ pc[p] = "repair"
    /\ at' = [at EXCEPT ![p] = "repair"]
    /\ \/ ~Merging(Home[p]) /\ Goto(p, IF mode[p] = "sync" THEN "capture" ELSE "ff")
       \/ Merging(Home[p]) /\ Goto(p, "resolve")
    /\ UNCHANGED <<mode, tries, lease, lockVars, repoVars, counts, company>>

(* engine.Sync writes the staging tree, whatever is going on in it, and the *)
(* journal records it there before the commit.                              *)
Capture(p) ==
    /\ Step(p, "capture", "commit")
    /\ \/ /\ taken < MaxCaptures
          /\ taken' = taken + 1
          /\ tree' = [tree EXCEPT ![Home[p]] = @ \cup {taken'}]
       \/ UNCHANGED <<taken, tree>>
    /\ Note(Home[p])
    /\ UNCHANGED <<runVars, lockVars, head, merge, remote, rewrites, faults, company>>

Root(h) == (CHOOSE c \in h : TRUE)[1]
Adding(h, facts) == h \cup {<<Root(h), f>> : f \in facts}

(* Publish's commit is `git add -A`: it concludes a merge in progress, with *)
(* the markers of whatever is still conflicted.  The audit may refuse it.   *)
CommitThen(p, next) ==
    LET m == Home[p]
        left == IF merge[m].state \in {"conflicted", "hard"} THEN {Markers} ELSE {}
    IN  /\ \/ /\ Step(p, "commit", next)
              /\ head' = [head EXCEPT ![m] = Adding(@, tree[m] \cup left) \cup merge[m].theirs]
              /\ tree' = [tree EXCEPT ![m] = {}]
              /\ notes' = [notes EXCEPT ![m] = "committed"]
              /\ merge' = [merge EXCEPT ![m] = NoMerge]
              /\ UNCHANGED faults
           \/ /\ Step(p, "commit", "release")
              /\ Fault
              /\ Note(m)
              /\ UNCHANGED <<head, tree, merge>>
        /\ tries' = [tries EXCEPT ![p] = 0]
        /\ UNCHANGED <<mode, at, lease, lockVars, remote, taken, rewrites, company>>

CommitGatesPush(p) ==   \* mutant: only a run that commits something pushes
    CommitThen(p, IF tree[Home[p]] = {} /\ ~Merging(Home[p]) THEN "release" ELSE "push")

Commit(p) == CommitThen(p, "push")

(* The push loop: always push, reconcile on a rejection, three times.       *)
Push(p) ==
    LET m == Home[p]
        rejected == ~(remote \subseteq head[m])
    IN  /\ \/ /\ ~rejected
              /\ remote' = head[m]
              /\ Step(p, "push", "maintain")
              /\ UNCHANGED <<tries, at, notes, faults>>
           \/ /\ rejected /\ tries[p] < PushAttempts
              /\ tries' = [tries EXCEPT ![p] = @ + 1]
              /\ at' = [at EXCEPT ![p] = "diverged"]
              /\ Step(p, "push", "reconcile")
              /\ UNCHANGED <<remote, notes, faults>>
           \/ /\ rejected /\ tries[p] = PushAttempts
              /\ Step(p, "push", "release")
              /\ Note(m)
              /\ UNCHANGED <<remote, tries, at, faults>>
           \/ /\ Step(p, "push", "release")      \* offline, or the audit refuses
              /\ Fault
              /\ Note(m)
              /\ UNCHANGED <<remote, tries, at>>
        /\ UNCHANGED <<mode, lease, lockVars, head, tree, merge, taken, rewrites, company>>

-----------------------------------------------------------------------------
(* Reconcile, from Publish or Pull.  A merge already in progress is resumed; *)
(* else fetch and merge without committing: nothing to do, refused          *)
(* (offline, no common root, or uncommitted captures in its way), clean, or *)
(* conflicted.                                                              *)
StartMerge(p, state, label) ==
    /\ merge' = [merge EXCEPT ![Home[p]] = [state |-> state, theirs |-> remote]]
    /\ Step(p, "reconcile", label)

Related(h, g) == h \cap g # {}

Reconcile(p) ==
    LET m == Home[p]
        integrated == remote \subseteq head[m]
        mergeable == ~Merging(m) /\ ~integrated /\ Related(head[m], remote)
        refused == ~Merging(m) /\ ~integrated /\ (~Related(head[m], remote) \/ tree[m] # {})
        diverged == mergeable /\ ~(head[m] \subseteq remote)
    IN  /\ \/ /\ Merging(m)
              /\ Step(p, "reconcile", "resolve")
              /\ UNCHANGED <<notes, merge, faults>>
           \/ /\ ~Merging(m) /\ integrated
              /\ Step(p, "reconcile", "finish")
              /\ UNCHANGED <<notes, merge, faults>>
           \/ mergeable /\ StartMerge(p, "clean", "finish") /\ UNCHANGED <<notes, faults>>
           \/ diverged /\ StartMerge(p, "conflicted", "resolve") /\ UNCHANGED <<notes, faults>>
           \/ diverged /\ StartMerge(p, "hard", "resolve") /\ Fault /\ UNCHANGED notes
           \/ /\ (refused /\ UNCHANGED faults) \/ (~Merging(m) /\ Fault)
              /\ Step(p, "reconcile", Fails(p, FALSE))
              /\ NoteFailure(p)
              /\ UNCHANGED merge
        /\ UNCHANGED <<runVars, lockVars, head, tree, remote, taken, rewrites, company>>

SetMerge(m, state) == merge' = [merge EXCEPT ![m].state = state]

(* The policies settle a conflict; what they decline (chunk indexes) goes   *)
(* to a person's mergetool, or the merge is aborted, and what a capture has *)
(* written into a conflicted file goes with it.                             *)
Resolve(p) ==
    LET m == Home[p]
        undecided == merge[m].state \in {"conflicted", "hard"}
    IN  /\ \/ /\ merge[m].state = "conflicted" \/ (merge[m].state = "hard" /\ mode[p] = "sync")
              /\ SetMerge(m, "resolved")
              /\ Step(p, "resolve", "finish")
              /\ UNCHANGED <<tree, notes>>
           \/ /\ merge[m].state = "hard"
              /\ merge' = [merge EXCEPT ![m] = NoMerge]
              /\ \E kept \in SUBSET tree[m] : tree' = [tree EXCEPT ![m] = kept]
              /\ Step(p, "resolve", Fails(p, FALSE))
              /\ NoteFailure(p)
           \/ /\ ~undecided
              /\ Step(p, "resolve", "finish")
              /\ UNCHANGED <<tree, notes, merge>>
        /\ UNCHANGED <<runVars, lockVars, head, remote, counts, company>>

(* FinishMerge commits what is staged.  Changes that are not staged (a      *)
(* conflict, or tracked files like the journal) and the audit refuse, and   *)
(* leave the merge, if there is one, where it is.                           *)
FinishMerge(p) ==
    LET m == Home[p]
        unstaged == Dirty(m) \/ merge[m].state \in {"conflicted", "hard"}
    IN  /\ \/ /\ ~Merging(m)
              /\ Step(p, "finish", Returns(p))
              /\ UNCHANGED <<head, notes, merge, faults>>
           \/ /\ Merging(m) /\ ~unstaged
              /\ head' = [head EXCEPT ![m] = @ \cup merge[m].theirs]
              /\ merge' = [merge EXCEPT ![m] = NoMerge]
              /\ Step(p, "finish", Returns(p))
              /\ UNCHANGED <<notes, faults>>
           \/ /\ (Merging(m) /\ unstaged /\ UNCHANGED faults) \/ Fault
              /\ Step(p, "finish", Fails(p, Merging(m)))
              /\ NoteFailure(p)
              /\ UNCHANGED <<head, merge>>
        /\ UNCHANGED <<runVars, lockVars, tree, remote, taken, rewrites, company>>

PullByReset(p) ==   \* mutant: the clone is reset to the remote
    /\ Step(p, "ff", "release")
    /\ head' = [head EXCEPT ![Home[p]] = remote]
    /\ UNCHANGED <<runVars, lockVars, tree, notes, merge, remote, counts, company>>

(* Pull is ff-only, and reconciles whatever else it meets.  A capture in    *)
(* the way of the merge, or no network, stops both.                         *)
FastForward(p) ==
    LET m == Home[p]
        linear == head[m] \subseteq remote \/ remote \subseteq head[m]
        inTheWay == ~Merging(m) /\ linear /\ tree[m] # {} /\ ~(remote \subseteq head[m])
    IN  /\ \/ /\ ~Merging(m) /\ linear
              /\ head' = [head EXCEPT ![m] = @ \cup remote]
              /\ Step(p, "ff", "release")
              /\ UNCHANGED <<at, notes, faults>>
           \/ /\ ((Merging(m) \/ ~linear) /\ UNCHANGED faults) \/ Fault
              /\ at' = [at EXCEPT ![p] = "diverged"]
              /\ Step(p, "ff", "reconcile")
              /\ UNCHANGED <<head, notes>>
           \/ /\ (inTheWay /\ UNCHANGED faults) \/ Fault
              /\ Step(p, "ff", "release")
              /\ Note(m)
              /\ UNCHANGED <<at, head>>
        /\ UNCHANGED <<mode, tries, lease, lockVars, tree, merge, remote, taken, rewrites, company>>

-----------------------------------------------------------------------------
(* After a push, .git may have outgrown its content: a repack, which may    *)
(* fail, then SquashBefore and a plain force-push.                          *)
Maintain(p) ==
    /\ \/ Step(p, "maintain", "release") /\ UNCHANGED <<notes, faults>>
       \/ Step(p, "maintain", "fold") /\ UNCHANGED <<notes, faults>>
       \/ Step(p, "maintain", "release") /\ Fault /\ Note(Home[p])
    /\ UNCHANGED <<runVars, lockVars, head, tree, merge, remote, taken, rewrites, company>>

Rewritten(h, root) == {<<root, f>> : f \in Facts(h)}

(* SquashBefore rebuilds every commit of HEAD on a new root; with nothing   *)
(* old enough, or nobody confirming, the command ends.                      *)
Fold(p) ==
    /\ \/ /\ rewrites < MaxRewrites
          /\ rewrites' = rewrites + 1
          /\ head' = [head EXCEPT ![Home[p]] = Rewritten(@, rewrites')]
          /\ Step(p, "fold", IF mode[p] = "prune" THEN "lease" ELSE "force")
       \/ /\ Step(p, "fold", "release")
          /\ UNCHANGED <<rewrites, head>>
    /\ UNCHANGED <<runVars, lockVars, tree, notes, merge, remote, taken, faults, company>>

ForcePush(p) ==
    /\ Step(p, "force", "release")
    /\ \/ /\ remote' = head[Home[p]]
          /\ UNCHANGED <<notes, faults>>
       \/ /\ Fault
          /\ IF mode[p] = "sync" THEN Note(Home[p]) ELSE UNCHANGED notes
          /\ UNCHANGED remote
    /\ UNCHANGED <<runVars, lockVars, head, tree, merge, taken, rewrites, company>>

(* `repo prune`: refuse when the remote has what this clone lacks, and      *)
(* force-push with a lease on the tip seen then.                            *)
Look(p) ==
    /\ \/ /\ remote \subseteq head[Home[p]]
          /\ lease' = [lease EXCEPT ![p] = remote]
          /\ Step(p, "look", "fold")
       \/ /\ ~(remote \subseteq head[Home[p]])
          /\ Step(p, "look", "release")
          /\ UNCHANGED lease
    /\ UNCHANGED <<mode, at, tries, lockVars, repoVars, counts, company>>

LeaseIgnored(p) ==   \* mutant: the prune's push is a plain force-push
    /\ Step(p, "lease", "release")
    /\ remote' = head[Home[p]]
    /\ UNCHANGED <<runVars, lockVars, head, tree, notes, merge, counts, company>>

LeasePush(p) ==
    /\ Step(p, "lease", "release")
    /\ \/ remote = lease[p] /\ remote' = head[Home[p]] /\ UNCHANGED faults
       \/ remote # lease[p] /\ UNCHANGED <<remote, faults>>
       \/ Fault /\ UNCHANGED remote
    /\ UNCHANGED <<runVars, lockVars, head, tree, notes, merge, taken, rewrites, company>>

(* A process is killed: what it left stays, its lock file included.         *)
Crash(p) ==
    /\ pc[p] # "idle"
    /\ Goto(p, "idle")
    /\ Fault
    /\ maker' = IF maker[Home[p]] = p THEN [maker EXCEPT ![Home[p]] = Gone] ELSE maker
    /\ Forget(p)
    /\ UNCHANGED <<token, repoVars, taken, rewrites, company>>

-----------------------------------------------------------------------------
LockStep(p) == TakeLock(p) \/ WriteToken(p) \/ Judge(p) \/ Break(p) \/ Retake(p)
                 \/ Release(p) \/ Unlock(p)
MergeStep(p) == Repair(p) \/ Reconcile(p) \/ Resolve(p) \/ FinishMerge(p) \/ FastForward(p)
PublishStep(p) == Capture(p) \/ Commit(p) \/ Push(p) \/ Maintain(p) \/ Fold(p) \/ ForcePush(p)
PruneStep(p) == Look(p) \/ LeasePush(p)
Continue(p) == LockStep(p) \/ MergeStep(p) \/ PublishStep(p) \/ PruneStep(p)
Start(p) == StartSync(p) \/ StartPull(p) \/ StartPrune(p) \/ StartWindow(p)

Next == \E p \in Procs : Start(p) \/ Continue(p) \/ Crash(p)

Spec == Init /\ [][Next]_vars

(* A command that runs goes on; a Stop or SessionEnd hook starts a sync     *)
(* again and again.                                                         *)
FairSpec == /\ Spec
            /\ \A p \in Procs : WF_vars(Continue(p)) /\ SF_vars(StartSync(p))

-----------------------------------------------------------------------------
Work(m) == Captures(head[m]) \cup tree[m]

(* Conflict markers reach the remote only when two commands were in one     *)
(* clone at a time: a merge that a killed run abandoned never leads there,  *)
(* because every run settles it first (RepairMerge).                        *)
MarkersNeedCompany == Marked(remote) => company = "overlapped"

(* No command, in whatever company, drops what a machine has captured: no   *)
(* pull, resumed merge, fold or lost push does, and an aborted merge only   *)
(* what is not committed.                                                   *)
Aborts(m) == merge[m].state = "hard" /\ merge'[m] = NoMerge
ClonesKeepTheirWork ==
    [][\A m \in Machines : /\ Captures(head[m]) \subseteq Captures(head'[m])
                           /\ Work(m) \subseteq Work(m)' \/ Aborts(m)]_vars

(* Only a plain force-push takes captures out of the remote; a push, and    *)
(* the leased push of `repo prune`, never do.                               *)
OnlyForceDrops ==
    [][Captures(remote) \subseteq Captures(remote') \/ \E p \in Procs : ForcePush(p)]_vars

(* A merge left in progress does not stay: a later run settles or aborts it.*)
MergesAreSettled == \A m \in Machines : Merging(m) ~> ~Merging(m)

(* What a machine has committed gets published, by a later run if its own   *)
(* push failed, unless the clone shares no root with the remote (somebody   *)
(* folded the history) or is stuck in a merge over uncommitted records.     *)
Stuck(m) == ~Related(head[m], remote) \/ (Merging(m) /\ Dirty(m))
Shared(m) == Captures(head[m]) \subseteq Captures(remote)
WorkIsShared == \A m \in Machines : ~Shared(m) ~> Shared(m) \/ Stuck(m)
=============================================================================
