----------------------------- MODULE StoreWrite -----------------------------
(***************************************************************************)
(* internal/brewrig/store: several brewrig processes on one machine share  *)
(* one git clone and replace one file in it, machines/<machine>.json.      *)
(*                                                                         *)
(* The file is abstracted to the set of facts it carries: a process        *)
(* contributes the fact named after it (a `retired` or `acknowledged`      *)
(* entry), and somebody editing the JSON by hand in the shared repository  *)
(* contributes the fact of that edit.  What the properties ask is whether  *)
(* a fact that was reported as saved is still there.                       *)
(*                                                                         *)
(* The steps are those at which two processes can interleave: every system *)
(* call of the lock, the digest comparison, the ownership re-check, the    *)
(* rename, and each git command.  A git command is one step; RemoveAll of  *)
(* the two-entry lock directory is one step.                               *)
(***************************************************************************)
EXTENDS Naturals, FiniteSets

CONSTANTS Procs,      \* brewrig processes sharing the clone
          Edits,      \* hand edits somebody may push to this machine's file
          Nobody,     \* no maker, no token
          Crashable,  \* the processes that may die at any step
          Sleepers    \* those that may outlast lockStale alive (a laptop put to sleep)

Facts == Procs \cup Edits
Absent == {Nobody}    \* the contents of a file that does not exist

ASSUME StoreAssumption ==
    /\ Nobody \notin Facts
    /\ Procs \cap Edits = {}
    /\ Crashable \subseteq Procs
    /\ Sleepers \subseteq Procs

VARIABLES pc,         \* where each process is
          op,         \* what it holds the lock for: "write" or "pull"
          base,       \* contents whose digest Load (or Write) recorded
          draft,      \* the inventory it is about to write
          won,        \* whether the locked step it came for succeeded
          tries,      \* pushes it has attempted in this Publish
          maker,      \* who created machines/.lock (Nobody: it does not exist)
          token,      \* contents of machines/.lock/owner
          age,        \* "stale": the lock's mtime is more than lockStale ago
          file,       \* the file in the working tree
          head,       \* the file in the clone's last commit
          branch,     \* "ahead": the clone has commits the remote lacks
          incoming,   \* edits in the remote that the clone has not merged
          merging,    \* edits of a merge left in progress by a conflict
          made,       \* edits pushed by hand so far
          landed      \* facts a locked step put in the file and reported

lockVars == <<maker, token, age>>
gitVars  == <<head, branch, incoming, merging, made>>
procVars == <<op, base, draft, won, tries>>
vars == <<pc, procVars, lockVars, file, gitVars, landed>>

Contents == (SUBSET Facts) \cup {Absent}
FactsOf(c) == c \ Absent

Labels == {"idle", "pulled", "mkdir", "token", "cleanup", "wait", "break", "inside",
           "held", "rename", "release", "unlock", "commit", "push",
           "reconcile", "dead"}

TypeOK ==
    /\ pc \in [Procs -> Labels]
    /\ op \in [Procs -> {"write", "pull"}]
    /\ base \in [Procs -> Contents]
    /\ draft \in [Procs -> SUBSET Facts]
    /\ won \in [Procs -> BOOLEAN]
    /\ tries \in [Procs -> 0..2]
    /\ maker \in Procs \cup {Nobody}
    /\ token \in Procs \cup {Nobody}
    /\ age \in {"fresh", "stale"}
    /\ file \in Contents
    /\ head \in Contents
    /\ branch \in {"level", "ahead"}
    /\ incoming \subseteq Edits
    /\ merging \subseteq Edits
    /\ made \subseteq Edits
    /\ landed \subseteq Facts

Init ==
    /\ pc = [p \in Procs |-> "idle"]
    /\ op = [p \in Procs |-> "write"]
    /\ base = [p \in Procs |-> Absent]
    /\ draft = [p \in Procs |-> {}]
    /\ won = [p \in Procs |-> FALSE]
    /\ tries = [p \in Procs |-> 0]
    /\ maker = Nobody /\ token = Nobody /\ age = "fresh"
    /\ file = Absent /\ head = Absent /\ branch = "level"
    /\ incoming = {} /\ merging = {} /\ made = {}
    /\ landed = {}

Goto(p, from, to) == pc[p] = from /\ pc' = [pc EXCEPT ![p] = to]

LockExists == maker # Nobody
Stale == LockExists /\ age = "stale"
Owns(p) == LockExists /\ token = p
RemoveLock == maker' = Nobody /\ token' = Nobody /\ age' = "fresh"

-----------------------------------------------------------------------------
(* Every run opens with Pull, which fetches outside the lock and then takes *)
(* it for the merge.                                                        *)
BeginPull(p) ==
    /\ Goto(p, "idle", "mkdir")
    /\ op' = [op EXCEPT ![p] = "pull"]
    /\ won' = [won EXCEPT ![p] = FALSE]
    /\ UNCHANGED <<base, draft, tries, lockVars, file, gitVars, landed>>

(* Load records the digest of what it read; the command then builds the new *)
(* inventory on top of it.                                                  *)
Load(p) ==
    /\ Goto(p, "pulled", "mkdir")
    /\ op' = [op EXCEPT ![p] = "write"]
    /\ base' = [base EXCEPT ![p] = file]
    /\ draft' = [draft EXCEPT ![p] = FactsOf(file) \cup {p}]
    /\ won' = [won EXCEPT ![p] = FALSE]
    /\ tries' = [tries EXCEPT ![p] = 0]
    /\ UNCHANGED <<lockVars, file, gitVars, landed>>

MkdirAll(p) ==         \* mutant: MkdirAll, which succeeds on an existing directory
    /\ Goto(p, "mkdir", "token")
    /\ maker' = p /\ token' = Nobody /\ age' = "fresh"
    /\ UNCHANGED <<procVars, file, gitVars, landed>>

(* lockMachines: the mkdir, then the token written into the directory. *)
Mkdir(p) ==
    \/ /\ ~LockExists
       /\ Goto(p, "mkdir", "token")
       /\ maker' = p /\ token' = Nobody /\ age' = "fresh"
       /\ UNCHANGED <<procVars, file, gitVars, landed>>
    \/ /\ LockExists
       /\ Goto(p, "mkdir", "wait")
       /\ UNCHANGED <<procVars, lockVars, file, gitVars, landed>>

WriteToken(p) ==
    /\ LockExists
    /\ Goto(p, "token", "inside")
    /\ token' = p
    /\ UNCHANGED <<procVars, maker, age, file, gitVars, landed>>

(* The directory went away under it: the open fails, and the error path     *)
(* removes whatever lock is there by then.                                  *)
TokenFails(p) ==
    /\ ~LockExists
    /\ Goto(p, "token", "cleanup")
    /\ UNCHANGED <<procVars, lockVars, file, gitVars, landed>>

Cleanup(p) ==
    /\ Goto(p, "cleanup", "idle")
    /\ RemoveLock
    /\ UNCHANGED <<procVars, file, gitVars, landed>>

NeverSeesStale(p) ==   \* mutant: an existing lock is only ever waited for
    /\ FALSE
    /\ UNCHANGED vars

(* Another process holds it: break it if it is old, else sleep and retry    *)
(* until the five-second deadline.                                          *)
SeesStale(p) ==
    /\ Stale
    /\ Goto(p, "wait", "break")
    /\ UNCHANGED <<procVars, lockVars, file, gitVars, landed>>

SleepAndRetry(p) ==
    /\ ~(Stale)
    /\ Goto(p, "wait", "mkdir")
    /\ UNCHANGED <<procVars, lockVars, file, gitVars, landed>>

DeadlinePasses(p) ==
    /\ ~(Stale)
    /\ Goto(p, "wait", "idle")
    /\ UNCHANGED <<procVars, lockVars, file, gitVars, landed>>

BreakStale(p) ==
    /\ Goto(p, "break", "mkdir")
    /\ RemoveLock
    /\ UNCHANGED <<procVars, file, gitVars, landed>>

DigestIgnored(p) ==    \* mutant: the base is never compared
    /\ op[p] = "write"
    /\ Goto(p, "inside", "held")
    /\ UNCHANGED <<procVars, lockVars, file, gitVars, landed>>

(* Write, inside the lock: the digest comparison, the ownership re-check    *)
(* and the rename.                                                          *)
CompareDigest(p) ==
    /\ op[p] = "write"
    /\ \/ file = base[p] /\ Goto(p, "inside", "held")
       \/ file # base[p] /\ Goto(p, "inside", "release")
    /\ UNCHANGED <<procVars, lockVars, file, gitVars, landed>>

StillHeld(p) ==
    /\ \/ Owns(p) /\ Goto(p, "held", "rename")
       \/ ~Owns(p) /\ Goto(p, "held", "release")
    /\ UNCHANGED <<procVars, lockVars, file, gitVars, landed>>

Rename(p) ==
    /\ Goto(p, "rename", "release")
    /\ file' = draft[p]
    /\ base' = [base EXCEPT ![p] = draft[p]]
    /\ won' = [won EXCEPT ![p] = TRUE]
    /\ landed' = landed \cup {p}
    /\ UNCHANGED <<op, draft, tries, lockVars, gitVars>>

(* Pull, inside the lock: git merge --ff-only.  It refuses a merge in       *)
(* progress and, when the remote has moved, a diverged branch or a locally  *)
(* modified file that the merge would overwrite.                            *)
FastForward(p) ==
    /\ op[p] = "pull"
    /\ Goto(p, "inside", "release")
    /\ \/ /\ merging = {} /\ incoming = {}
          /\ won' = [won EXCEPT ![p] = TRUE]
          /\ UNCHANGED <<file, gitVars, landed>>
       \/ /\ merging = {} /\ incoming # {} /\ branch = "level" /\ file = head
          /\ won' = [won EXCEPT ![p] = TRUE]
          /\ file' = FactsOf(head) \cup incoming
          /\ head' = file'
          /\ incoming' = {}
          /\ landed' = landed \cup incoming
          /\ UNCHANGED <<branch, merging, made>>
       \/ /\ merging # {} \/ (incoming # {} /\ (branch = "ahead" \/ file # head))
          /\ UNCHANGED <<won, file, gitVars, landed>>
    /\ UNCHANGED <<op, base, draft, tries, lockVars>>

(* The deferred release: read the token, and remove the directory if it is  *)
(* ours.                                                                    *)
AfterLock(p) ==
    IF ~won[p] THEN "idle" ELSE IF op[p] = "pull" THEN "pulled" ELSE "commit"

ReadOwner(p) ==
    /\ \/ Owns(p) /\ Goto(p, "release", "unlock")
       \/ ~Owns(p) /\ Goto(p, "release", AfterLock(p))
    /\ UNCHANGED <<procVars, lockVars, file, gitVars, landed>>

Unlock(p) ==
    /\ Goto(p, "unlock", AfterLock(p))
    /\ RemoveLock
    /\ UNCHANGED <<procVars, file, gitVars, landed>>

-----------------------------------------------------------------------------
(* Publish, none of it under the lock.  The commit stages the whole tree,   *)
(* which also concludes a merge that was left in progress.  After it the    *)
(* command ends or, having changed something, snapshots and writes again.   *)
Commit(p) ==
    /\ \/ /\ file = head /\ merging = {}
          /\ Goto(p, "commit", "pulled") \/ Goto(p, "commit", "idle")
          /\ UNCHANGED gitVars
       \/ /\ ~(file = head /\ merging = {})
          /\ Goto(p, "commit", "push")
          /\ head' = file
          /\ branch' = "ahead"
          /\ incoming' = incoming \ merging
          /\ merging' = {}
          /\ UNCHANGED made
    /\ UNCHANGED <<procVars, lockVars, file, landed>>

(* A push lands when the clone contains everything the remote has.  A       *)
(* rejected first push is reconciled; a rejected second one, and a remote   *)
(* that cannot be reached (for the reconcile either), end the run.          *)
Push(p) ==
    /\ tries' = [tries EXCEPT ![p] = @ + 1]
    /\ \/ /\ incoming = {}
          /\ Goto(p, "push", "pulled") \/ Goto(p, "push", "idle")
          /\ branch' = "level"
       \/ /\ incoming # {} /\ tries[p] = 0
          /\ Goto(p, "push", "reconcile")
          /\ UNCHANGED branch
       \/ /\ Goto(p, "push", "idle")
          /\ UNCHANGED branch
    /\ UNCHANGED <<op, base, draft, won, lockVars, file, head, incoming, merging,
                   made, landed>>

(* reconcile: FetchMerge, outside the lock.  git refuses it over a dirty    *)
(* file or an unfinished merge; a real conflict leaves the merge in         *)
(* progress and ends the run.                                               *)
Reconcile(p) ==
    \/ /\ file = head /\ merging = {}
       /\ Goto(p, "reconcile", "push")
       /\ file' = FactsOf(head) \cup incoming
       /\ head' = file'
       /\ incoming' = {}
       /\ UNCHANGED <<procVars, lockVars, branch, merging, made, landed>>
    \/ /\ file = head /\ merging = {}
       /\ Goto(p, "reconcile", "idle")
       /\ merging' = incoming
       /\ UNCHANGED <<procVars, lockVars, file, head, branch, incoming, made,
                      landed>>
    \/ /\ ~(file = head /\ merging = {})
       /\ Goto(p, "reconcile", "idle")
       /\ UNCHANGED <<procVars, lockVars, file, gitVars, landed>>

-----------------------------------------------------------------------------
(* The environment: an edit of this machine's JSON pushed from elsewhere,   *)
(* the passing of two minutes, a crash.                                     *)
HandEdit(e) ==
    /\ e \notin made
    /\ made' = made \cup {e}
    /\ incoming' = incoming \cup {e}
    /\ UNCHANGED <<pc, procVars, lockVars, file, head, branch, merging, landed>>

Age ==
    /\ LockExists /\ age = "fresh"
    /\ maker \in Sleepers \/ pc[maker] = "dead"
    /\ age' = "stale"
    /\ UNCHANGED <<pc, procVars, maker, token, file, gitVars, landed>>

Crash(p) ==
    /\ p \in Crashable
    /\ pc[p] \notin {"idle", "dead"}
    /\ pc' = [pc EXCEPT ![p] = "dead"]
    /\ UNCHANGED <<procVars, lockVars, file, gitVars, landed>>

-----------------------------------------------------------------------------
LockStep(p) == Mkdir(p) \/ WriteToken(p) \/ TokenFails(p) \/ Cleanup(p)
                 \/ SeesStale(p) \/ SleepAndRetry(p) \/ DeadlinePasses(p)
                 \/ BreakStale(p) \/ ReadOwner(p) \/ Unlock(p)
InsideStep(p) == CompareDigest(p) \/ StillHeld(p) \/ Rename(p) \/ FastForward(p)
PublishStep(p) == Commit(p) \/ Push(p) \/ Reconcile(p)
RunStep(p) == BeginPull(p) \/ Load(p) \/ LockStep(p) \/ InsideStep(p) \/ PublishStep(p)

Next ==
    \/ \E p \in Procs : RunStep(p) \/ Crash(p)
    \/ \E e \in Edits : HandEdit(e)
    \/ Age

Spec == Init /\ [][Next]_vars

(* A process that runs keeps taking steps, runs are started again (the      *)
(* scheduled sync), and time passes.                                        *)
FairSpec == Spec /\ (\A p \in Procs : WF_vars(RunStep(p))) /\ WF_vars(Age)

-----------------------------------------------------------------------------
(* What a locked step reported as saved is still in the file: a Write that  *)
(* returned nil, a Pull that fast-forwarded.                                *)
LockedUpdatesSurvive == landed \subseteq FactsOf(file)

(* The lock directory a dead process left behind does not stay: every later *)
(* run would time out on it.                                                *)
DeadHolder == LockExists /\ pc[maker] = "dead"
DeadLockIsBroken == DeadHolder ~> ~DeadHolder

(* Write is an atomic compare-and-replace: its rename is the replacement,   *)
(* Load the look.                                                           *)
CAS == INSTANCE StoreCAS WITH view <- base, saved <- landed
ImplementsCAS == CAS!Spec
=============================================================================
