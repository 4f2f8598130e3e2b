# RigSmith in TLA+

RigSmith is a Go monorepo of command-line tools: `rig` (a build-tool launcher),
`changerig` and `shiprig` (changesets, versions, releases), and three tools that
keep a person's machines in step through a shared git repository: `clauderig`
(Claude Code sessions and settings), `codexrig` (the same for Codex) and
`brewrig` (Homebrew packages). This directory models the part of it that tests
reach least: several processes and several machines that read, merge, rewrite
and publish shared state, and that may be killed, refused or interrupted at any
step; the release of a repository's packages, which has to survive the same; and the
directories of upstream projects that `rig stack` keeps beside one's own work.

Contents:

1. [Inventory](#1-inventory)
2. [Modules](#2-modules-and-how-they-correspond-to-the-code)
3. [What the runs check](#3-what-the-runs-check)
4. [Fairness](#4-fairness)
5. [What is proved](#5-what-is-proved)
6. [What the model checker found](#6-what-the-model-checker-found)
7. [Abstractions and bounds](#7-abstractions-and-bounds)
8. [What is not modelled, and the plan](#8-what-is-not-modelled-and-the-plan)

To check a run: `tlc -config StoreWrite_cas.cfg MCStoreWrite`. To check the
proofs of a module: `tlapm StoreWriteProofs.tla`. `PROJECT.json` lists every run
with its module, and maps every definition to the lines it translates.

## 1. Inventory

### brewrig: `src/internal/brewrig`

| part | state | operations | correct when |
| --- | --- | --- | --- |
| `store` | one git clone; `machines/<machine>.json`; the lock directory `machines/.lock` with a token in it; a digest of what was last read | Pull, Load, Write, Publish (commit, push, reconcile, push again) | no update reported as saved is lost; a dead holder's lock does not stay |
| `inventory`, `engine`, `plan` | none: they compute what a machine publishes from what brew says, and what it should install or offer to remove from what everybody publishes | Snapshot, Retire, Build, Apply, ApplyRemovals | one verdict per package, retirements are real, a decision to keep sticks, a removal is not undone by itself |
| `commands` | brew's own database, the plan of the command under way | init, sync, apply, skip, update (status and doctor read) | machines that keep running agree |
| `config`, `brew` | a JSON file; the brew executable | load, save; info, install, uninstall, upgrade | (input and output) |

The hard part: `Write` is a compare-and-replace built out of a directory lock
that may be broken by age, a digest, a re-check of the token and a rename, and
Publish works outside that lock. Above it, machines make decisions from
other machines' copies that are stale by minutes or days.

### clauderig: `src/internal/clauderig`

| part | state | operations | correct when |
| --- | --- | --- | --- |
| `service`, `commands/synchook.go`, `commands/sync.go`, `commands/pull.go` | the staging clone: HEAD, working tree, a merge in progress; `.sync.lock`; a journal file that is tracked by git | Sync (repair, capture, commit, push, reconcile), Pull (repair, fast-forward, reconcile) | nothing captured is lost, everything committed is published in the end, no conflict markers are published |
| history maintenance: `service/publish.go`, `commands/repo.go`, `ui/bridge/repo.go`, `core/gitrepo/squash*.go` | the branch and its remote | automatic fold, `repo prune`, the desktop window's prune | a rewrite drops nobody's work |
| `engine`: capture | the staging tree; `.stage-clock`, `.redaction-state` and `.audit-cache`, which one run leaves for the next | Sync: walk, copy, prune, sweep, audit | a copy that is left alone is current and clean; what was deleted on purpose stays deleted |
| `engine`: restore; `manifest`, `contents`, `allowlist` | Claude's own files | Restore, Doctor | (file formats, path mapping) |
| `transcript` | chunk files and their index; the storage mode | Write, ConvertTree, Clean; Open, Materialize | an index never names a missing chunk; a reader gets one snapshot or an error |
| `merge`, `mergepolicy`, `journal`, `ledger` | tracked files | a policy per kind of file; append | a merge keeps both sides' records |
| `account`, `commands/account.go` | the live credential and the profile block of `.claude.json`; a store per account and an active pointer; Claude Code's two lock directories | switch, add, remove | no token is lost or filed under another account; the login never changes under Claude Code's refresh |
| `sessions`, `mover`, `desktop`, `hooks`, `guard`, `doctor`, `mcp`, `tui`, ... | Claude's own files, settings | list, rename, archive, install hooks, report | (file formats, presentation) |

The hard part: hooks start syncs and pulls from every Claude session at once,
several machines push to one branch, a merge may be left half done, and the
history is rewritten now and then. `sync` holds `.sync.lock`; `pull`, `repo
prune` and the desktop window's prune do not. Below it, a capture decides from
mtimes and sizes what it need not read, while sessions write, and readers of the
staged transcripts share no lock with it. An account switch moves two files and a
pointer that Claude Code reads and writes too.

### codexrig: `src/internal/codexrig`

The same architecture for Codex, in a code base of its own: `service`,
`commands/synclock.go` (a lock that polls until a deadline), `engine`,
`rolloutstore` (the chunk store), `account`, `appserver` and the rest.

### shiprig, changerig and `core`

| part | state | operations | correct when |
| --- | --- | --- | --- |
| `core/planner` | none: changesets and packages in, a release plan out | Plan: cascade and group coordination to a fixpoint | it ends, no dependent is left out of range, groups agree, nobody is released without need |
| `internal/changerig/commands/version.go` | manifests, changesets, a file transaction | version | all of a plan is written or none of it |
| `internal/shiprig/pipeline`, `cli/resume.go`, `cli/release.go`, `publish.go`, `tag.go` | the step a run is at; the resume file; tags, registries, the forge | Run: hooks, conditions, gates, actions, resume | no step runs after a failed one; a resume leaves out nothing and repeats nothing |
| `internal/shiprig/cli`, `forge`; `internal/changerig/commands` | files of the repository, HTTP APIs | the commands | (input and output) |
| `core/prestate`, `core/versionstate` | the `pre/` directory, a version file | move, restore | a failed move is undone |
| `core/ecosystem`, `plugin`, `changeset`, `changelog`, `semver`, `config` | none | parse, format, compare | (text processing) |
| `core/gitrepo`, `core/gitutil` | git's | wrappers of git commands | modelled where the modules below use them |

### rig and the desktop window

| part | state | operations | correct when |
| --- | --- | --- | --- |
| `internal/rig/cli/stack*.go`: `rig stack` | a repository with one directory per member, each an upstream project plus what was changed in it here; a manifest with each member's pin, cursor and last proposal; `refs/rigsmith/*`; branches of the fork; the upstream | init, pull, propose, push, rm, add, seed | no unforced command takes the only copy of work; the cursor says what the directory holds; nothing that is sent takes back what upstream has |
| `internal/rig/cli`: the rest | none | starts build tools, keeps worktrees | (process start, display) |
| `ui/bridge`, `ui/` | that of the services | calls the clauderig and codexrig services for a window | (presentation) |

The hard part of `rig stack`: a command makes a merge, a push, a ref, a manifest
and a commit one after the other and may stop behind any of them; a merge cannot
move a directory backwards, so that the code has to tell from history whether to
merge, to replace or to do nothing; and conflicts are finished by hand, under
whatever subject the person gives the commit.

### How the parts interact

* A process reaches shared state only through files: the lock files, the
  clone, the published JSON, Claude's own files. Nothing is shared in memory
  between two commands.
* Machines interact only through `git push` and `git fetch` on one branch. A
  push is the only compare-and-swap in the system: it fails unless the clone
  contains what the remote has, except a force-push (never fails) and a leased
  one (fails unless the remote is where it was seen).
* Hooks and schedules start commands: the Stop and SessionEnd hooks start
  `clauderig sync`; SessionStart starts `clauderig pull`; a schedule or a
  person starts `brewrig sync`.
* The desktop window calls the same services in its own process.

The hazards that follow from this are listed in `PROJECT.json`, each at the
line where it bites, with the property that would notice.

## 2. Modules, and how they correspond to the code

| module | what it is | extends |
| --- | --- | --- |
| `StoreCAS` | what the brewrig store promises: an atomic compare-and-replace | |
| `StoreWrite` | several processes on one clone, system call by system call | instantiates `StoreCAS` |
| `BrewPlan` | the inventory and plan operators | |
| `BrewSync` | the brewrig commands of several machines | `BrewPlan` |
| `ClaudeSync` | clauderig's sync, pull and prunes: processes, machines, one remote | |
| `AccountSwitch` | `clauderig account switch`, `add` and `remove`, with Claude Code beside them | |
| `StagingRun` | the captures of one machine, run after run | |
| `SnapshotCell` | what the transcript store promises: a cell of snapshots | |
| `ChunkStore` | one staged transcript, its chunks, the sync that changes them and its readers | instantiates `SnapshotCell` |
| `ReleasePlan` | the planner: one action per pass | |
| `ReleaseRun` | release runs and their resumption around that planner | `ReleasePlan` |
| `Stackspace` | one member of a stackspace, its upstream and its fork | |
| `StoreWriteProofs`, `BrewSyncProofs`, `ClaudeSyncProofs`, `AccountSwitchProofs`, `StagingRunProofs`, `ChunkStoreProofs`, `ReleaseRunProofs`, `StackspaceProofs` | theorems | the module they are about, `TLAPS`, some a theorem module of the library |
| `MCStoreWrite`, `MCBrewSync`, `MCClaudeSync`, `MCAccountSwitch`, `MCChunkStore`, `MCReleaseRun`, `MCStackspace` | symmetry and constants for TLC | the module they check |

How the modules fit together: `ReleaseRun` composes the planner with the
pipeline. `ClaudeSync`, `StagingRun` and `ChunkStore` are one program at three
scales: the sync of a clone, the capture inside it, the storage of one transcript
inside that; `ClaudeSync` shows when two syncs are in one clone, and the two
others assume that they are not. They are separate modules because each asks
about a state the others do not have.

Operators commented `mutant` are not part of the system: each is a definition
changed by a plausible bug, with which the property `PROJECT.json` pairs it with
fails.

### StoreWrite and StoreCAS (`internal/brewrig/store/store.go`)

A process runs Pull, Load, Write, Publish. `pc` says at which system call it is:

    idle -> mkdir -> token -> inside -> (held -> rename) -> release -> unlock
             |wait|                                     -> pulled | commit -> push -> reconcile -> push

`maker` is who created `machines/.lock`, `token` what its `owner` file says,
`age` whether its mtime is beyond `lockStale`. `file`, `head`, `incoming`,
`merging` are the machine's JSON file in the working tree, in the last commit,
in what the remote has and the clone lacks, and in a merge left unfinished.
Contents are sets of facts: a process adds the fact named after it, a hand edit
its own. `landed` is a history variable: what a locked step reported as saved.

`Mkdir`, `WriteToken`, `TokenFails`, `Cleanup`, `SeesStale`, `BreakStale`,
`SleepAndRetry`, `DeadlinePasses`, `ReadOwner`, `Unlock` are `lockMachines` and
the release it returns; `CompareDigest`, `StillHeld`, `Rename` are `Write`;
`FastForward` is the locked half of `Pull`; `Commit`, `Push`, `Reconcile` are
`Publish`. `Crash`, `Age` and `HandEdit` are the environment: which processes
may die (`Crashable`) or be suspended past two minutes (`Sleepers`) is a constant.

`StoreCAS` has two actions, `Look` and `Replace`; `StoreWrite` implements it
with the digest as the view and `landed` as what was saved: `Rename` is
`Replace`, `Load` is `Look`, every other step stutters.

### BrewPlan and BrewSync (`inventory`, `engine`, `plan`, `commands`)

`BrewPlan` has the pure functions, on inventories `[inst, ret, ack, opt]`:
install times of what was asked for, retirement and acknowledgement stamps, and
opt-outs. `Snapshot(b, prev, now)` is `engine.Snapshot`; `Installs` and
`Removals` are what `plan.Build` returns for one machine.

`BrewSync` runs them. Per machine: `brew` (what Homebrew has), `clone`
(the committed files of all machines, as this clone has them), `unpushed`,
`behind`, and the command under way (`pc`, `todo`, `offers`, `agreed`,
`changed`, `began`). `remote` is the shared repository. `Sync`, `Apply`, `Skip`
and `Update` start a command and include everything up to the first push
(pull, snapshot, write, commit); `Push`, `Reconcile`, `PushAgain` are
`Publish`; `InstallOne`, `Agree`, `Keep`, `Escape`, `RemoveOne`, `Finish` are
`apply`. People use `brew` directly (`BrewInstall`, `BrewUninstall`,
`BecomesDependency`). `removed` (when a person last removed a package here),
`wanted` (when anybody last asked for it) and `kept` (what was kept here in answer
to its last removal) are history variables: what people have decided, to compare
with what the program does.

### ClaudeSync (`service`, `commands`, `core/gitrepo`, `ui/bridge/repo.go`)

A process `p` works in the clone of its machine `Home[p]`, on the commands
`Runs[p]`. `pc` is where it is:

    sync:    lock -> token -> repair -> capture -> commit -> push -> maintain -> release -> unlock
    pull:    repair -> ff -> (reconcile -> resolve -> finish) -> release
    prune:   look -> fold -> lease -> release          (commands/repo.go)
    window:  fold -> force -> release                  (ui/bridge/repo.go)

and a rejected push goes `push -> reconcile -> resolve -> finish -> push`, a
repair `repair -> resolve -> finish -> capture`. Where a reconcile returns to is
`Returns`, where an error in it leads is `Fails`: in a repair the error is
swallowed or stops the sync, in a publish it ends the run.

Per machine: `head` (its history), `tree` (captured, not committed), `notes`
(journal records not committed), `merge` (in progress: `clean`, `conflicted`,
`hard`, that is one the policies decline, `resolved`), `maker` and `token` of
`.sync.lock`. A commit is a pair of a root and a fact; a history is a set of
commits; a fold gives all of them a new root, so that the histories of the
machines before and after it share nothing, and git refuses to merge them
(`Related`). `company` is a history variable: whether two commands were in one
clone at a time.

### AccountSwitch (`account`, `commands/account.go`)

A credential is a token, that is an account and a generation: the server accepts
the last generation it minted, a refresh mints the next and retires the one
before. So a token that is overwritten is a login that is lost, and a token that
is written back after a refresh is one that Claude Code will have refused.

    switch:   primary -> legacy -> load -> backup -> save -> check -> write -> block -> point
                                                               -> unlegacy -> unprimary
    refresh:  primary -> legacy -> reread -> renewed -> unlegacy -> unprimary
    add:      readBlock -> capture -> pointAdd           (no lock)

`Take`, `GiveUp`, `SeeStale`, `BreakLock`, `ReleaseLock` are `LockCredentials`:
mkdir of two directories in order, each broken when nobody has touched it for a
minute. `Load` to `Point` are `doSwitch`, one write each, each of which may fail:
a failed `os.WriteFile` may have truncated what it was writing, an atomic
replacement leaves the old file. `BeginAdd`, `ReadBlock`, `Capture`, `PointAdd`
are `captureCurrent` and what `add` does with it, `CaptureFails` and `PointAddFails`
its writes failing; `Remove` is one step. Claude
Code is external: `Expire`, `Renew`, `SaveRenewed` are a session's refresh, with
the re-read under the same locks; `LogIn` and `LogOut` happen between clauderig's
commands. `Crash` kills at any label, with what the interrupted write leaves.

`mishaps` is a history variable: what happened that the code does not undertake
to survive (a live holder's lock broken, a login as an untracked account, an add
in the middle of a switch, ...). Each property names the mishaps it excepts, and
section 6 says what they cost.

### StagingRun (`engine/sync.go`, `stageclock.go`, `auditcache.go`, `audit.go`)

    idle -> walk <-> copy
            walk -> sweep -> audit -> mark -> clock -> idle

A file is a version, a size, an mtime and a kind (`secret`: the audit would find
a credential in it). `Stamp` floors mtimes to the file system's tick. `Visit` is
the body of the walk for one file with its four outcomes: out of the window or
gone, unchanged, deferred, or to be copied; `CopyFile` reads what is there by then
and stamps it with the stat that `Visit` took; `Prune` is retention, `Sweep` the
scrub of copies without a source, `Audit` the scan with its cache, `Mark` and
`WriteClock` the records for the next run. `Write`, `Delete`, `Configure`, `Pass`
are the session, the user and the clock, at any point of a run. `Die` is a kill or
an error return, with a cut file where files are written in place. `lagging`,
`mishaps` and `blurred` are history variables; `blurred` has the mtimes under which a
file was rewritten to no greater length within a tick or between stat and copy.

### ChunkStore and SnapshotCell (`transcript/store.go`)

    idle -> chunk -> convert -> (chunk | gather) -> clean -> mode -> prune -> drop -> idle

`owner` is the transcript's own file, native or an index; `parts` the chunks
beside it, each absent, good or damaged. `CopyNative`, `CopyChunked`, `PutChunk`,
`PutIndex` are `Write`; `Convert`, `Gather`, `GatherFails`, `Replace` are
`ConvertTree` with the `Materialize` of a file onto itself; a sync converts to the
mode of the setting, or if that is unset to the one the tree records (`Chosen`); `Clean` removes one
chunk at a time; `Remove` and `RemoveChunks` are retention and the audit's
withdrawal. Readers (`Open`, `Load`, `LoadFails`, `Materialize`) take no lock:
they hold the index they opened and load its chunks one by one. `Die` is possible
between any two steps, `Damage` between syncs.

`SnapshotCell` has five actions: the value is put or dropped in one step, a reader
looks, and then returns what it saw or fails. In `ChunkStore`, `value` is the data
of `owner`, and every step that moves chunks stutters.

### ReleasePlan and ReleaseRun (`core/planner`, `shiprig`, `changerig`)

`ReleasePlan` runs `Plan` pass by pass: `BeginPlan` (modules from changesets, in
any order), `Cascade` (one sweep over the modules in the order they joined, while
it appends to that order), `CoordinateGroups` (linked, fixed, lockstep, the last
in any order because the code ranges over a map). A pass that changed something is
followed by another cascade. `Pull`, `Coordinate`, `HighestBump`, `Links`,
`Module` are the functions of those names or their bodies; `Visit`, `CoordinateGroup`
and `Joined` are the bodies of the loops, which are folds (`Cascade`,
`CoordinateGroups`, `Assemble`).

`ReleaseRun` is the release: `Start` computes which steps a run skips and applies
the resume guard (`NeverRan`); `Planning` and `SetVersion` to `VersionDone` are the
version step, module by module under its file transaction; `PlainStep`,
`PackageStep`, `Push` the steps behind it, package by package, each passing over
what is there already; `Stop` and `Finish` write the resume file (`Recorded`).
`PackageLate` is an upload that went through and was reported as failed,
`StepFails` any other failure, `AfterHookFails` one behind the last step, `Killed`
a kill, which records nothing. `Retry` is an operator who runs the release again,
`OtherRun` one who uses `--from`, `--to`, `--skip` or `--force`. `base`, `goal`,
`owed`, `mishaps` are history variables.

### Stackspace (`internal/rig/cli/stack*.go`)

A tree is a set of facts: revision `n` of upstream brings the fact `n`, work brings
facts of `Work`. `Merge3` is git's merge of such trees, `Conflict` its refusal. A
commit is the tree of the member's directory and the upstream revision it stands
on (`Rev`, `ForkCommit`); what the code asks of HEAD's history is in `took` (the
newest upstream revision in it), `kept` (the fork's commits in it) and `sync` (the
marker that `stackImportCommit` finds). `head` and `disk` are the directory and the
manifest as committed and as they lie in the worktree.

`PullOne` is `stackPullOne`, of `Pull` and of `Import` (init): a merge if the
target is new to HEAD, stopped on conflicts or not, and otherwise nothing, or a
replacement of the directory if nobody's work is in it (`Taken`, `Replaces`,
`MayReplace`). `Propose` does the first `n` of its `Effects`, `ProposeTrackOnly` and
`Push` likewise; `Remove`, `Add`, `Seed` are the commands of those names, the first
and last with the question what would be lost (`Known`, `Unsent`, `ProposedOnFork`,
`MayDrop`). `UpstreamMoves`, `BranchDeleted` and `Person` are the world outside. The
cuts name the places where a command may be killed or return an error. A pin names a
tag: `tags` says on which revision it is cut, `Recut` cuts it again, and `Tip` keeps to
the cursor while the pin is the one that was resolved, unless asked with --repin. Push's
refusal where it cannot tell its base from an ambiguous history is left out, so the
model pushes where the code may not. The manifest remembers that a proposal and that a
topic were recorded, which is what `ProposedOnFork` and `TopicMerged` ask for.

`made`, `sent` and `gone` are history variables: work committed here, that reached
the fork or upstream, that a person gave up. `slipped` says that one of the cases
has happened in which the code does not keep the cursor true (section 6).

## 3. What the runs check

| run | instance | properties | what it shows |
| --- | --- | --- | --- |
| `store_cas` | 3 processes, nobody dies | `LockedUpdatesSurvive`, `ImplementsCAS` | Write under the lock is an atomic compare-and-replace |
| `store_faults` | 2 processes, one may die, one may sleep; a hand edit; fair | `DeadLockIsBroken` | a dead holder's lock never stays, even where live holders' locks are broken too |
| `brew_safety` | 2 machines, 2 commands at a time, upgrades, a fault, 2 deeds | `OneVerdictEach`, `RetirementIsReal`, `KeepSticks`, `NoRollback` | what is published is consistent, real, and nobody else's |
| `brew_turns` | 2 machines that take turns, 3 deeds, a fault | `NoSilentReinstall` | a removal is not undone unless somebody asks |
| `brew_settles` | 2 machines, fair | `Settles` | once people stop, the machines agree |
| `claude_alone` | 2 machines, one process each, all four commands, 2 captures, a fold, a fault; fair | `MarkersNeedCompany`, `ClonesKeepTheirWork`, `OnlyForceDrops`, `WorkIsShared` | with one command at a time in each clone: no markers, no work lost from clone or remote, everything committed is published |
| `claude_wedged` | 2 machines, one process each, a fault; fair | `MergesAreSettled` | **violated**: a merge that no later run can finish |
| `account_safety` | 2 switches, one of which adds too and may be killed, a session that refreshes, 2 accounts, 4 commands | `OneAtATime`, `NoTokenLost`, `StoreHoldsItsOwn`, `PairAgrees`, `LiveStaysCurrent` | one login at a time is changed by one process, and no step of that loses or misfiles a token |
| `staging_safety` | one transcript, runs killed anywhere, a setting that changes, coarse mtimes | `TypeOK`, `MarkerIsTrue`, `PassedIsClean`, `SkipsAreSound`, `KeepsACopy` | what a capture does not read again is current and clean |
| `chunks_store` | one transcript of three chunks, a writer killed anywhere, a reader; fair | `IndexComplete`, `ReplacedWhole`, `FailureMeansChange`, `ImplementsCell`, `ConversionCompletes` | readers without a lock see whole snapshots, and conversions complete |
| `release_safety` | about 6,600 workspaces of four packages released once, three released twice with trouble; fair | `TypeOK`, `PlanIsLeast`, `BumpedOnce`, `TreeAgrees`, `ResumeCoversOwed`, `OutwardOrder`, `RetriesFinish` | the plan releases no package without need, it is written once, and a resume leaves out nothing |
| `stack_safety` | one member, 2 pieces of work, 2 upstream revisions, 2 mishaps (a command cut short, a pin edited, a tag cut again, a member removed or seeded anew) | `WorkLeavesFirst`, `CursorTellsTheTruth`, `NothingReverted` | no unforced command takes the only copy of work, and the cursor says what is there |

Each module has a type invariant, `TypeOK`. Where it is proved for all values of the
constants (section 5) the runs do not check it again, but for `StagingRun`'s.

The properties, in words:

* Store. `LockedUpdatesSurvive`: a fact that a `Write` or a locked `Pull` reported
  as saved is still in the file. `DeadLockIsBroken`: a lock whose maker is dead
  does not stay. `ImplementsCAS`: the refinement of `StoreCAS`.
* Brew. `OneVerdictEach`: in every copy of every published file a package is at
  most one of installed, retired, opted out. `RetirementIsReal`: what is published
  as retired was removed there by a person. `KeepSticks`: who answered "keep" is
  not asked about the package again until somebody removes it anew. `NoRollback`: a published file changes
  only by its own machine's push. `NoSilentReinstall`: nothing is planned for
  installation where a person removed it after anybody last asked for it.
  `Settles`: eventually every machine's publication is current and its plan is
  empty for good, or a clone has diverged (see section 6).
* Claude. `MarkersNeedCompany`: conflict markers are published only if two
  commands were in one clone at a time. `OnlyForceDrops`: only a plain force-push
  takes a capture out of the remote. `ClonesKeepTheirWork`: no step removes a
  committed capture from a clone's history, and only an aborted merge an
  uncommitted one. `WorkIsShared`: what is committed gets published, by a later
  run if the first failed, unless the clone is unrelated to a folded remote or is
  stuck in a merge. `MergesAreSettled`: a merge in progress is settled in the end.
* Accounts. `OneAtATime`: no two of the switches and refreshes work on the login at
  once. `NoTokenLost`: the token an account needs is in a store, a backup, the live
  file or a session's hands. `StoreHoldsItsOwn`: what is stored for an account is
  that account's. `PairAgrees`: outside the two writes of a switch, token and
  profile name one account. `LiveStaysCurrent`: the live token is the one the
  server accepts.
* Captures. `MarkerIsTrue`: a redaction marker that says "on" is about copies that
  were all scrubbed. `PassedIsClean`: a run that passes its audit leaves no
  credential in the staging tree, but for a copy under an mtime in `blurred` (section 6). `SkipsAreSound`: a file left alone has its
  current bytes staged, but for what mtimes that were not trusted cost.
  `KeepsACopy`: retention takes no copy whose source is still inside the window,
  deferred or not.
* Chunks. `IndexComplete`: an index names chunks that are there. `ReplacedWhole`: a
  new index names good chunks, and a conversion leaves the value as it was.
  `FailureMeansChange`: a reader fails only because its file was replaced or
  removed or a chunk is damaged. `ImplementsCell`: the refinement of
  `SnapshotCell`. `ConversionCompletes`: a conversion that was cut short is
  finished by later runs, if the setting and the disk let it.
* Releases. `PlanIsLeast`: the releasing packages are the least set that is closed under the
  cascade and the groups at the final versions; that definition speaks of sets, with no
  passes and no order. It excepts a tree that a kill between two writes left half
  versioned (section 6). `BumpedOnce`: however often the version step is tried, a package
  moves by its planned bump once. `TreeAgrees`: after it, every range admits its
  dependency's version and a group has one version. Both except such a kill and a
  changeset that could not be removed.
  `ResumeCoversOwed`: the resume point is never behind a step that is owed.
  `OutwardOrder`: a tag is on a commit with its version, a pushed tag's package is
  published, a forge release has a pushed tag. `RetriesFinish`: planning ends, and a
  release that is retried gets out.
* Stack. `WorkLeavesFirst`: work committed in a member's directory is still there, or
  has reached the fork or upstream, unless a person gave it up. `CursorTellsTheTruth`:
  where a pull has nothing to do, the directory holds the facts of the cursor's
  revision, no fewer and no newer. `NothingReverted`: no proposal lacks a fact of the
  revision it is based on, and no push takes one out of upstream. The last two except
  what `slipped` names.

`CHECK_DEADLOCK` is off in `account_safety`, `staging_safety`, `release_safety` and
`stack_safety`: their counters of commands, time, releases and mishaps run out, and a
release that is out is over. It is on in the others: in `StoreWrite` and `ChunkStore` a process that has
returned starts over, in `BrewSync` and `ClaudeSync` a machine can always start a
command.

## 4. Fairness

* `StoreWrite`: weak fairness of `RunStep(p)`, the steps of a process that is
  running or may start again, because a process that is scheduled goes on and
  brewrig is run again and again (`store.go:294` speaks of "a scheduled sync and
  a manual" one); weak fairness of `Age`, because time passes. A dead process
  takes no step.
* `BrewSync`: weak fairness of `Step(m)` (a command that was started goes on,
  brew returns and a person at a prompt answers) and of `Tick`; strong fairness
  of `Sync(m)` and `Apply(m, TRUE, TRUE)`: every machine keeps running both, and
  strong because either is only possible between other commands. Nothing is
  assumed of people: deeds are bounded, not fair.
* `ClaudeSync`: weak fairness of `Continue(p)` and strong fairness of
  `StartSync(p)`: Stop and SessionEnd hooks start a sync again and again; strong
  because a machine busy with a pull or prune cannot start one in that process.
  Kills, refusals and failed pushes are bounded by `MaxFaults`. A lock that is
  taken makes a sync give up (`Judge`), it does not make it wait.
* `ChunkStore`: weak fairness of `SyncStep`: hooks start syncs again and again and
  a sync that runs goes on. Nothing is assumed of readers, kills or damage.
* `ReleaseRun`: `GoesOn`, which is weak fairness of the program's own steps
  (`Works`) written without ENABLED: a live run is over in the end or moves again
  and again; and weak fairness of `Retry`: an operator runs a release again that is
  not out. Failures and kills are bounded.

`AccountSwitch`, `StagingRun` and `Stackspace` have safety properties only: a person
starts each of their commands, and nobody has to.

## 5. What is proved

By TLAPS, for every value of the constants that meets the stated assumptions
(`StoreAssumption`, `PlanAssumption`, `SyncAssumption`, `ClaudeAssumption`,
`AccountAssumption`, `StagingAssumption`, `ChunkAssumption`, `OrderAssumption`,
`LaterAssumption`, `PackageAssumption`, `WorkspaceAssumption`, `EdgeAssumption`,
`FileAssumption`, `DisjointAssumption`, `StackAssumption`, all evaluated by the runs):

| theorem | statement | argument |
| --- | --- | --- |
| `StoreWriteProofs!TypeCorrect` | `Spec => []TypeOK` | `Typed` adds how many pushes a Publish has made at each label: without it the counter's bound is not inductive |
| `NoLockedUpdateLost` | while nobody dies or sleeps past `lockStale`, `Spec => []LockedUpdatesSurvive` | `SafeInv` = `Typed` /\ `LockInv` /\ `DraftInv` /\ `KeepInv` |
| `StoreImplementsCAS` | with no hand edit either, `Spec => ImplementsCAS` | `SafeInv` with `FreshInv`; each step is a `Look`, a `Replace` or a stutter |
| `BrewSyncProofs!TypeCorrect` | `Spec => []TypeOK` | one lemma per action, types of the plan operators as lemmas |
| `PublishedFilesAreOnesOwn` | `Spec => NoRollback` | `Fetched`: a clone that is not behind holds exactly the remote's copies of the others |
| `VerdictsNeverContradict` | `Spec => []OneVerdictEach` | `Snapshot` returns one verdict if it was given one (`SnapshotVerdict`), and so do the opt-out and the acknowledgement (`DerivedVerdict`) |
| `RetirementsAreReal` | `Spec => []RetirementIsReal` | `RealInv`: besides the property, what was published as installed and is gone from brew was removed by a person, who is remembered |
| `KeepHolds` | `Spec => []KeepSticks` | `KeptInv` |
| `RemovalIsRespected` | with `TakeTurns`, `MaxRunning = 1` and `~Upgrades`, `Spec => NoSilentReinstall` | `TurnInv` and `AllLeft` |
| `ClaudeSyncProofs!TypeCorrect` | `Spec => []TypeOK` | `Rooted`: no clone is without a commit, without which what a capture adds has no root |
| `ClonesKeep` | `Spec => ClonesKeepTheirWork` | `HeadGrows` and `WorkStays`: action by action, no fact leaves `head`, no capture leaves `tree` but into `head` or with an abort |
| `OnlyForce` | `Spec => OnlyForceDrops` | `Seen`: while a prune is between its look and its push, its clone still contains what it saw; `Places`: only a prune gets to that push |
| `MarkersStayHome` | `Spec => []MarkersNeedCompany` | `Apart` |
| `AccountSwitchProofs!TypeCorrect` | `Spec => []TypeOK` | `Registers`: at each label the registers that are used there hold what is used |
| `OneWorksAtATime` | `Spec => []OneAtATime` | `LockInv`: unless a lock was taken over, whoever is inside has both directories |
| `NeverAnothersToken` | `Spec => []StoreHoldsItsOwn` | `Named` |
| `PairsAgree` | `Spec => []PairAgrees` | `Named` |
| `TokensSurvive` | `Spec => []NoTokenLost` | `KeptInv` |
| `NextRefreshSucceeds` | `Spec => []LiveStaysCurrent` | `RecentInv` |
| `StagingRunProofs!TypeCorrect` | `Spec => []TypeOK` | per action |
| `MarkerHolds` | `Spec => []MarkerIsTrue` | `MarkerInv` |
| `PassedRunsAreClean` | `Spec => []PassedIsClean` | `VerdictInv` and `PassInv` |
| `SkipsHold` | `Spec => SkipsAreSound` | `SkipInv` |
| `Retention` | `Spec => KeepsACopy` | `KeepInv` |
| `ChunkStoreProofs!TypeCorrect` | `Spec => []TypeOK` | per action |
| `IndexStaysComplete` | `Spec => []IndexComplete` | `Written`, `Gathered`, `Dropping`: what each label of the sync knows of the chunks |
| `NeverReplacedByParts` | `Spec => ReplacedWhole` | the same invariant |
| `ReadersFailForAReason` | `Spec => []FailureMeansChange` | the same invariant, and `NotBoth`: a reader that has failed has stopped reading |
| `ImplementsTheCell` | `Spec => ImplementsCell` | the invariant; each step is a `Put`, a `Drop`, a `Look`, a `Return`, a `Fail` or a stutter |
| `ReleaseRunProofs!ResumePointHolds` | `Spec => []ResumeCoversOwed` | `ResumeInv`, for any order of the steps |
| `OutsideInOrder` | in the default order of the steps, `Spec => []OutwardOrder` | `OutInv` |
| `TypesHold` | `Spec => []TypeOK` | `RunnerInv`: of the run, the passes and the transaction |
| `LeastPlan` | with `IgnoredApart`, `Spec => []PlanIsLeast` | `Quiet`: a plan that both passes leave alone is what the tree needs (`QuietNeeded`), if no range is ahead, which `VersionsInv` says |
| `NeverBumpedTwice` | with `IgnoredApart`, `Spec => []BumpedOnce` | `GoalInv` and `WriteInv`: the tree is on its way to its fate, which is the same for every try |
| `TreeHolds` | with `IgnoredApart`, `Spec => []TreeAgrees` | `AdmitInv` and `GroupInv`: a fate admits its ranges (`FateAdmits`) and leaves groups together (`FateGroups`) |
| `StackspaceProofs!StackTyped` | `Spec => []TypeOK` | `StackInv` |
| `WorkIsNotLost` | `Spec => []WorkLeavesFirst` | `StackInv`: every commit the code may compare with holds sent work only |
| `CursorIsTrue` | `Spec => []CursorTellsTheTruth` | `FactsInv` |
| `NothingTakenBack` | `Spec => []NothingReverted` | `FactsInv` |

**Why `LockedUpdatesSurvive` needs `SafeInv`.** The property speaks about the
file after a rename. A rename writes the draft, and the draft was computed from
what `Load` read earlier, so what must be known is that nothing was saved since.
`LockInv` says that whoever is between its mkdir and its release made the lock,
so that there is one of them; `DraftInv` that a draft contains what its process
saw and its own fact; `KeepInv` that between the digest comparison and the
rename every saved fact is in the base. None is inductive alone: `KeepInv` needs
`LockInv` (another process inside would save), and the property needs both. The
hypothesis `NeverBroken` cannot be dropped: two breakers of one stale lock violate
the property (section 6). Hand edits and Publish are not excluded.

**Why `MarkersNeedCompany` needs `Apart`.** Markers get into a history when
`git add -A` commits over an undecided merge. `Apart` says that while `company`
is `"apart"`: in each clone at most one process is past its entry (`Exclusive`); a
process at `capture` or `commit` has a settled merge or none under it
(`Settled`), because it has come through `Repair`; and neither a head, a remote
nor a MERGE_HEAD is marked (`Unmarked`). `Settled` is what RepairMerge is for, and
it is preserved only because of `Exclusive`: a second process could start a
merge under it. Kills are not excluded.

**Why `StoreHoldsItsOwn` and `PairAgrees` need `Named`.** A switch saves the live
credential under the pointer it read, so the property of the stores depends on the
pointer, the token and the profile naming one account when it does. `Named` says
that they do, except at the two labels between the three writes; that nobody adds
while somebody is inside; and, process by process (`Carries`), what the registers
know: a credential read under the lock is still the live one when it is written
over, and a rollback puts back the account the profile still names. It holds as
long as none of the mishaps in `Bad` has happened: a takeover, an add during a
switch, a login as an untracked account, a switch cut off between its writes, a
rollback that failed. The model checker shows what each of these costs.

**Why `WorkLeavesFirst` needs `StackInv`.** A command drops or replaces the
directory when it equals something: the tree last imported, or a ref that a proposal
left. That is safe only if whatever it may equal has been sent. So `StackInv` says,
of every commit the state knows (upstream's revisions, the fork's branches, `kept`,
`sync`, the refs, a merge that stopped), that its work is in `sent` and that it stands
on a revision that exists; and that `head` and `disk` each hold all of `made` that was
neither sent nor given up, `disk` too because a person may commit it. A merge with
such a commit then takes nothing of the directory's own work (`MergeParts`,
`BaseSent`): what the base had was sent. The mutant that measures against the merge's
own tree (`MergedTree`) breaks exactly this. Nothing is assumed of `slipped`: the
theorem covers also the cases that the other two properties except.

**Why `CursorTellsTheTruth` and `NothingReverted` need `FactsInv`.** Both compare the
directory with a revision that was imported long ago, through merges, replacements and
proposals since. `FactsInv` says of every tree the state knows which revision's facts
it has: a tree of the fork those of the revision it stands on, the directory those of
the last marker (`PlaceEven`), an open merge's base those of the directory
(`OpenEven`), and the cursor names a revision with the facts there (`HeadEven`,
`DiskEven`), or lags where a merge waits for its commit. `StackInv` supplies which
revisions exist and that tags are cut on such. It holds until `slipped`: the last step of the proof is that a
state that has not slipped comes from one that has not.

**Why `KeepSticks` needs `KeptInv`.** An offer is made from what is published, and the
answer must outlast every push, merge and failure until then. `AnsweredEach` says, of
each package somebody kept: the answer is in the machine's own file, brew still
has the package (so that `Snapshot` does not drop the answer), no machine has a
removal that it has not published, and no copy of a file anywhere retires the package
at a later time than the answer. The last part needs the one before: a removal that is
published later gets a later stamp. `OneOfferEach` makes the answer's stamp the only
one there is to answer.

**Why `NoSilentReinstall` needs `TurnInv` and `AllLeft`.** `TurnInv` says what one
command at a time means: who runs has fetched everything that is published, has no
plan outside its work, has pushed its file or holds it back, and between its snapshot
and its plan the file says what brew has; and no stamp is in the future. `AllLeft`
says, of each package that was removed on a machine after anybody last asked for it:
it is not in brew there and not in the plan; and its file still shows it as installed
(the next snapshot retires it as of then), or opts out of it, or retires it at a time
no published install is later than (`Stands`), unless the clone has diverged and plans
nothing any more. The difficulty is an install elsewhere from a plan that did not
know of the removal: it is later than the retirement, and would revoke it. `Stands` says
that its machine publishes it before the remover can publish the retirement, so that
the remover's push is refused and its reconcile meets it, or that the retirement was
published first and the other's plan respects it. Each hypothesis excludes one of
the ways to break it that section 6 names: a second command, a person at brew
during a command, an upgrade.

**Why `NoTokenLost` needs `KeptInv`, and `LiveStaysCurrent` `RecentInv`.** A token is
lost by a write over its only copy, so it must be known that there was another.
`KeptInv` says: the last token of each account is live, backed up or in the hands of
the session that renewed it, or stored under its account while that is not the active
one, whose store the next switch overwrites (`Findable`); nothing holds a token that
is yet to be minted (`Past`); and a process that is past its backup knows that the
login it saw is backed up and still the live one (`Knows`). `RecentInv` adds,
while nothing went wrong, that every stored token a switch may load is its account's
last, unless the account is live. Both lean on `Registers` and `OneAtATime`.

**Why `StagingRun`'s properties need more than a run's registers.** The marker is written
at the end of a run about files that may change at any point of it. `MarkerInv` is
what the run owes by then, label by label: behind the walk what is still raw is out of
the window, which retention takes, and the sweep scrubs what the walk did not visit.
`VerdictInv` is about the audit's cache, which knows a copy by size and mtime: a
verdict that matches a copy is about its bytes, because the live file has become
longer or newer since any other (`Agrees`), unless the mtime is in `blurred`. `SkipInv` says of a copy that is stale and
does not look so that its mtime is one the next run's clock does not trust, and that
the run under way is still to look at it or does not trust it either; `KeepInv`, of each
file the walk is past, why its copy need not be kept or is new. `TimeInv` (no mtime or
record is ahead of the clock) is under all of them.

**Why `ResumeCoversOwed` needs `ResumeInv`, and `OutwardOrder` its parts.** The resume file
is written when a run ends and read when another starts, with any number of narrowed,
cut-short and failed runs between. `ResumeInv` says, of every step that is owed: a run
under way has it ahead or ends before it, and where it will not come by it, the file
names a step no later (`Covered`). `VersionInv` is why the version step may be skipped
when there is nothing to version: then it is not owed. `OutwardOrder` is about the things
that outlive the runs; `HeadInv`, `RegistryInv`, `TagInv` and `PushInv` say of each that
whatever is missing there has its step, and inside the step its package, still to
come, so that an earlier step cannot have passed over what a later one relies on
(`OutInv`). That is so for the order of the steps that the program has by default
(`DefaultOrdered`); a configured order that pushes before it publishes does not have
the property.

**Why the planner's theorems need a fate.** `PlanIsLeast`, `BumpedOnce` and `TreeAgrees`
compare what the passes return, or what several tries of them have written, and the
passes are folds over lists that grow while they are walked. So the proof first says
where a plan must end, without the passes. A set of packages `Answers` for a tree if it
has what the changesets ask for, every dependent whose range leaves a new version out,
and whole groups; `Final` is the version a package gets if it is in such a set, by its
own bump or its group's; `Needed` is what all such sets have in common; `Fate` and
`FateAts` are the versions and ranges to which that leads. The passes are tied to it in
three steps:

* A fold keeps what each of its steps keeps. `FoldLeft` is a `CHOOSE` of a recursive
  function in the library; that the function exists is shown position by position
  (`FoldExists`, `Climb`), and the fold's value is the end of a chain of steps
  (`FoldTyped`, `FoldValue`).
* Every module on the way is where it started or where its group takes it (`Fits`), and
  only what every answer has is ever released (`Bound`, in `GoodRel`). For a version that
  a module has halfway is between the tree's and `Final` (`ModParts`), and where it is out
  of a range that is not ahead of the tree (`Lags`), so is `Final`: no dependent is
  released for a version that does not last.
* A pass that changed nothing has nothing to do (`Cascaded`, `Coordinated`), for any
  order of the modules and the groups. A plan that both leave alone (`Quiet`) is
  therefore an answer, and as it is within all others, the least (`QuietNeeded`). It
  writes the fate, module by module (`QuietPlan`, `PlanFits`).

That is one plan. Over runs, `PlanInv` says that a finished plan takes the tree it was
made for to its fate, `WriteInv` that the tree is that many writes on its way (`Partly`),
`AdmitInv` that ranges admit their versions except in between, `WaitInv` that nothing is
written without changesets, `GoalInv` that the tree, or the copy that a rollback puts
back, is at the start of the release until its plan is written and at its goal
afterwards, and `GroupInv` that groups are together. A retry then has the same fate,
because it has the same tree and the same changesets.

`IgnoredApart` is a hypothesis: no range is for an ignored package, and none shares a
version file. The program refuses an ignored package that a published one, not ignored
itself, depends on other than for development (`SkippedDependents`, `partition.go:48-80`,
called at `version.go:144`); the rest of the hypothesis, about ignored, private and dev
dependents and about version files, a workspace may fail to meet, and then the theorems
do not hold (section 6). The instance of `release_safety` meets it (`IgnoredApartHere`
in `MCReleaseRun`). Within it, an ignored package may depend on others, be a member of
linked and fixed groups, and have changesets. `TypesHold` does without.

The next step of a run and the latest of several stamps are chosen from sets of
numbers; that the choice exists is the library's well-foundedness of `Nat`.

**Only model-checked.** All liveness (`DeadLockIsBroken`, `Settles`, `WorkIsShared`,
`ConversionCompletes`, `RetriesFinish`, and `MergesAreSettled`, which is violated):
temporal properties under fairness are out of the prover's reach. That the planner's
passes come to an end is of these (`RetriesFinish`): the theorems say what a plan is when
they do. Every invariant and every action property of the runs that are to pass, and both
refinements, are proved.

## 6. What the model checker found

One run is expected to be violated, against a sentence of the source:

* `claude_wedged` (`reconcile.go:66`): a failed push appends to the tracked
  journal; FinishMerge refuses to commit over that unstaged change; the merge
  stays, and each later repair is refused in the same way, so neither pull nor
  sync works until somebody resets the clone by hand.

Met while modelling, in the models or beside them, without a run of their own.

brewrig:

* Between `Stat` and `RemoveAll` of a stale lock another breaker may have broken it
  and taken it; the slower one removes the fresh lock, and both writers rename
  (`store.go:448`; the comment at `store.go:390` says the token makes breaking
  safe). `LockedUpdatesSurvive` fails as soon as a process is `Crashable`.
* `reconcile` merges into the working tree without the lock that `Pull` takes for
  the same merge, with the effect that `store.go:152` describes (`store.go:494`).
* The lock's release reads the token and then removes the directory; a holder
  suspended in between removes its successor's lock (`store.go:432`).
* A Publish with nothing to commit does not push what an earlier run failed to
  push, and reports success (`store.go:461-468`).
* A clone whose second push was refused has diverged, and every later `Pull` is
  ff-only and fails (`store.go:475-482`); `Settles` excepts it.
* `brewrig update` gives a package a new install time, later than another
  machine's retirement, which that revokes (`plan.go:199`); the design document
  says a reinstall revokes. `brew_turns` and `RemovalIsRespected` are without upgrades.
* An `apply` whose plan is older than a removal installs the package with a later
  time than the retirement (`apply.go:71`); they exclude that people use brew
  while a command runs. An apply that fails after Homebrew has changed and
  before it republishes leaves the others to plan against the old inventory.
* "Keep" is not for good, although apply says of what was kept that it "won't be
  offered again" (`apply.go:141`): a second machine that agrees to the same removal, or
  removed the package before the answer and publishes that after it, publishes a later
  stamp, which is "a separate decision" (`plan.go:142-150`), and the person is asked again. It takes
  three machines. `KeepSticks` therefore speaks of the last removal there was, and `kept`
  forgets an answer when somebody removes the package anew.

clauderig, sync:

* Pull takes no lock, so its conflicted merge may start between a sync's repair and
  its commit, which then publishes the markers (`pull.go:62`); hence the name of
  `MarkersNeedCompany`.
* `repo prune` says that other machines pick a folded history up on their next
  sync (`commands/repo.go:186-187`). SquashBefore gives it a parentless root, so
  that their merges are refused as unrelated (`Related`); for the same reason
  the advice after a failed lease, to run sync, cannot work. `WorkIsShared`
  excepts such clones (`Stuck`).
* The automatic fold and the desktop window force-push without a lease
  (`publish.go:132`, `ui/bridge/repo.go`), which drops from the remote what
  another machine pushed just before. It stays in that machine's clone.
* A `.sync.lock` that exists and is still empty counts as stale
  (`synchook.go:128-171`), so two syncs may run in one clone.
* Merges are `--no-ff`, so two machines with nothing new may still answer each
  other's merge commits with merge commits.

clauderig, captures:

* A transcript deferred, or refused by the audit, in a run that did not trust its
  mtime is trusted by the next run, whose clock is newer, and is then left alone for
  ever if it does not change (`stageclock.go:31-34` says "delayed, not skipped";
  `sync.go:833-836`). `SkipsAreSound` excepts a file that is `lagging` so.
* A run with redaction off that is killed, or whose marker cannot be written, leaves
  the marker at "on" beside raw copies (`sync.go:889`).
* A file that vanishes between the walk and its copy keeps its old staged copy in
  the run that is to scrub every copy, and the sweep has passed it by.
* Verdicts of the audit are cached by size and mtime, and no stage clock protects
  them (`auditcache.go:91`): a session of one size, audited clean, that is rewritten
  with a credential to that size within the same tick has the size and the mtime of
  the verdict. It is copied again, for the stage clock does not trust that mtime, but
  not read again by the audit, and the run passes. `PassedIsClean` excepts that file
  under that mtime and no other (`blurred`).
* A first run that dies has no clock and no marker.
* `coarseTick` is one second, and FAT's is two. Sweeping a copy without a source
  that is stored in chunks scrubs its index only (`sync.go:1062`); the audit catches
  that and withdraws the copy.

clauderig, accounts:

* Whatever ends a switch between the profile block and SetActive, or a login as
  another account without `add`, leaves the pointer behind the login. The next
  switch files the live credential under the pointer's account, which may overwrite
  the only token of that account (`account.go:1233`). The exceptions `cutoff` and
  `untracked` are these.
* Two switches to one account: the second has nothing displaced to save, and writes
  its stored token over a live one refreshed since (`again`).
* `add` reads credential and profile one after the other and without the locks, so
  that the profile may be another account's, or the credential one that was renewed or
  saved by a switch in between: stored last, it replaces the account's newer token by one
  that was retired (`misfiled`). An attempt to prove `NoTokenLost` led to the second.
* A takeover is noticed after SaveCredential, not before (`account.go:1246`).
* A failed profile write with no previous live credential, and a failed WriteLive
  that truncated, are not rolled back (`account.go:1267`, `livestore.go:50`).

Releases:

* A package in `ignore` that is linked to its own dependency keeps the bump the
  group gave it and moves, where the comment says that only its range does
  (`planner.go:374-387`, `76-80`).
* An ignored dependent is cascaded first and demoted last: its own dependents get
  ranges to a version that is not released, and as a member it makes a fixed group
  release.
* Outside `IgnoredApart`. The package that depends on an ignored one for development, is
  private, or is ignored itself, gets a range to a version that is computed and never
  written. The ranges of an ignored package are written together with its old version,
  for a package with a version file into that file, where the others of the file have
  just got their new one, or are about to (`version.go:462-477`, `dotnet.go:248`).
* A kill between two writes may leave a range ahead of its version. The plan of the next
  run then computes, halfway, a version below the range, out of it, and releases the
  dependent, although a group raises the version into the range in the end
  (`planner.go:279`). An attempt to prove `PlanIsLeast` led to it, and TLC confirmed it on
  three packages: `s` and `w` linked, `p` on `s` by a caret, `w` ahead of `s`, a major
  change of `s`; `PlanIsLeast` excepts it.
* Groups that overlap are not rejected, and with some of them Plan never ends
  (`DisjointAssumption`).
* A killed run records nothing, so that the next one resumes from an older record
  or from none; a global after hook that fails on a `--to` run records nothing
  either (`run.go:203`).
* What a run built is known to that process only (`built`): a resume behind the
  build signs nothing and releases without assets.
* A changeset that cannot be removed is a warning (`version.go:800`), and the next
  version step applies it again.
* Packages are published in the order of discovery, not of dependencies. Steps
  turned off in the plan editor do not count as narrowing the run, and `--local` is
  not recorded.

rig stack (the first four are what `slipped` excepts):

* A directory that was moved back by a pin, or dropped by `rm`, leaves newer commits
  of upstream in HEAD's history. If upstream has moved since, the next init or pull
  merges against a base that the directory no longer holds: what was in the base and
  was dropped stays out, the cursor is recorded all the same, and a propose or a push
  from there takes it out of upstream (`stack.go:1059`; `Slips`).
* A `pull --repin` that is killed after its merge, or stops on a conflict, leaves the
  old pin resolved to the old cursor: the plain pull has nothing to do.
* A pull that stopped between its merge and its record, or on a conflict, and then a
  tag cut again on the revision that the manifest records: the re-run finds the tip at
  the cursor, and the plain pull has nothing to do over the newer directory. A pin
  edited, or the manifest reset, in that place does the same.
* A rebuild from a branch of the fork that stops between its merge and its record
  keeps the seed's newer cursor over an older tree; one under an older pin records a
  cursor older than the branch's base. A replacement that was half done and committed
  by hand has no marker.
* After a pin is edited, init rebuilds a missing directory at the old cursor and
  records the new pin as resolved, so that pull says there is nothing to pull at a
  revision that the pin does not name (`stackmanifest.go:690`, `stack.go:864`).
* After a rebuild from the fork the marker's second parent is the fork's commit, so
  that what is there counts as sent, without a question to the fork whether it still
  is (`stack.go:556`, `832`). The same question is asked about the last proposal's
  branch only, also where the work is known from the integration ref.
* With a trackBranch, propose of the whole directory does not refresh it, seed is
  content with the proposal, and the rebuild takes trackBranch, which lacks the work
  (`stackseed.go:488`). The work is on the fork, on another branch.
* A member whose work was sent and whose pin is then moved back cannot be moved
  forward again before the work is "sent first" (`stack.go:1120`); the lease of
  a forced push is read right before it.

## 7. Abstractions and bounds

Common to all modules: one git command is one step, and so is one removal of a
directory; payloads are model values; wording, colours, logs and flags that
change neither state nor control are left out.

`StoreWrite`. One machine's file; two minutes are `fresh` or `stale`. Three
processes are needed for a dead holder with two breakers, two for everything
else. A process makes the same contribution each time it writes, so that states
are finite without a bound on runs.

`BrewSync`. The clock is one for all machines, in whole seconds as in the files:
skew is not modelled. Bounds: `MaxTime` (2 or 3 instants: before, the
same, after), `MaxDeeds` (what people do), `MaxFaults` (brew or network
failures), `MaxRunning` (commands under way), `TakeTurns`. One package: packages
only meet in the loop over a plan. Two machines: a decision travels from one to
the other; the safety theorems cover any number. What needs a third is named above, and
`KeepSticks` was checked once on three. Versions, taps and `changedAt`
are left out because they feed reports only. `Retire`'s rule that the
earliest observation wins is redundant under `Snapshot` (a retired package is not
installed in the previous file); it is kept as the code has it. The pull,
snapshot, write and commit of one command are one step, since they touch this
machine's clone only and a machine runs one command here (`StoreWrite` is about
two).

`ClaudeSync`. A merge commit is identified with the histories it joins, which
loses the ping-pong named above and nothing else that the properties ask about.
Fetch and merge are one step: what is pushed between them is met by the next
push. A conflict is one that the policies settle (`conflicted`) or decline
(`hard`); what they write is not modelled. An aborted merge may lose any part
of what was captured and not committed, which is more than git loses. A fold may
happen after any push, whatever its size threshold says, and whether anything is
old enough is free. Left out: the twenty-minute age after which a live holder's
lock counts as stale, debounce, the wait for the lock in the interactive
command, the first clone and the automatic restore, retention and secrets.
`PushAttempts` is three in the code and one in the runs: it bounds how often one
Publish goes round. Bounds: `MaxCaptures` = 2 (one for either machine, or two
for one), `MaxRewrites` = 1 (before and after a fold), `MaxFaults` = 1. That a
clone keeps its captures however many commands overlap in it is not checked, but
proved (`ClonesKeep`), and so is `MarkersNeedCompany` for any number of processes.

`AccountSwitch`. Two accounts (the displaced one and the target; symmetric), two
switches of which one may also add and be killed, one session. `MaxGen` = 3
generations of a token: the stored one, one refreshed, one refreshed again.
`MaxBegun` = 4 commands, logins and refreshes in a behaviour: enough for a switch,
a refresh inside it, a second switch and what shows the damage. A lock of a live
process may be found stale only if it is in `Sleepers`; in the run it is broken
alive only through the gap between stat and remove. The Keychain writes
atomically and is a special case of the file, which truncates.

`StagingRun`. One transcript: files meet only in the totals of a run, and in the
audit's decision, which is per file. `Sizes` = {1, 4, 5} around `LargeFileBytes` = 3
(what is deferred and what is not, and two that a size cannot tell from one another
by being equal); `ScanContentLimit` = 1 in units of the same; `Tick` = `Probe` = 2
and `Settle` = 5 around the ticks of a clock that ends at `MaxTime` = 4; `Window` = 3;
`MaxVer` = 3 contents: staged, changed, changed back in size. Left out: a damaged
or a suspect clock file (read as no clock), private keys, which the scrub refuses
and the audit condemns, the size cap, and the flush.

`ChunkStore`. Three chunks and four transcripts over them, so that two share a
prefix and one is shorter; `SmallChunks` = 1 is the size below which the tree keeps a file
native. One reader in the run, any number in the proofs. The setting is on, off or unset; the
mode file that is not there is the one that says native. The sync is one process:
`.sync.lock` and the staging clone make it so (`ClaudeSync`).

`ReleasePlan` and `ReleaseRun`. Four packages (three in the instances with trouble),
with every shape of dependency, linked, fixed and lockstep groups, ranges and
ignored packages that `MCReleaseRun` enumerates (`Smooth`, `Passive`, `Rough`): a
cascade through a group back into a group needs four. Versions are triples of small
numbers, stable ones only. `MaxTrouble` failures and kills are one or two, and one
more release follows the first, since a resume file can be left over. The configured
steps are those of `Order` throughout: the file can name no step that is gone, where
the code's guard lets a run pass (`resume.go:142`); a step that is disabled is one that
`Order` does not have, and a step's `if` condition is left out. The forge's
releases go by package in place of by title.

`Stackspace`. One member: members share the manifest and nothing else that a command
on one of them changes. Upstream is one line of revisions, `MaxRev` = 2: before and
after; `MaxOdd` = 2 mishaps, for a command cut short and what a person does next; two
pieces of work, since of one it cannot be told whether a part was left behind. Larger
instances were checked once and hold: three revisions or three mishaps with one piece
of work, three revisions with two pieces and one mishap. A fact of upstream is not
deleted upstream, except by a push from here. Left out: several members, --dry-run,
the second candidate of a branch name, publication of the manifest's home, overlays,
ignored files, and `rm --force` during an open merge.

## 8. What is not modelled, and the plan

`PROJECT.json` lists each part with the reason. Most of the code by volume is
reading and writing of formats (package manifests, changelogs, Claude's and
Codex's files, JSON with comments), process start, and presentation, in which
nothing is concurrent and nothing persists between calls. So the models stand for a
small share of the repository's lines, and are meant to.

Modelled: the brewrig store and commands, clauderig's sync, captures, transcript
store and account switching, the release planner and the release pipeline, one
member of `rig stack`, and the theorems of section 5.

What is left, in this order:

1. Codex's `service` and `synclock.go`, as a second set of constants and actions
   beside `ClaudeSync` (its lock polls until a deadline where clauderig's gives up),
   and `rolloutstore` beside `ChunkStore`.
2. `core/prestate`: the moves of entering and leaving prerelease, with their undo;
   prerelease and snapshot versions in `ReleasePlan`.
3. Restore: the captures' other direction, with its refusal of paths and its merges
   into Claude's own files.
4. The session profiles of `account` (`run`, `add --from-session`).
5. Several members of a stackspace over one manifest, and the delivery of released
   members (`stackreleasedpublish.go`), which pushes tags and packages in order.
6. Proofs of what is not covered: the safety core of `MergesAreSettled` (a merge over
   committed records can always be finished), and `PlanIsLeast` for workspaces outside
   `IgnoredApart`, where what a plan must be is first to be said.
