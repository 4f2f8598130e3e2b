---------------------------- MODULE Stackspace ----------------------------
(***************************************************************************)
(* rig stack: one member of a stackspace, a directory of one repository    *)
(* that holds an upstream project and what has been changed in it here.    *)
(* Upstream comes in through pull and init (a merge of its filtered        *)
(* history, or a replacement of the directory where a merge cannot move    *)
(* it), and work leaves through propose (a branch of the fork) and push    *)
(* (upstream's own branch).  The manifest records the revision the         *)
(* directory is at (the cursor), and refs/rigsmith/... what was sent.  rm  *)
(* drops the member, seed exports the manifest to rebuild it elsewhere.    *)
(*                                                                         *)
(* A tree is a set of facts: revision n of upstream brings the fact n, and *)
(* work brings facts of Work.  Upstream is one line of revisions.  Git's   *)
(* three-way merge is the set formula of Merge3, or a conflict.  A command *)
(* can be cut at every place where it is killed or returns an error; what  *)
(* it had written by then stays.                                           *)
(*                                                                         *)
(* Not modelled: several members at once, --dry-run, the second candidate  *)
(* branch name, publication of the manifest home, overlays, ignored files, *)
(* rm --force during an open merge.                                        *)
(***************************************************************************)
EXTENDS Naturals, Sequences

CONSTANTS Work,      \* facts that work in the stackspace adds
          None,      \* no commit, no branch, no marker
          MaxRev, MaxOdd     \* bounds

Trees == SUBSET ((1 .. MaxRev) \cup Work)
Commit == [base : 1 .. MaxRev, tree : Trees, own : BOOLEAN]
SyncMark == [how : {"merge", "plain"}, at : Commit, here : Trees]
Topic == [root : Trees, tree : Trees, fresh : BOOLEAN, merged : BOOLEAN]

ASSUME StackAssumption == /\ MaxRev \in Nat \ {0} /\ MaxOdd \in Nat
                          /\ \A w \in Work : w \notin Nat
                          /\ None \notin Commit \cup SyncMark \cup Topic

VARIABLES up,        \* upstream: the tree of each revision
          tags,      \* upstream's tags: the revision each is cut on
          fork,      \* the fork's branches: the proposal's and trackBranch
          head,      \* HEAD: the prefix's tree and the manifest
          disk,      \* the same in the index and the worktree
          took,      \* newest upstream revision in HEAD's history, 0 if none
          kept,      \* fork commits in HEAD's history
          sync,      \* the newest import or pull commit (stackImportCommit)
          open,      \* the commit whose merge stopped on conflicts
          topic,     \* the local topic branch
          refs,      \* refs/rigsmith/propose and refs/rigsmith/integration
          odd,       \* bound: commands cut short, pins edited, members dropped
          made, sent, gone,    \* ghosts: work committed here, that reached the fork
                               \* or upstream, and that a person gave up
          slipped              \* ghost: a case CursorTellsTheTruth does not cover

local == <<head, disk, took, kept, sync, open, topic, refs>>
remote == <<up, tags, fork>>
ghosts == <<made, sent, gone, slipped>>
vars == <<remote, local, odd, ghosts>>
----------------------------------------------------------------------------
\* Commits are known by their tree and the upstream revision they stand on;
\* own tells a branch of the fork from the revision itself.

Rev(i) == [base |-> i, tree |-> up[i], own |-> FALSE]
ForkCommit(i, tree) == [base |-> i, tree |-> tree, own |-> TRUE]
Newest == Len(up)
Merge3(base, ours, theirs) ==
    (ours \cap theirs) \cup (ours \ base) \cup (theirs \ base)
Earlier(a, b) == IF a <= b THEN a ELSE b

\* The nearest revision that HEAD's history and a commit share.
BaseTree(c) == LET i == Earlier(c.base, took) IN IF i = 0 THEN {} ELSE up[i]
InHistory(c) == IF c.own THEN c \in kept ELSE c.base <= took
IsAncestor(a, b) == IF a.own THEN a = b ELSE a.base <= b.base

NoMember == [in |-> FALSE, track |-> FALSE, pin |-> 0, cursor |-> 0,
             lastPin |-> 0, proposed |-> FALSE, topic |-> FALSE]
Added == [NoMember EXCEPT !.in = TRUE]
Present == head.tree # {}
Clean == disk = head /\ open = None
PrefixClean == disk.tree = head.tree /\ open = None

\* stackUpstreamTip: a pin names a tag, and one that was resolved before stays
\* where it was, also when the tag was cut again since, unless asked (again).
Tip(man, again) ==
    IF man.pin = 0 THEN Newest
    ELSE IF man.lastPin = man.pin /\ man.cursor # 0 /\ ~again THEN man.cursor
    ELSE tags[man.pin]
----------------------------------------------------------------------------
\* What has not left: the prefix against what was last imported into it.

Known == sync # None /\ Present
MergedTree == sync.here   \* mutant: measured against the merge, work included
Imported == sync.at.tree
MovedOn == Known /\ Imported # head.tree
RefHolds(c) == c # None /\ c.tree = head.tree
Proposed == MovedOn /\ (RefHolds(refs.propose) \/ RefHolds(refs.integration))
Unsent == MovedOn /\ ~Proposed
ProposedOnFork(man) == man.proposed => refs.propose # None /\ fork.proposal = refs.propose

\* Nothing under the prefix exists here only, as far as rm and seed can tell.
MayDrop(man) == /\ ~Unsent
                /\ Known \/ ~Present
                /\ Proposed => ProposedOnFork(man)

Send(tree) == sent' = sent \cup (tree \cap Work)
----------------------------------------------------------------------------
\* The bound on what goes wrong or is redone.
Odd(n) == n <= MaxOdd - odd /\ odd' = odd + n

\* What others do: upstream moves, merges the proposal, or cuts the pinned tag
\* again; the fork's branch is dropped.

Init ==
    /\ up = <<{1}>> /\ tags = [p \in 1 .. MaxRev |-> p]
    /\ fork = [proposal |-> None, track |-> None]
    /\ head = [tree |-> {}, man |-> Added]
    /\ disk = head
    /\ took = 0 /\ kept = {}
    /\ sync = None /\ open = None /\ topic = None
    /\ refs = [propose |-> None, integration |-> None]
    /\ odd = 0
    /\ made = {} /\ sent = {} /\ gone = {} /\ slipped = FALSE

UpstreamMoves ==
    /\ Newest < MaxRev
    /\ \/ up' = Append(up, up[Newest] \cup {Newest + 1})
       \/ /\ fork.proposal # None
          /\ up' = Append(up, Merge3(up[fork.proposal.base], up[Newest], fork.proposal.tree))
    /\ UNCHANGED <<tags, fork, local, odd, ghosts>>

BranchDeleted ==
    /\ fork.proposal # None
    /\ fork' = [fork EXCEPT !.proposal = None]
    /\ UNCHANGED <<up, tags, local, odd, ghosts>>
----------------------------------------------------------------------------
\* What the person does in the stackspace, with git and an editor.

Write(w) ==
    /\ w \notin made /\ Present /\ Clean
    /\ head' = [head EXCEPT !.tree = @ \cup {w}]
    /\ disk' = head'
    /\ made' = made \cup {w}
    /\ UNCHANGED <<remote, took, kept, sync, open, topic, refs, odd, sent, gone, slipped>>

\* A topic is branched off the commit that imported the member.
WriteTopic(w) ==
    /\ w \notin made /\ Present /\ Clean /\ sync # None
    /\ topic' = [root |-> sync.here, tree |-> sync.here \cup {w},
                 fresh |-> TRUE, merged |-> FALSE]
    /\ UNCHANGED <<remote, head, disk, took, kept, sync, open, refs, odd, ghosts>>

MergeTopic ==
    /\ topic # None /\ ~topic.merged /\ Present /\ Clean
    /\ topic' = [topic EXCEPT !.merged = TRUE]
    /\ head' = [head EXCEPT !.tree = Merge3(topic.root, @, topic.tree)]
    /\ disk' = head'
    /\ made' = made \cup ((topic.tree \ topic.root) \cap Work)
    /\ UNCHANGED <<remote, took, kept, sync, open, refs, odd, sent, gone, slipped>>

\* The manifest is edited and committed: another pin, or a trackBranch.
EditManifest(man) ==
    /\ Clean /\ head.man.in
    /\ head' = [head EXCEPT !.man = man]
    /\ disk' = head'
    /\ UNCHANGED <<remote, took, kept, sync, open, topic, refs, made, sent, gone>>

\* A pull merged and not recorded is known by its merge commit alone.
Unrecorded(man) == sync # None /\ sync.how = "merge" /\ sync.at.base # man.cursor

Repin(p) ==
    /\ Odd(1)
    /\ p \in 0 .. Newest /\ p # head.man.pin
    /\ EditManifest([head.man EXCEPT !.pin = p])
    /\ slipped' = (slipped \/ Unrecorded(head.man))

\* The pinned tag is cut again on another revision.
Recut(i) ==
    /\ Odd(1)
    /\ head.man.pin # 0 /\ i \in 1 .. Newest /\ i # tags[head.man.pin]
    /\ tags' = [tags EXCEPT ![head.man.pin] = i]
    /\ slipped' = (slipped \/ \E man \in {head.man, disk.man} :
                      i = man.cursor /\ (open # None \/ Unrecorded(man)))
    /\ UNCHANGED <<up, fork, local, made, sent, gone>>

Track ==
    /\ ~head.man.track /\ EditManifest([head.man EXCEPT !.track = TRUE])
    /\ UNCHANGED <<odd, slipped>>

\* What a command left in the worktree is committed by hand, or reset.
CommitDisk ==
    /\ open = None /\ disk # head
    /\ head' = disk
    /\ slipped' = (slipped \/ disk.tree # head.tree)
    /\ UNCHANGED <<remote, disk, took, kept, sync, open, topic, refs, odd,
                   made, sent, gone>>

ResetDisk ==
    /\ open = None /\ disk # head
    /\ disk' = head
    /\ slipped' = (slipped \/ Unrecorded(head.man))
    /\ UNCHANGED <<remote, head, took, kept, sync, open, topic, refs, odd,
                   made, sent, gone>>
----------------------------------------------------------------------------
\* stackPullOne.  Cuts: "merged" after the merge, "replaced" after the directory
\* was replaced and before the cursor is written, "cursor" before it is committed,
\* "ref" before the ref of a branch imported from is set.

Cuts == {"none", "merged", "replaced", "cursor", "ref"}
Unfinished == {"merged", "replaced", "cursor"}
Cut(cut) == Odd(IF cut = "none" THEN 0 ELSE 1)

TakenByAncestry(c) == InHistory(c)   \* mutant: ancestry alone

\* The target is in HEAD, by a merge that went forward from the last sync.
Taken(c) == /\ InHistory(c)
            /\ sync # None /\ sync.how = "merge" /\ IsAncestor(sync.at, c)

Replaces(c) == ~Present \/ (c.tree # head.tree /\ ~Taken(c))
MayReplace == Present => Known /\ Imported = head.tree
Recorded(man, tip) == [man EXCEPT !.cursor = tip, !.lastPin = man.pin]

\* History and the newest sync once c is merged, with the prefix at here.
Takes(c, here) ==
    /\ took' = IF c.base > took THEN c.base ELSE took
    /\ kept' = IF c.own THEN kept \cup {c} ELSE kept
    /\ sync' = [how |-> "merge", at |-> c, here |-> here]
    /\ topic' = IF topic = None THEN None ELSE [topic EXCEPT !.fresh = FALSE]

\* The prefix was moved back or removed, and the merge counts that as a change.
Slips(c) == BaseTree(c) \ Work # head.tree \ Work

Conflict(c, again) ==
    /\ ~InHistory(c)
    /\ head.tree # BaseTree(c) /\ c.tree # BaseTree(c) /\ head.tree # c.tree
    /\ open' = c
    /\ slipped' = (slipped \/ again \/ Slips(c))
    /\ UNCHANGED <<head, disk, took, kept, sync, topic, refs, odd, gone>>

Merge(c, now, torn, cut) ==
    LET clean == Merge3(BaseTree(c), head.tree, c.tree)
        whole == IF clean = {} THEN c.tree ELSE clean
        tree == IF cut \in Unfinished THEN clean ELSE whole
    IN  /\ ~InHistory(c)
        /\ head' = [tree |-> tree,
                    man |-> IF cut \in Unfinished THEN head.man ELSE now]
        /\ disk' = [tree |-> IF cut = "merged" THEN clean ELSE whole,
                    man |-> IF cut \in {"merged", "replaced"} THEN disk.man ELSE now]
        /\ Takes(c, tree)
        /\ slipped' = (slipped \/ torn \/ Slips(c))
        /\ UNCHANGED <<open, gone>>

NoMerge(c, now, torn, cut) ==
    LET tree == IF Replaces(c) THEN c.tree ELSE head.tree
    IN  /\ InHistory(c)
        /\ Replaces(c) => MayReplace
        /\ cut # "merged"
        /\ disk' = [tree |-> tree, man |-> IF cut = "replaced" THEN disk.man ELSE now]
        /\ IF cut \in Unfinished
           THEN UNCHANGED <<head, sync, topic>>
           ELSE /\ head' = disk'
                /\ IF Taken(c) THEN UNCHANGED <<sync, topic>>
                   ELSE /\ sync' = [how |-> "plain", at |-> c, here |-> tree]
                        /\ topic' = IF topic = None THEN None
                                    ELSE [topic EXCEPT !.fresh = FALSE]
        /\ slipped' = (slipped \/ torn)
        /\ UNCHANGED <<took, kept, open, gone>>

\* Bring the prefix to revision tip, or to a branch of the fork based on it.
PullOne(tip, branch, again, cut) ==
    LET at == IF branch = None THEN tip ELSE Earlier(branch.base, tip)
        c == IF branch = None THEN Rev(tip) ELSE branch
        now == Recorded(disk.man, at)
        torn == \/ at # c.base
                \/ /\ cut \in Unfinished
                   /\ again \/ (branch # None /\ disk.man.cursor # at)
    IN  \/ Conflict(c, again)
        \/ /\ Cut(cut)
           /\ cut = "ref" => branch # None
           /\ Merge(c, now, torn, cut) \/ NoMerge(c, now, torn, cut)
           /\ refs' = IF branch # None /\ cut = "none"
                      THEN [refs EXCEPT !.propose = branch] ELSE refs

Pull(again, cut) ==
    /\ Clean /\ head.man.in
    /\ Tip(head.man, again) # head.man.cursor
    /\ PullOne(Tip(head.man, again), None, again, cut)
    /\ UNCHANGED <<remote, made, sent>>

\* stackForkRefFor: trackBranch always, the proposal's branch when rebuilding.
ImportsFrom(man) ==
    IF man.track THEN fork.track
    ELSE IF man.cursor # 0 /\ man.proposed THEN fork.proposal
    ELSE None

\* init: a member never imported, or one whose directory is not there.  A cursor
\* says which revision to come back to, unless a branch is imported from.
Import(cut) ==
    LET man == disk.man
        branch == ImportsFrom(man)
    IN  /\ PrefixClean /\ man.in
        /\ man.cursor = 0 \/ ~Present
        /\ man.track => branch # None
        /\ PullOne(IF man.cursor # 0 /\ branch = None THEN man.cursor ELSE Tip(man, FALSE),
                   branch, FALSE, cut)
        /\ UNCHANGED <<remote, made, sent>>

\* The conflict is resolved by hand, keeping upstream's facts and some of the
\* prefix's, and committed under a subject of the person's own; or given up.
Resolve(tree) ==
    /\ open # None
    /\ open.tree \subseteq tree /\ tree \subseteq open.tree \cup head.tree
    /\ head' = [head EXCEPT !.tree = tree]
    /\ disk' = [disk EXCEPT !.tree = tree]
    /\ Takes(open, tree)
    /\ open' = None
    /\ gone' = gone \cup ((head.tree \ tree) \cap Work)
    /\ UNCHANGED <<remote, refs, odd, made, sent, slipped>>

Abort ==
    /\ open # None /\ open' = None
    /\ UNCHANGED <<remote, head, disk, took, kept, sync, topic, refs, odd, ghosts>>
----------------------------------------------------------------------------
\* propose: the prefix's tree, or a topic's, as one commit on the upstream tip.

\* The prefix is the snapshot of the upstream tip that a proposal is rooted on.
AtTip(man) == man.in /\ man.cursor # 0 /\ Tip(man, FALSE) = man.cursor

\* A topic in the manifest's proposals that is still there is in HEAD.
TopicMerged == disk.man.topic /\ topic # None => topic.merged
TopicGoesStale == topic # None /\ topic.merged /\ sync # None   \* mutant: of any age
TopicGoes == topic # None /\ topic.merged /\ sync # None /\ topic.fresh

\* trackBranch is pushed unless it is at that tree and parent already; done is
\* how much of it happens: the push, then the local ref.
Integrate(tip, done) ==
    /\ fork' = [fork EXCEPT !.track = ForkCommit(tip, head.tree)]
    /\ refs' = IF done = "push" THEN refs
               ELSE [refs EXCEPT !.integration = ForkCommit(tip, head.tree)]
    /\ Send(head.tree)

ProposeTrackOnly(done) ==
    /\ AtTip(disk.man) /\ disk.man.track /\ PrefixClean /\ Present
    /\ TopicMerged
    /\ done \in {"push", "all"} /\ Odd(IF done = "all" THEN 0 ELSE 1)
    /\ Integrate(disk.man.cursor, done)
    /\ UNCHANGED <<up, tags, head, disk, took, kept, sync, open, topic, made, gone, slipped>>

Effects == <<"push", "ref", "track", "trackRef", "record", "topic", "all">>

\* The first n effects of a proposal happen: all of them unless it is cut short.
Propose(from, n) ==
    LET man == disk.man
        tree == IF from THEN topic.tree ELSE head.tree
        c == ForkCommit(man.cursor, tree)
        whole == ForkCommit(man.cursor, head.tree)
        Reaches(e) == \E k \in 1 .. n : Effects[k] = e
        told == [man EXCEPT !.proposed = @ \/ Reaches("record"),
                            !.topic = @ \/ (from /\ Reaches("topic"))]
    IN  /\ AtTip(man) /\ PrefixClean /\ Present
        /\ from => man.track /\ TopicGoes
        /\ tree # up[man.cursor]
        /\ ~(refs.propose # None /\ refs.propose.tree = tree /\ fork.proposal = refs.propose)
        /\ n \in 1 .. Len(Effects) /\ Odd(IF n = Len(Effects) THEN 0 ELSE 1)
        /\ fork' = [proposal |-> c,
                    track |-> IF from /\ Reaches("track") THEN whole ELSE fork.track]
        /\ refs' = [propose |-> IF Reaches("ref") THEN c ELSE refs.propose,
                    integration |-> IF from /\ Reaches("trackRef") THEN whole
                                    ELSE refs.integration]
        /\ Send(IF from /\ Reaches("track") THEN tree \cup head.tree ELSE tree)
        /\ disk' = [disk EXCEPT !.man = told]
        /\ head' = IF Reaches("all") /\ head.man = man THEN [head EXCEPT !.man = told] ELSE head
        /\ UNCHANGED <<up, tags, took, kept, sync, open, topic, made, gone, slipped>>

\* push: upstream's own branch is moved to the prefix, which takes it back.
Push(cut) ==
    LET man == disk.man
        now == Recorded(man, Newest + 1)
        c == [base |-> Newest + 1, tree |-> head.tree, own |-> FALSE]
    IN  /\ man.in /\ man.pin = 0 /\ man.cursor = Newest /\ PrefixClean /\ Present
        /\ Newest < MaxRev /\ head.tree # up[Newest]
        /\ cut \in {"pushed", "none"} /\ Cut(cut)
        /\ up' = Append(up, head.tree)
        /\ Send(head.tree)
        /\ IF cut = "pushed" THEN UNCHANGED local
           ELSE /\ Takes(c, head.tree)
                /\ head' = [head EXCEPT !.man = now] /\ disk' = head'
                /\ UNCHANGED <<open, refs>>
        /\ UNCHANGED <<tags, fork, made, gone, slipped>>
----------------------------------------------------------------------------
\* rm, add, and a seed that is set up elsewhere in place of this stackspace.

\* What a forced command gives up.
GiveUp(force, tree) == gone' = IF force THEN gone \cup (tree \cap Work) ELSE gone

Remove(force, keep, cut) ==
    LET after == [tree |-> IF keep THEN head.tree ELSE {}, man |-> NoMember]
    IN  /\ disk.man.in /\ open = None
        /\ keep => PrefixClean
        /\ force \/ (PrefixClean /\ MayDrop(disk.man))
        /\ cut \in {"none", "edited", "committed"}
        /\ Odd(IF cut = "none" THEN 1 ELSE 2)
        /\ disk' = after
        /\ head' = IF cut = "edited" THEN head ELSE after
        /\ refs' = IF cut = "none" THEN [propose |-> None, integration |-> None] ELSE refs
        /\ GiveUp(force /\ ~keep, head.tree)
        /\ UNCHANGED <<remote, took, kept, sync, open, topic, made, sent, slipped>>

Add ==
    /\ ~disk.man.in /\ open = None
    /\ disk' = [disk EXCEPT !.man = Added]
    /\ UNCHANGED <<remote, head, took, kept, sync, open, topic, refs, odd, ghosts>>

\* The seed's repository has the manifest, no member and no history of theirs.
Seed(force) ==
    /\ Clean /\ head.man.in /\ Odd(1)
    /\ force \/ ~Present \/ MayDrop(head.man)
    /\ head' = [head EXCEPT !.tree = {}]
    /\ disk' = head'
    /\ took' = 0 /\ kept' = {} /\ sync' = None /\ topic' = None
    /\ refs' = [propose |-> None, integration |-> None]
    /\ GiveUp(force, head.tree)
    /\ UNCHANGED <<remote, open, made, sent, slipped>>
----------------------------------------------------------------------------
Others == UpstreamMoves \/ BranchDeleted \/ \E i \in 1 .. MaxRev : Recut(i)
Person == \/ \E w \in Work : Write(w) \/ WriteTopic(w)
          \/ \E p \in 0 .. MaxRev : Repin(p)
          \/ \E tree \in SUBSET ((1 .. MaxRev) \cup Work) : Resolve(tree)
          \/ MergeTopic \/ Track \/ CommitDisk \/ ResetDisk \/ Abort
Commands ==
    \/ \E again \in BOOLEAN, cut \in Cuts : Pull(again, cut)
    \/ \E cut \in Cuts : Import(cut)
    \/ \E from \in BOOLEAN, n \in 1 .. Len(Effects) : Propose(from, n)
    \/ \E done \in {"push", "all"} : ProposeTrackOnly(done)
    \/ \E cut \in {"pushed", "none"} : Push(cut)
    \/ \E force, keep \in BOOLEAN, cut \in {"none", "edited", "committed"} :
          Remove(force, keep, cut)
    \/ Add
    \/ \E force \in BOOLEAN : Seed(force)

Next == Others \/ Person \/ Commands
Spec == Init /\ [][Next]_vars
----------------------------------------------------------------------------
Manifest == [in : BOOLEAN, track : BOOLEAN, pin : 0 .. MaxRev, cursor : 0 .. MaxRev,
             lastPin : 0 .. MaxRev, proposed : BOOLEAN, topic : BOOLEAN]

TypeOK ==
    /\ up \in Seq(Trees) /\ Len(up) \in 1 .. MaxRev
    /\ tags \in [1 .. MaxRev -> 1 .. MaxRev]
    /\ fork \in [proposal : Commit \cup {None}, track : Commit \cup {None}]
    /\ head \in [tree : Trees, man : Manifest]
    /\ disk \in [tree : Trees, man : Manifest]
    /\ took \in 0 .. MaxRev /\ kept \subseteq Commit
    /\ sync \in SyncMark \cup {None}
    /\ open \in Commit \cup {None}
    /\ topic \in Topic \cup {None}
    /\ refs \in [propose : Commit \cup {None}, integration : Commit \cup {None}]
    /\ odd \in 0 .. MaxOdd
    /\ made \subseteq Work /\ sent \subseteq Work /\ gone \subseteq Work
    /\ slipped \in BOOLEAN

(* Work committed in the prefix is still there, or has reached the fork or   *)
(* upstream, unless a person gave it up: no pull, rebuild, removal or seed   *)
(* that was not forced takes the only copy, wherever it is cut short.        *)
WorkLeavesFirst == made \subseteq head.tree \cup sent \cup gone

(* Where pull has nothing to do, the directory holds the facts of the       *)
(* cursor's revision, no fewer and no newer ones.  The code does not keep    *)
(* this where slipped is set: after a merge over a directory that was moved  *)
(* back or dropped since it was last merged (Slips), an import of a branch   *)
(* based past the tip, a rebuild from a branch or a pull --repin that stops  *)
(* between the merge and its record, a half-done replacement committed by    *)
(* hand, and a merge whose record was reset, or overtaken by a new pin or by *)
(* a tag that went back to the recorded revision.                            *)
UpToDate == Clean /\ Present /\ head.man.cursor # 0 /\ AtTip(head.man)
CursorHolds == UpToDate => head.tree \ Work = up[head.man.cursor] \ Work
CursorTellsTheTruth == slipped \/ CursorHolds

(* Neither a proposal nor a push takes away what upstream had: no branch     *)
(* left on the fork lacks a fact of the revision it is based on, and no      *)
(* revision one of its predecessors had.  Not promised once slipped is set:  *)
(* what is sent is rooted on the cursor (see CursorTellsTheTruth).           *)
NothingReverted ==
    \/ slipped
    \/ /\ \A c \in {fork.proposal, fork.track} \ {None} : up[c.base] \ Work \subseteq c.tree
       /\ \A i, j \in 1 .. Newest : i <= j => up[i] \ Work \subseteq up[j]
=============================================================================
