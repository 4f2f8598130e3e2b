------------------------- MODULE StackspaceProofs -------------------------
(***************************************************************************)
(* Proofs about Stackspace, for any work and any number of revisions:      *)
(* whatever is cut short, however pins are moved, members dropped and      *)
(* rebuilt, no command that was not forced takes the only copy of work     *)
(* (StackInv); and where pull has nothing to do, the directory holds the   *)
(* facts of its cursor, so that nothing sent from it takes any back        *)
(* (FactsInv, over StackInv).                                              *)
(***************************************************************************)
EXTENDS Stackspace, TLAPS

(* Of a commit: it stands on one of the first n revisions, and the work in   *)
(* it has been sent.                                                         *)
Sound(c, n, s) == c \in Commit /\ c.base <= n /\ c.tree \cap Work \subseteq s
SoundOrNone(c, n, s) == c = None \/ Sound(c, n, s)
Follows(man, n) == man \in Manifest /\ man.pin <= n /\ man.cursor <= n
Kept(tree) == made \subseteq tree \cup sent \cup gone

TagInv == /\ tags \in [1 .. MaxRev -> 1 .. MaxRev]
          /\ \A p \in 1 .. MaxRev : tags[p] <= p \/ tags[p] <= Len(up)
UpInv == /\ up \in Seq(Trees) /\ Len(up) \in 1 .. MaxRev /\ TagInv
         /\ \A i \in 1 .. Len(up) : up[i] \cap Work \subseteq sent
ForkInv == /\ fork = [proposal |-> fork.proposal, track |-> fork.track]
           /\ SoundOrNone(fork.proposal, Len(up), sent)
           /\ SoundOrNone(fork.track, Len(up), sent)
HeadInv == /\ head = [tree |-> head.tree, man |-> head.man]
           /\ head.tree \in Trees /\ Follows(head.man, Len(up)) /\ Kept(head.tree)
DiskInv == /\ disk = [tree |-> disk.tree, man |-> disk.man]
           /\ disk.tree \in Trees /\ Follows(disk.man, Len(up)) /\ Kept(disk.tree)
HistoryInv == took \in 0 .. Len(up) /\ \A k \in kept : Sound(k, Len(up), sent)
SyncInv == sync = None \/ /\ sync = [how |-> sync.how, at |-> sync.at, here |-> sync.here]
                          /\ sync.how \in {"merge", "plain"}
                          /\ Sound(sync.at, Len(up), sent) /\ sync.here \in Trees
OpenInv == SoundOrNone(open, Len(up), sent) /\ (open # None => disk.tree = head.tree)
TopicInv == topic = None \/
    /\ topic \in Topic
    /\ topic.root \subseteq topic.tree
RefsInv == /\ refs = [propose |-> refs.propose, integration |-> refs.integration]
           /\ SoundOrNone(refs.propose, Len(up), sent)
           /\ SoundOrNone(refs.integration, Len(up), sent)
CountInv == /\ odd \in 0 .. MaxOdd
            /\ made \subseteq Work /\ sent \subseteq Work /\ gone \subseteq Work
FlagInv == slipped \in BOOLEAN

(* The inductive invariant.                                                  *)
StackInv == /\ UpInv /\ ForkInv /\ HeadInv /\ DiskInv /\ HistoryInv /\ SyncInv
            /\ OpenInv /\ TopicInv /\ RefsInv /\ CountInv /\ FlagInv

(* A merge keeps what its side had and the base did not, and has only what   *)
(* one of the sides had.                                                     *)
LEMMA MergeParts ==
    ASSUME NEW base, NEW ours, NEW theirs
    PROVE  /\ Merge3(base, ours, theirs) \subseteq ours \cup theirs
           /\ ours \ base \subseteq Merge3(base, ours, theirs)
           /\ theirs \ base \subseteq Merge3(base, ours, theirs)
           /\ ours \cap theirs \subseteq Merge3(base, ours, theirs)
BY DEF Merge3

(* What is sound stays so as revisions and sent work are added.              *)
LEMMA SoundGrows ==
    ASSUME NEW c, NEW n \in Nat, NEW m \in Nat, n <= m, NEW s, NEW t, s \subseteq t,
           Sound(c, n, s)
    PROVE  Sound(c, m, t)
BY DEF Sound, Commit

(* The commits the commands make.                                            *)
LEMMA MakeCommit ==
    ASSUME NEW i \in 1 .. MaxRev, NEW tree \in Trees, NEW own \in BOOLEAN,
           NEW c, c = [base |-> i, tree |-> tree, own |-> own]
    PROVE  c \in Commit /\ c.base = i /\ c.tree = tree /\ c.own = own
BY DEF Commit

(* A revision of upstream is a sound commit.                                 *)
LEMMA RevSound ==
    ASSUME StackInv, NEW i \in 1 .. Len(up)
    PROVE  Sound(Rev(i), Len(up), sent)
<1>1. up[i] \in Trees /\ up[i] \cap Work \subseteq sent
  BY DEF StackInv, UpInv
<1>2. Len(up) \in Nat /\ i \in 1 .. MaxRev
  BY StackAssumption DEF StackAssumption, StackInv, UpInv
<1>3. Rev(i) \in Commit /\ Rev(i).base = i /\ Rev(i).tree = up[i]
  BY <1>1, <1>2 DEF Rev, Commit
<1> QED BY <1>1, <1>2, <1>3 DEF Sound

(* The base of a merge holds sent work only.                                 *)
LEMMA BaseSent ==
    ASSUME StackInv, NEW c, Sound(c, Len(up), sent)
    PROVE  BaseTree(c) \in Trees /\ BaseTree(c) \cap Work \subseteq sent
<1>1. Earlier(c.base, took) \in 0 .. Len(up)
  BY DEF StackInv, UpInv, HistoryInv, Sound, Commit, Earlier
<1> QED BY <1>1 DEF BaseTree, StackInv, UpInv, Trees

(* The tip is a revision that exists.                                        *)
LEMMA TipExists ==
    ASSUME StackInv, NEW man, Follows(man, Len(up)), NEW again
    PROVE  Tip(man, again) \in 1 .. Len(up)
<1>1. /\ Len(up) \in 1 .. MaxRev /\ MaxRev \in Nat
      /\ man.pin \in 0 .. Len(up) /\ man.cursor \in 0 .. Len(up)
  BY StackAssumption DEF StackAssumption, StackInv, UpInv, Follows, Manifest
<1>2. TagInv BY DEF StackInv, UpInv
<1>3. ASSUME NEW p \in 1 .. Len(up) PROVE tags[p] \in 1 .. Len(up)
  <2>1. p \in 1 .. MaxRev BY <1>1
  <2>2. tags[p] \in 1 .. MaxRev /\ (tags[p] <= p \/ tags[p] <= Len(up))
    BY <1>2, <2>1 DEF TagInv
  <2> QED BY <1>1, <2>2
<1> QED BY <1>1, <1>3 DEF Tip, Newest

(* What was last imported has been sent, and so has what may be dropped.     *)
LEMMA ImportedSent ==
    ASSUME StackInv, sync # None
    PROVE  Imported \cap Work \subseteq sent
BY DEF StackInv, SyncInv, Sound, Imported

LEMMA DropSent ==
    ASSUME StackInv, NEW man, MayDrop(man)
    PROVE  head.tree \cap Work \subseteq sent
<1>1. CASE ~Present BY <1>1 DEF Present
<1>2. CASE Known /\ ~MovedOn
  BY <1>2, ImportedSent DEF Known, MovedOn
<1>3. CASE Proposed
  BY <1>3 DEF Proposed, RefHolds, StackInv, RefsInv, SoundOrNone, Sound
<1> QED BY <1>1, <1>2, <1>3 DEF MayDrop, Unsent, MovedOn

LEMMA ReplaceSent ==
    ASSUME StackInv, MayReplace
    PROVE  head.tree \cap Work \subseteq sent
BY ImportedSent DEF MayReplace, Known, Present

(* What no step does: take back a revision, or what was sent or given up.    *)
Grows == /\ Len(up) \in Nat /\ Len(up') \in Nat /\ Len(up) <= Len(up')
         /\ sent \subseteq sent' /\ gone \subseteq gone'
SameUp == up' = up /\ tags' = tags /\ sent \subseteq sent' /\ gone \subseteq gone'

LEMMA SameUpGrows == ASSUME StackInv, SameUp PROVE Grows
BY DEF StackInv, UpInv, SameUp, Grows

(* Each part of the invariant outlives a step that leaves its variables.     *)
LEMMA UpStays == ASSUME StackInv, SameUp PROVE UpInv'
BY DEF StackInv, UpInv, SameUp, Trees, TagInv

LEMMA OneStays ==
    ASSUME Grows, NEW c, SoundOrNone(c, Len(up), sent)
    PROVE  SoundOrNone(c, Len(up'), sent')
BY SoundGrows DEF SoundOrNone, Grows

LEMMA ForkStays == ASSUME StackInv, Grows, fork' = fork PROVE ForkInv'
BY OneStays DEF StackInv, ForkInv

LEMMA FollowsStays ==
    ASSUME Grows, NEW man, Follows(man, Len(up)) PROVE Follows(man, Len(up'))
BY DEF Follows, Manifest, Grows

LEMMA HeadStays == ASSUME StackInv, Grows, head' = head, made' = made PROVE HeadInv'
<1>1. Follows(head'.man, Len(up')) BY FollowsStays DEF StackInv, HeadInv
<1> QED BY <1>1 DEF StackInv, HeadInv, Kept, Grows, Trees

LEMMA DiskStays == ASSUME StackInv, Grows, disk' = disk, made' = made PROVE DiskInv'
<1>1. Follows(disk'.man, Len(up')) BY FollowsStays DEF StackInv, DiskInv
<1> QED BY <1>1 DEF StackInv, DiskInv, Kept, Grows, Trees

LEMMA HistoryStays ==
    ASSUME StackInv, Grows, took' = took, kept' = kept PROVE HistoryInv'
<1>1. took' \in 0 .. Len(up') BY DEF StackInv, HistoryInv, Grows
<1>2. ASSUME NEW k \in kept PROVE Sound(k, Len(up'), sent')
  BY SoundGrows DEF StackInv, HistoryInv, Grows
<1> QED BY <1>1, <1>2 DEF HistoryInv

LEMMA SyncStays == ASSUME StackInv, Grows, sync' = sync PROVE SyncInv'
<1>1. CASE sync = None BY <1>1 DEF SyncInv
<1>2. CASE sync # None
  <2>1. Sound(sync.at, Len(up'), sent')
    BY <1>2, SoundGrows DEF StackInv, SyncInv, Grows
  <2> QED BY <1>2, <2>1 DEF StackInv, SyncInv, Trees
<1> QED BY <1>1, <1>2

LEMMA OpenStays ==
    ASSUME StackInv, Grows, open' = open,
           open = None \/ (disk'.tree = disk.tree /\ head'.tree = head.tree)
    PROVE  OpenInv'
BY OneStays DEF StackInv, OpenInv

LEMMA TopicStays == ASSUME StackInv, topic' = topic PROVE TopicInv'
BY DEF StackInv, TopicInv, Topic, Trees

LEMMA RefsStays == ASSUME StackInv, Grows, refs' = refs PROVE RefsInv'
BY OneStays DEF StackInv, RefsInv

(* After a merge of a sound commit.                                          *)
LEMMA TakesKeeps ==
    ASSUME StackInv, Grows, NEW c, Sound(c, Len(up'), sent'), NEW here \in Trees,
           Takes(c, here)
    PROVE  HistoryInv' /\ SyncInv' /\ TopicInv'
<1>1. HistoryInv'
  <2>1. took' \in 0 .. Len(up')
    BY DEF Takes, StackInv, HistoryInv, Grows, Sound, Commit
  <2>2. ASSUME NEW k \in kept' PROVE Sound(k, Len(up'), sent')
    BY SoundGrows DEF Takes, StackInv, HistoryInv, Grows
  <2> QED BY <2>1, <2>2 DEF HistoryInv
<1>2. SyncInv' BY DEF Takes, SyncInv, Trees
<1>3. TopicInv'
  BY DEF Takes, StackInv, TopicInv, Topic, Trees
<1> QED BY <1>1, <1>2, <1>3

(* What upstream adds is not work done here.                                 *)
LEMMA FactsAreNotWork == \A i \in Nat : {i} \cap Work = {}
BY StackAssumption DEF StackAssumption

(* The edits of a manifest that follows upstream.                            *)
LEMMA ManifestEdits ==
    ASSUME NEW n \in Nat, n <= MaxRev, NEW man, Follows(man, n)
    PROVE  /\ \A b \in BOOLEAN : /\ Follows([man EXCEPT !.in = b], n)
                                 /\ Follows([man EXCEPT !.track = b], n)
                                 /\ \A t \in BOOLEAN :
                                      Follows([man EXCEPT !.proposed = b, !.topic = t], n)
           /\ \A p \in 0 .. n : Follows([man EXCEPT !.pin = p], n)
           /\ \A tip \in 0 .. n : Follows(Recorded(man, tip), n)
<1>0. MaxRev \in Nat BY StackAssumption DEF StackAssumption
<1>1. ASSUME NEW b \in BOOLEAN PROVE Follows([man EXCEPT !.in = b], n)
  BY <1>0 DEF Follows, Manifest
<1>2. ASSUME NEW b \in BOOLEAN PROVE Follows([man EXCEPT !.track = b], n)
  BY <1>0 DEF Follows, Manifest
<1>3. ASSUME NEW b \in BOOLEAN, NEW t \in BOOLEAN
      PROVE  Follows([man EXCEPT !.proposed = b, !.topic = t], n)
  BY <1>0 DEF Follows, Manifest
<1>4. ASSUME NEW p \in 0 .. n PROVE Follows([man EXCEPT !.pin = p], n)
  BY <1>0 DEF Follows, Manifest
<1>5. ASSUME NEW tip \in 0 .. n PROVE Follows(Recorded(man, tip), n)
  <2>1. tip \in 0 .. MaxRev /\ man \in Manifest /\ man.pin <= n
    BY <1>0 DEF Follows
  <2>2. man.pin \in 0 .. MaxRev BY <2>1 DEF Manifest
  <2>3. Recorded(man, tip) \in Manifest BY <2>1, <2>2 DEF Manifest, Recorded
  <2>4. Recorded(man, tip).pin = man.pin /\ Recorded(man, tip).cursor = tip
    BY <2>1 DEF Manifest, Recorded
  <2> QED BY <2>1, <2>3, <2>4 DEF Follows
<1> QED BY <1>1, <1>2, <1>3, <1>4, <1>5

LEMMA NoMemberFollows ==
    ASSUME NEW n \in Nat, n <= MaxRev
    PROVE  Follows(NoMember, n) /\ Follows(Added, n)
<1>0. MaxRev \in Nat BY StackAssumption DEF StackAssumption
<1>1. NoMember \in Manifest
  BY <1>0 DEF NoMember, Manifest
<1>2. NoMember.pin = 0 /\ NoMember.cursor = 0
  BY DEF NoMember
<1>3. Follows(NoMember, n) BY <1>0, <1>1, <1>2 DEF Follows
<1> QED BY <1>3, ManifestEdits DEF Added

LEMMA InitKeeps == Init => StackInv
<1> SUFFICES ASSUME Init PROVE StackInv OBVIOUS
<1>0. MaxRev \in Nat \ {0} /\ MaxOdd \in Nat BY StackAssumption DEF StackAssumption
<1>1. UpInv
  <2>1. up = <<{1}>> /\ {1} \in Trees BY <1>0 DEF Init, Trees
  <2>2. {1} \cap Work = {} BY FactsAreNotWork
  <2>3. TagInv BY <1>0 DEF Init, TagInv
  <2> QED BY <1>0, <2>1, <2>2, <2>3 DEF UpInv
<1>2. Len(up) = 1 BY DEF Init
<1>3. ForkInv /\ RefsInv /\ SyncInv /\ OpenInv /\ TopicInv
  BY DEF Init, ForkInv, RefsInv, SyncInv, OpenInv, TopicInv, SoundOrNone
<1>4. Follows(Added, Len(up)) BY <1>0, <1>2, NoMemberFollows
<1>5. HeadInv /\ DiskInv
  BY <1>4 DEF Init, HeadInv, DiskInv, Kept, Trees
<1>6. HistoryInv BY <1>2 DEF Init, HistoryInv
<1>7. CountInv BY <1>0 DEF Init, CountInv
<1>8. FlagInv BY DEF Init, FlagInv
<1> QED BY <1>1, <1>3, <1>5, <1>6, <1>7, <1>8 DEF StackInv

(* A revision is added whose work has been sent.                             *)
LEMMA UpGrows ==
    ASSUME StackInv, NEW tree \in Trees, Len(up) < MaxRev, up' = Append(up, tree),
           tags' = tags, sent \subseteq sent', tree \cap Work \subseteq sent', gone' = gone
    PROVE  UpInv' /\ Grows /\ Len(up') = Len(up) + 1
<1>1. up' \in Seq(Trees) /\ Len(up') = Len(up) + 1 /\ Len(up) \in Nat
  BY DEF StackInv, UpInv
<1>2. ASSUME NEW i \in 1 .. Len(up') PROVE up'[i] \cap Work \subseteq sent'
  <2>1. CASE i \in 1 .. Len(up) BY <1>1, <2>1 DEF StackInv, UpInv
  <2>2. CASE i = Len(up) + 1 BY <1>1, <2>2 DEF StackInv, UpInv
  <2> QED BY <1>1, <2>1, <2>2
<1>3. Len(up') \in 1 .. MaxRev
  BY <1>1, StackAssumption DEF StackAssumption, StackInv, UpInv
<1>4. TagInv'
  <2>1. TagInv /\ MaxRev \in Nat BY StackAssumption DEF StackAssumption, StackInv, UpInv
  <2>2. ASSUME NEW p \in 1 .. MaxRev PROVE tags[p] <= p \/ tags[p] <= Len(up) + 1
    <3>1. tags[p] \in Nat /\ (tags[p] <= p \/ tags[p] <= Len(up)) BY <2>1 DEF TagInv
    <3> QED BY <1>1, <3>1
  <2>3. tags \in [1 .. MaxRev -> 1 .. MaxRev] BY <2>1 DEF TagInv
  <2> QED BY <1>1, <2>2, <2>3 DEF TagInv
<1> QED BY <1>1, <1>2, <1>3, <1>4 DEF UpInv, Grows, Trees

LEMMA UpstreamMovesKeeps == ASSUME StackInv, UpstreamMoves PROVE StackInv'
<1>0. Newest \in 1 .. Len(up) /\ Len(up) < MaxRev /\ Len(up) \in Nat /\ MaxRev \in Nat
  BY StackAssumption DEF StackAssumption, UpstreamMoves, Newest, StackInv, UpInv
<1>1. up[Newest] \in Trees /\ up[Newest] \cap Work \subseteq sent
  BY <1>0 DEF StackInv, UpInv
<1>2. UpInv' /\ Grows
  <2>1. CASE up' = Append(up, up[Newest] \cup {Newest + 1})
    <3>1. {Newest + 1} \cap Work = {} BY <1>0, FactsAreNotWork
    <3>2. up[Newest] \cup {Newest + 1} \in Trees BY <1>0, <1>1 DEF Trees, Newest
    <3> QED BY <1>0, <1>1, <2>1, <3>1, <3>2, UpGrows DEF UpstreamMoves, ghosts
  <2>2. CASE /\ fork.proposal # None
             /\ up' = Append(up, Merge3(up[fork.proposal.base], up[Newest], fork.proposal.tree))
    <3> DEFINE tree == Merge3(up[fork.proposal.base], up[Newest], fork.proposal.tree)
    <3>1. fork.proposal.tree \in Trees /\ fork.proposal.tree \cap Work \subseteq sent
      BY <2>2 DEF StackInv, ForkInv, SoundOrNone, Sound, Commit
    <3>2. tree \in Trees /\ tree \cap Work \subseteq sent
      BY <1>1, <3>1, MergeParts DEF Trees
    <3> QED BY <1>0, <2>2, <3>2, UpGrows DEF UpstreamMoves, ghosts
  <2> QED BY <2>1, <2>2 DEF UpstreamMoves
<1> USE DEF UpstreamMoves, local, ghosts
<1>3. ForkInv' /\ RefsInv' BY <1>2, ForkStays, RefsStays
<1>4. HeadInv' /\ DiskInv' BY <1>2, HeadStays, DiskStays
<1>5. HistoryInv' /\ SyncInv' /\ OpenInv' /\ TopicInv'
  BY <1>2, HistoryStays, SyncStays, OpenStays, TopicStays
<1>6. CountInv' /\ FlagInv' BY DEF StackInv, CountInv, FlagInv
<1> QED BY <1>2, <1>3, <1>4, <1>5, <1>6 DEF StackInv

(* What HEAD or the worktree becomes.                                        *)
LEMMA HeadIs ==
    ASSUME NEW tree \in Trees, NEW man, head' = [tree |-> tree, man |-> man],
           Follows(man, Len(up')), made' \subseteq tree \cup sent' \cup gone'
    PROVE  HeadInv'
BY DEF HeadInv, Kept, Trees

LEMMA DiskIs ==
    ASSUME NEW tree \in Trees, NEW man, disk' = [tree |-> tree, man |-> man],
           Follows(man, Len(up')), made' \subseteq tree \cup sent' \cup gone'
    PROVE  DiskInv'
BY DEF DiskInv, Kept, Trees

(* Editing one half leaves the other.                                        *)
LEMMA Halves ==
    ASSUME StackInv
    PROVE  /\ \A tree : [head EXCEPT !.tree = tree] = [tree |-> tree, man |-> head.man]
           /\ \A man : [head EXCEPT !.man = man] = [tree |-> head.tree, man |-> man]
           /\ \A tree : [disk EXCEPT !.tree = tree] = [tree |-> tree, man |-> disk.man]
           /\ \A man : [disk EXCEPT !.man = man] = [tree |-> disk.tree, man |-> man]
BY DEF StackInv, HeadInv, DiskInv

LEMMA BranchDeletedKeeps == ASSUME StackInv, BranchDeleted PROVE StackInv'
<1> USE DEF BranchDeleted, local, ghosts
<1>1. SameUp /\ Grows BY SameUpGrows DEF SameUp
<1>2. UpInv' BY <1>1, UpStays
<1>3. ForkInv'
  BY <1>1 DEF StackInv, ForkInv, SoundOrNone, Sound, SameUp
<1>4. HeadInv' /\ DiskInv' BY <1>1, HeadStays, DiskStays
<1>5. HistoryInv' /\ SyncInv' /\ OpenInv' /\ TopicInv' /\ RefsInv'
  BY <1>1, HistoryStays, SyncStays, OpenStays, TopicStays, RefsStays
<1>6. CountInv' /\ FlagInv' BY DEF StackInv, CountInv, FlagInv
<1> QED BY <1>2, <1>3, <1>4, <1>5, <1>6 DEF StackInv

LEMMA WriteKeeps == ASSUME StackInv, NEW w \in Work, Write(w) PROVE StackInv'
<1> USE DEF Write, remote
<1>1. SameUp /\ Grows BY SameUpGrows DEF SameUp
<1>2. UpInv' /\ ForkInv' BY <1>1, UpStays, ForkStays
<1>3. head.tree \cup {w} \in Trees BY DEF StackInv, HeadInv, Trees
<1>4. Follows(head.man, Len(up')) /\ Kept(head.tree) BY <1>1 DEF StackInv, HeadInv, SameUp
<1>5. head' = [tree |-> head.tree \cup {w}, man |-> head.man] /\ disk' = head' BY Halves
<1>6. HeadInv' /\ DiskInv' BY <1>3, <1>4, <1>5, HeadIs, DiskIs DEF Kept
<1>7. HistoryInv' /\ SyncInv' /\ TopicInv' /\ RefsInv'
  BY <1>1, HistoryStays, SyncStays, TopicStays, RefsStays
<1>8. OpenInv' BY DEF Clean, OpenInv, SoundOrNone
<1>9. CountInv' /\ FlagInv' BY DEF StackInv, CountInv, FlagInv
<1> QED BY <1>2, <1>6, <1>7, <1>8, <1>9 DEF StackInv

LEMMA WriteTopicKeeps == ASSUME StackInv, NEW w \in Work, WriteTopic(w) PROVE StackInv'
<1> USE DEF WriteTopic, remote, ghosts
<1>1. SameUp /\ Grows BY SameUpGrows DEF SameUp
<1>2. UpInv' /\ ForkInv' BY <1>1, UpStays, ForkStays
<1>3. HeadInv' /\ DiskInv' BY <1>1, HeadStays, DiskStays
<1>4. HistoryInv' /\ SyncInv' /\ OpenInv' /\ RefsInv'
  BY <1>1, HistoryStays, SyncStays, OpenStays, RefsStays
<1>5. TopicInv' BY DEF StackInv, SyncInv, TopicInv, Topic, Trees
<1>6. CountInv' /\ FlagInv' BY DEF StackInv, CountInv, FlagInv
<1> QED BY <1>2, <1>3, <1>4, <1>5, <1>6 DEF StackInv

LEMMA MergeTopicKeeps == ASSUME StackInv, MergeTopic PROVE StackInv'
<1> USE DEF MergeTopic, remote
<1> DEFINE tree == Merge3(topic.root, head.tree, topic.tree)
<1>1. SameUp /\ Grows BY SameUpGrows DEF SameUp
<1>2. UpInv' /\ ForkInv' BY <1>1, UpStays, ForkStays
<1>3. /\ topic \in Topic
      /\ topic.root \subseteq topic.tree
  BY DEF StackInv, TopicInv
<1>4. tree \in Trees /\ head.tree \subseteq tree /\ topic.tree \ topic.root \subseteq tree
  BY <1>3, MergeParts DEF Trees, Topic, StackInv, HeadInv
<1>5. Follows(head.man, Len(up')) /\ Kept(head.tree) BY <1>1 DEF StackInv, HeadInv, SameUp
<1>6. head' = [tree |-> tree, man |-> head.man] /\ disk' = head' BY Halves
<1>7. made' \subseteq tree \cup sent' \cup gone' BY <1>4, <1>5 DEF Kept
<1> HIDE DEF tree
<1>8. HeadInv' /\ DiskInv' BY <1>4, <1>5, <1>6, <1>7, HeadIs, DiskIs
<1>9. HistoryInv' /\ SyncInv' /\ RefsInv' BY <1>1, HistoryStays, SyncStays, RefsStays
<1>10. OpenInv' BY DEF Clean, OpenInv, SoundOrNone
<1>11. TopicInv' BY <1>3 DEF TopicInv, Topic, Trees
<1>12. CountInv' /\ FlagInv' BY DEF StackInv, CountInv, FlagInv
<1> QED BY <1>2, <1>8, <1>9, <1>10, <1>11, <1>12 DEF StackInv

(* A manifest edited and committed.                                          *)
LEMMA EditKeeps ==
    ASSUME StackInv, NEW man, EditManifest(man), Follows(man, Len(up)),
           odd' \in 0 .. MaxOdd, slipped' \in BOOLEAN
    PROVE  StackInv'
<1> USE DEF EditManifest, remote
<1>1. SameUp /\ Grows BY SameUpGrows DEF SameUp
<1>2. UpInv' /\ ForkInv' BY <1>1, UpStays, ForkStays
<1>3. head' = [tree |-> head.tree, man |-> man] /\ disk' = head' BY Halves
<1>4. head.tree \in Trees /\ Kept(head.tree) /\ Follows(man, Len(up'))
  BY <1>1 DEF StackInv, HeadInv, SameUp
<1>5. HeadInv' /\ DiskInv' BY <1>3, <1>4, HeadIs, DiskIs DEF Kept
<1>6. HistoryInv' /\ SyncInv' /\ TopicInv' /\ RefsInv'
  BY <1>1, HistoryStays, SyncStays, TopicStays, RefsStays
<1>7. OpenInv' BY DEF Clean, OpenInv, SoundOrNone
<1>8. CountInv' BY DEF StackInv, CountInv
<1>9. FlagInv' BY DEF FlagInv
<1> QED BY <1>2, <1>5, <1>6, <1>7, <1>8, <1>9 DEF StackInv

(* A bound that is drawn on stays a bound, a flag stays a flag.              *)
LEMMA OddKeeps ==
    ASSUME StackInv, NEW n \in Nat, Odd(n) PROVE odd' \in 0 .. MaxOdd
BY StackAssumption DEF StackAssumption, StackInv, CountInv, Odd

LEMMA FlagKeeps ==
    ASSUME StackInv, NEW b, slipped' = (slipped \/ b) PROVE FlagInv'
BY DEF FlagInv

LEMMA UpLength == ASSUME StackInv PROVE Len(up) \in Nat /\ Len(up) <= MaxRev
BY StackAssumption DEF StackAssumption, StackInv, UpInv

LEMMA RepinKeeps == ASSUME StackInv, NEW p \in 0 .. MaxRev, Repin(p) PROVE StackInv'
<1>1. Follows([head.man EXCEPT !.pin = p], Len(up))
  BY UpLength, ManifestEdits DEF Repin, Newest, StackInv, HeadInv
<1>2. odd' \in 0 .. MaxOdd BY OddKeeps DEF Repin
<1>3. slipped' \in BOOLEAN BY FlagKeeps DEF Repin, FlagInv
<1> QED BY <1>1, <1>2, <1>3, EditKeeps DEF Repin

LEMMA RecutKeeps == ASSUME StackInv, NEW i \in 1 .. MaxRev, Recut(i) PROVE StackInv'
<1>1. /\ UNCHANGED <<up, fork, local, made, sent, gone>>
      /\ i \in 1 .. Len(up) /\ tags' = [tags EXCEPT ![head.man.pin] = i]
  BY DEF Recut, Newest
<1> USE DEF local
<1>2. Grows BY <1>1 DEF StackInv, UpInv, Grows
<1>3. UpInv'
  <2>1. TagInv'
    <3>1. TagInv /\ Len(up) \in 1 .. MaxRev /\ MaxRev \in Nat /\ Len(up') = Len(up)
      BY <1>1, StackAssumption DEF StackAssumption, StackInv, UpInv
    <3>2. ASSUME NEW p \in 1 .. MaxRev
          PROVE  tags'[p] = i \/ tags'[p] = tags[p]
      BY <1>1, <3>1 DEF TagInv
    <3>3. tags' \in [1 .. MaxRev -> 1 .. MaxRev] BY <1>1, <3>1 DEF TagInv
    <3>4. ASSUME NEW p \in 1 .. MaxRev PROVE tags'[p] <= p \/ tags'[p] <= Len(up')
      BY <1>1, <3>1, <3>2 DEF TagInv
    <3> QED BY <3>3, <3>4 DEF TagInv
  <2> QED BY <1>1, <2>1 DEF StackInv, UpInv, Trees
<1>4. ForkInv' /\ RefsInv' BY <1>1, <1>2, ForkStays, RefsStays
<1>5. HeadInv' /\ DiskInv' BY <1>1, <1>2, HeadStays, DiskStays
<1>6. HistoryInv' /\ SyncInv' /\ OpenInv' /\ TopicInv'
  BY <1>1, <1>2, HistoryStays, SyncStays, OpenStays, TopicStays
<1>7. odd' \in 0 .. MaxOdd BY OddKeeps DEF Recut
<1>8. CountInv' BY <1>1, <1>7 DEF StackInv, CountInv
<1>9. FlagInv' BY FlagKeeps DEF Recut
<1> QED BY <1>3, <1>4, <1>5, <1>6, <1>8, <1>9 DEF StackInv

LEMMA TrackKeeps == ASSUME StackInv, Track PROVE StackInv'
<1>1. Follows([head.man EXCEPT !.track = TRUE], Len(up))
  BY UpLength, ManifestEdits DEF StackInv, HeadInv
<1>2. odd' \in 0 .. MaxOdd BY DEF Track, StackInv, CountInv
<1>3. slipped' \in BOOLEAN BY DEF Track, StackInv, FlagInv
<1> QED BY <1>1, <1>2, <1>3, EditKeeps DEF Track

LEMMA CommitDiskKeeps == ASSUME StackInv, CommitDisk PROVE StackInv'
<1> USE DEF CommitDisk, remote
<1>1. SameUp /\ Grows BY SameUpGrows DEF SameUp
<1>2. UpInv' /\ ForkInv' BY <1>1, UpStays, ForkStays
<1>3. DiskInv' BY <1>1, DiskStays
<1>4. HeadInv' BY <1>3 DEF HeadInv, DiskInv, Kept, Follows, Trees
<1>5. HistoryInv' /\ SyncInv' /\ TopicInv' /\ RefsInv'
  BY <1>1, HistoryStays, SyncStays, TopicStays, RefsStays
<1>6. OpenInv' BY DEF OpenInv, SoundOrNone
<1>7. CountInv' BY DEF StackInv, CountInv
<1>8. FlagInv' BY FlagKeeps
<1> QED BY <1>2, <1>3, <1>4, <1>5, <1>6, <1>7, <1>8 DEF StackInv

LEMMA ResetDiskKeeps == ASSUME StackInv, ResetDisk PROVE StackInv'
<1> USE DEF ResetDisk, remote
<1>1. SameUp /\ Grows BY SameUpGrows DEF SameUp
<1>2. UpInv' /\ ForkInv' BY <1>1, UpStays, ForkStays
<1>3. HeadInv' BY <1>1, HeadStays
<1>4. DiskInv' BY <1>3 DEF HeadInv, DiskInv, Kept, Follows, Trees
<1>5. HistoryInv' /\ SyncInv' /\ TopicInv' /\ RefsInv'
  BY <1>1, HistoryStays, SyncStays, TopicStays, RefsStays
<1>6. OpenInv' BY DEF OpenInv, SoundOrNone
<1>7. CountInv' BY DEF StackInv, CountInv
<1>8. FlagInv' BY FlagKeeps
<1> QED BY <1>2, <1>3, <1>4, <1>5, <1>6, <1>7, <1>8 DEF StackInv

LEMMA AbortKeeps == ASSUME StackInv, Abort PROVE StackInv'
<1> USE DEF Abort, remote, ghosts
<1>1. SameUp /\ Grows BY SameUpGrows DEF SameUp
<1>2. UpInv' /\ ForkInv' BY <1>1, UpStays, ForkStays
<1>3. HeadInv' /\ DiskInv' BY <1>1, HeadStays, DiskStays
<1>4. HistoryInv' /\ SyncInv' /\ TopicInv' /\ RefsInv'
  BY <1>1, HistoryStays, SyncStays, TopicStays, RefsStays
<1>5. OpenInv' BY DEF OpenInv, SoundOrNone
<1>6. CountInv' /\ FlagInv' BY DEF StackInv, CountInv, FlagInv
<1> QED BY <1>2, <1>3, <1>4, <1>5, <1>6 DEF StackInv

LEMMA ResolveKeeps ==
    ASSUME StackInv, NEW tree \in Trees, Resolve(tree) PROVE StackInv'
<1> USE DEF Resolve, remote
<1>1. SameUp /\ Grows BY SameUpGrows DEF SameUp
<1>2. UpInv' /\ ForkInv' BY <1>1, UpStays, ForkStays
<1>3. Sound(open, Len(up'), sent')
  BY <1>1, OneStays DEF StackInv, OpenInv, SoundOrNone, SameUp
<1>4. HistoryInv' /\ SyncInv' /\ TopicInv' BY <1>1, <1>3, TakesKeeps
<1>5. made' \subseteq tree \cup sent' \cup gone'
  BY DEF StackInv, HeadInv, Kept, CountInv
<1>6. head' = [tree |-> tree, man |-> head.man] /\ disk' = [tree |-> tree, man |-> disk.man]
  BY Halves
<1>7. Follows(head.man, Len(up')) /\ Follows(disk.man, Len(up'))
  BY <1>1 DEF StackInv, HeadInv, DiskInv, SameUp
<1>8. HeadInv' /\ DiskInv' BY <1>5, <1>6, <1>7, HeadIs, DiskIs
<1>9. RefsInv' BY <1>1, RefsStays
<1>10. OpenInv' BY DEF OpenInv, SoundOrNone
<1>11. CountInv' /\ FlagInv' BY DEF StackInv, CountInv, FlagInv
<1> QED BY <1>2, <1>4, <1>8, <1>9, <1>10, <1>11 DEF StackInv

(* A merge drops work only if its base held it, so only what was sent.       *)
LEMMA MergeKeepsWork ==
    ASSUME StackInv, NEW c, Sound(c, Len(up), sent)
    PROVE  /\ Merge3(BaseTree(c), head.tree, c.tree) \in Trees
           /\ Kept(Merge3(BaseTree(c), head.tree, c.tree))
<1> DEFINE clean == Merge3(BaseTree(c), head.tree, c.tree)
<1>1. BaseTree(c) \in Trees /\ BaseTree(c) \cap Work \subseteq sent BY BaseSent
<1>2. c.tree \in Trees BY DEF Sound, Commit
<1>3. clean \subseteq head.tree \cup c.tree /\ head.tree \ BaseTree(c) \subseteq clean
  BY MergeParts
<1> HIDE DEF clean
<1>4. clean \in Trees BY <1>2, <1>3 DEF Trees, StackInv, HeadInv
<1>5. Kept(clean) BY <1>1, <1>3 DEF Kept, StackInv, HeadInv, CountInv
<1> QED BY <1>4, <1>5 DEF clean

(* What a pull leaves alone.                                                 *)
PullFrame == SameUp /\ fork' = fork /\ made' = made /\ sent' = sent /\ PrefixClean

LEMMA MergeKeeps ==
    ASSUME StackInv, PullFrame, NEW c, Sound(c, Len(up), sent), NEW now,
           Follows(now, Len(up)), NEW torn, NEW cut, Merge(c, now, torn, cut)
    PROVE  /\ HeadInv' /\ DiskInv' /\ HistoryInv' /\ SyncInv' /\ TopicInv'
           /\ OpenInv' /\ FlagInv' /\ gone' = gone
<1> DEFINE clean == Merge3(BaseTree(c), head.tree, c.tree)
           whole == IF clean = {} THEN c.tree ELSE clean
           tree == IF cut \in Unfinished THEN clean ELSE whole
           left == IF cut = "merged" THEN clean ELSE whole
           hman == IF cut \in Unfinished THEN head.man ELSE now
           dman == IF cut \in {"merged", "replaced"} THEN disk.man ELSE now
<1>1. Grows /\ up' = up BY SameUpGrows DEF PullFrame, SameUp
<1>2. clean \in Trees /\ Kept(clean) BY MergeKeepsWork
<1>3. c.tree \in Trees /\ Sound(c, Len(up'), sent') BY <1>1 DEF Sound, Commit, PullFrame
<1>4. /\ head' = [tree |-> tree, man |-> hman] /\ disk' = [tree |-> left, man |-> dman]
      /\ Takes(c, tree) /\ slipped' = (slipped \/ torn \/ Slips(c))
      /\ open' = open /\ gone' = gone
  BY DEF Merge
<1> HIDE DEF clean
<1>5. whole \in Trees /\ Kept(whole) BY <1>2, <1>3 DEF Kept
<1> HIDE DEF whole
<1>6. tree \in Trees /\ Kept(tree) /\ left \in Trees /\ Kept(left) BY <1>2, <1>5
<1>7. Follows(hman, Len(up')) /\ Follows(dman, Len(up'))
  BY <1>1 DEF StackInv, HeadInv, DiskInv
<1> HIDE DEF tree, left, hman, dman
<1>8. HeadInv' /\ DiskInv' BY <1>4, <1>6, <1>7, HeadIs, DiskIs DEF Kept, PullFrame
<1>9. HistoryInv' /\ SyncInv' /\ TopicInv' BY <1>1, <1>3, <1>4, <1>6, TakesKeeps
<1>10. OpenInv' BY <1>4 DEF PullFrame, PrefixClean, OpenInv, SoundOrNone
<1>11. FlagInv' BY <1>4, FlagKeeps
<1> QED BY <1>4, <1>8, <1>9, <1>10, <1>11

LEMMA NoMergeKeeps ==
    ASSUME StackInv, PullFrame, NEW c, Sound(c, Len(up), sent), NEW now,
           Follows(now, Len(up)), NEW torn, NEW cut, NoMerge(c, now, torn, cut)
    PROVE  /\ HeadInv' /\ DiskInv' /\ HistoryInv' /\ SyncInv' /\ TopicInv'
           /\ OpenInv' /\ FlagInv' /\ gone' = gone
<1> DEFINE tree == IF Replaces(c) THEN c.tree ELSE head.tree
           dman == IF cut = "replaced" THEN disk.man ELSE now
<1>1. Grows /\ up' = up BY SameUpGrows DEF PullFrame, SameUp
<1>2. /\ disk' = [tree |-> tree, man |-> dman] /\ (Replaces(c) => MayReplace)
      /\ slipped' = (slipped \/ torn)
      /\ took' = took /\ kept' = kept /\ open' = open /\ gone' = gone
  BY DEF NoMerge
<1>3. c.tree \in Trees /\ Sound(c, Len(up'), sent') BY <1>1 DEF Sound, Commit, PullFrame
<1>4. tree \in Trees /\ Kept(tree)
  <2>1. CASE Replaces(c)
    <3>1. head.tree \cap Work \subseteq sent BY <1>2, <2>1, ReplaceSent
    <3> QED BY <1>3, <2>1, <3>1 DEF Kept, StackInv, HeadInv, CountInv
  <2>2. CASE ~Replaces(c) BY <2>2 DEF StackInv, HeadInv
  <2> QED BY <2>1, <2>2
<1>5. Follows(dman, Len(up')) BY <1>1 DEF StackInv, DiskInv
<1>6. \/ head' = head /\ sync' = sync /\ topic' = topic
      \/ head' = disk' /\ sync' = sync /\ topic' = topic
      \/ /\ head' = disk' /\ sync' = [how |-> "plain", at |-> c, here |-> tree]
         /\ topic' = IF topic = None THEN None ELSE [topic EXCEPT !.fresh = FALSE]
  BY DEF NoMerge
<1> HIDE DEF tree, dman
<1>7. DiskInv' BY <1>2, <1>4, <1>5, DiskIs DEF Kept, PullFrame
<1>8. HeadInv'
  <2>1. CASE head' = head BY <1>1, <2>1, HeadStays DEF PullFrame
  <2>2. CASE head' = disk' BY <1>7, <2>2 DEF HeadInv, DiskInv, Kept, Follows, Trees
  <2> QED BY <1>6, <2>1, <2>2
<1>9. HistoryInv' BY <1>1, <1>2, HistoryStays
<1>10. SyncInv'
  <2>1. CASE sync' = sync BY <1>1, <2>1, SyncStays
  <2>2. CASE sync' = [how |-> "plain", at |-> c, here |-> tree]
    BY <1>3, <1>4, <2>2 DEF SyncInv, Trees
  <2> QED BY <1>6, <2>1, <2>2
<1>11. TopicInv'
  <2>1. CASE topic' = topic BY <2>1, TopicStays
  <2>2. CASE topic' = IF topic = None THEN None ELSE [topic EXCEPT !.fresh = FALSE]
    BY <2>2 DEF StackInv, TopicInv, Topic, Trees
  <2> QED BY <1>6, <2>1, <2>2
<1>12. OpenInv' BY <1>2 DEF PullFrame, PrefixClean, OpenInv, SoundOrNone
<1>13. FlagInv' BY <1>2, FlagKeeps
<1> QED BY <1>2, <1>7, <1>8, <1>9, <1>10, <1>11, <1>12, <1>13

LEMMA ConflictKeeps ==
    ASSUME StackInv, PullFrame, NEW c, Sound(c, Len(up), sent), NEW again,
           Conflict(c, again)
    PROVE  /\ HeadInv' /\ DiskInv' /\ HistoryInv' /\ SyncInv' /\ TopicInv'
           /\ OpenInv' /\ FlagInv' /\ gone' = gone
<1> USE DEF Conflict
<1>1. Grows /\ up' = up BY SameUpGrows DEF PullFrame, SameUp
<1>2. HeadInv' /\ DiskInv' BY <1>1, HeadStays, DiskStays DEF PullFrame
<1>3. HistoryInv' /\ SyncInv' /\ TopicInv' BY <1>1, HistoryStays, SyncStays, TopicStays
<1>4. OpenInv' BY <1>1 DEF OpenInv, SoundOrNone, PullFrame, PrefixClean
<1>5. FlagInv' BY FlagKeeps
<1> QED BY <1>2, <1>3, <1>4, <1>5

LEMMA PullOneKeeps ==
    ASSUME StackInv, PullFrame, NEW tip \in 1 .. Len(up), NEW branch,
           SoundOrNone(branch, Len(up), sent), NEW again, NEW cut,
           PullOne(tip, branch, again, cut)
    PROVE  StackInv'
<1> DEFINE at == IF branch = None THEN tip ELSE Earlier(branch.base, tip)
           c == IF branch = None THEN Rev(tip) ELSE branch
           now == Recorded(disk.man, at)
           torn == \/ at # c.base
                   \/ /\ cut \in Unfinished
                      /\ again \/ (branch # None /\ disk.man.cursor # at)
<1>0. Grows /\ up' = up /\ Len(up) \in Nat /\ Len(up) <= MaxRev
  BY SameUpGrows, UpLength DEF PullFrame, SameUp
<1>1. Sound(c, Len(up), sent) BY RevSound DEF SoundOrNone
<1>2. at \in 0 .. Len(up)
  BY <1>0 DEF SoundOrNone, Sound, Commit, Earlier
<1>3. Follows(now, Len(up)) BY <1>0, <1>2, ManifestEdits DEF StackInv, DiskInv
<1>4. \/ Conflict(c, again)
      \/ /\ Cut(cut) /\ (Merge(c, now, torn, cut) \/ NoMerge(c, now, torn, cut))
         /\ refs' = IF branch # None /\ cut = "none"
                    THEN [refs EXCEPT !.propose = branch] ELSE refs
  BY DEF PullOne
<1> HIDE DEF at, c, now, torn
<1>5. /\ HeadInv' /\ DiskInv' /\ HistoryInv' /\ SyncInv' /\ TopicInv'
      /\ OpenInv' /\ FlagInv' /\ gone' = gone
  BY <1>1, <1>3, <1>4, ConflictKeeps, MergeKeeps, NoMergeKeeps
<1>6. UpInv' /\ ForkInv' BY <1>0, UpStays, ForkStays DEF PullFrame
<1>7. RefsInv'
  <2>1. CASE refs' = refs BY <1>0, <2>1, RefsStays
  <2>2. CASE refs' = [refs EXCEPT !.propose = branch]
    BY <1>0, <2>2 DEF StackInv, RefsInv, PullFrame
  <2> QED BY <1>4, <2>1, <2>2 DEF Conflict
<1>8. odd' \in 0 .. MaxOdd
  <2>1. CASE Conflict(c, again) BY <2>1 DEF Conflict, StackInv, CountInv
  <2>2. CASE Cut(cut)
    <3>1. CASE cut = "none" BY <2>2, <3>1, OddKeeps DEF Cut
    <3>2. CASE cut # "none" BY <2>2, <3>2, OddKeeps DEF Cut
    <3> QED BY <3>1, <3>2
  <2> QED BY <1>4, <2>1, <2>2
<1>9. CountInv' BY <1>5, <1>8 DEF StackInv, CountInv, PullFrame
<1> QED BY <1>5, <1>6, <1>7, <1>9 DEF StackInv

LEMMA PullKeeps == ASSUME StackInv, NEW again, NEW cut, Pull(again, cut) PROVE StackInv'
<1>1. PullOne(Tip(head.man, again), None, again, cut) BY DEF Pull
<1>2. Tip(head.man, again) \in 1 .. Len(up) BY TipExists DEF StackInv, HeadInv
<1>3. gone \subseteq gone' BY DEF Pull, PullOne, Conflict, Merge, NoMerge
<1>4. PullFrame BY <1>3 DEF Pull, PullFrame, SameUp, remote, Clean, PrefixClean
<1> QED BY <1>1, <1>2, <1>4, PullOneKeeps DEF SoundOrNone

LEMMA ImportKeeps == ASSUME StackInv, NEW cut, Import(cut) PROVE StackInv'
<1> DEFINE branch == ImportsFrom(disk.man)
           tip == IF disk.man.cursor # 0 /\ branch = None THEN disk.man.cursor
                  ELSE Tip(disk.man, FALSE)
<1>1. PullOne(tip, branch, FALSE, cut) BY DEF Import
<1>2. tip \in 1 .. Len(up)
  <2>1. Follows(disk.man, Len(up)) BY DEF StackInv, DiskInv
  <2>2. Tip(disk.man, FALSE) \in 1 .. Len(up) BY <2>1, TipExists
  <2>3. Len(up) \in Nat /\ MaxRev \in Nat
    BY UpLength, StackAssumption DEF StackAssumption
  <2>4. disk.man.cursor \in 0 .. MaxRev /\ disk.man.cursor <= Len(up)
    BY <2>1 DEF Follows, Manifest
  <2>5. disk.man.cursor # 0 => disk.man.cursor \in 1 .. Len(up) BY <2>3, <2>4
  <2> QED BY <2>2, <2>5
<1>3. SoundOrNone(branch, Len(up), sent)
  BY DEF ImportsFrom, StackInv, ForkInv, SoundOrNone
<1>4. gone \subseteq gone' BY <1>1 DEF PullOne, Conflict, Merge, NoMerge
<1>5. PullFrame BY <1>4 DEF Import, PullFrame, SameUp, remote
<1> QED BY <1>1, <1>2, <1>3, <1>5, PullOneKeeps

(* A branch of the fork, once its tree has been sent.                        *)
LEMMA ForkCommitSound ==
    ASSUME NEW n \in Nat, n <= MaxRev, NEW i \in 1 .. n, NEW tree \in Trees, NEW s,
           tree \cap Work \subseteq s
    PROVE  Sound(ForkCommit(i, tree), n, s)
<1>1. i \in 1 .. MaxRev BY StackAssumption DEF StackAssumption
<1>2. ForkCommit(i, tree) \in Commit /\ ForkCommit(i, tree).base = i
      /\ ForkCommit(i, tree).tree = tree
  BY <1>1 DEF ForkCommit, Commit
<1> QED BY <1>2 DEF Sound

LEMMA AtTipCursor ==
    ASSUME StackInv, AtTip(disk.man) PROVE disk.man.cursor \in 1 .. Len(up)
BY TipExists DEF AtTip, StackInv, DiskInv

LEMMA ProposeTrackOnlyKeeps ==
    ASSUME StackInv, NEW done, ProposeTrackOnly(done) PROVE StackInv'
<1> DEFINE c == ForkCommit(disk.man.cursor, head.tree)
<1>0. /\ fork' = [fork EXCEPT !.track = c]
      /\ refs' = refs \/ refs' = [refs EXCEPT !.integration = c]
      /\ sent' = sent \cup (head.tree \cap Work)
  BY DEF ProposeTrackOnly, Integrate, Send
<1>1. /\ AtTip(disk.man)
      /\ UNCHANGED <<up, tags, head, disk, took, kept, sync, open, topic, made, gone, slipped>>
  BY DEF ProposeTrackOnly
<1>2. SameUp /\ Grows BY <1>0, <1>1, SameUpGrows DEF SameUp
<1>3. Sound(c, Len(up), sent')
  BY <1>0, <1>1, AtTipCursor, UpLength, ForkCommitSound DEF StackInv, HeadInv
<1> HIDE DEF c
<1>4. UpInv' BY <1>2, UpStays
<1>5. ForkInv'
  <2>1. SoundOrNone(fork.proposal, Len(up'), sent')
    BY <1>2, OneStays DEF StackInv, ForkInv
  <2> QED BY <1>0, <1>1, <1>3, <2>1 DEF StackInv, ForkInv, SoundOrNone
<1>6. RefsInv'
  <2>1. SoundOrNone(refs.propose, Len(up'), sent')
    BY <1>2, OneStays DEF StackInv, RefsInv
  <2>2. CASE refs' = refs BY <1>2, <2>2, RefsStays
  <2>3. CASE refs' = [refs EXCEPT !.integration = c]
    BY <1>1, <1>3, <2>1, <2>3 DEF StackInv, RefsInv, SoundOrNone
  <2> QED BY <1>0, <2>2, <2>3
<1>7. HeadInv' /\ DiskInv' BY <1>1, <1>2, HeadStays, DiskStays
<1>8. HistoryInv' /\ SyncInv' /\ OpenInv' /\ TopicInv'
  BY <1>1, <1>2, HistoryStays, SyncStays, OpenStays, TopicStays
<1>9. odd' \in 0 .. MaxOdd
  <2>1. CASE done = "all" BY <2>1, OddKeeps DEF ProposeTrackOnly
  <2>2. CASE done # "all" BY <2>2, OddKeeps DEF ProposeTrackOnly
  <2> QED BY <2>1, <2>2
<1>10. CountInv' BY <1>0, <1>1, <1>9 DEF StackInv, CountInv
<1>11. FlagInv' BY <1>1 DEF StackInv, FlagInv
<1> QED BY <1>4, <1>5, <1>6, <1>7, <1>8, <1>10, <1>11 DEF StackInv

LEMMA ProposeKeeps ==
    ASSUME StackInv, NEW from \in BOOLEAN, NEW n, Propose(from, n) PROVE StackInv'
<1> DEFINE man == disk.man
           tree == IF from THEN topic.tree ELSE head.tree
           c == ForkCommit(man.cursor, tree)
           whole == ForkCommit(man.cursor, head.tree)
           Reaches(e) == \E k \in 1 .. n : Effects[k] = e
           marked == man.proposed \/ Reaches("record")
           named == man.topic \/ (from /\ Reaches("topic"))
           told == [man EXCEPT !.proposed = marked, !.topic = named]
           out == IF from /\ Reaches("track") THEN tree \cup head.tree ELSE tree
           Part(b) == IF b THEN whole ELSE fork.track
<1>1. /\ AtTip(man) /\ n \in 1 .. Len(Effects)
      /\ from => TopicGoes
      /\ fork' = [proposal |-> c,
                  track |-> IF from /\ Reaches("track") THEN whole ELSE fork.track]
      /\ refs' = [propose |-> IF Reaches("ref") THEN c ELSE refs.propose,
                  integration |-> IF from /\ Reaches("trackRef") THEN whole
                                  ELSE refs.integration]
      /\ sent' = sent \cup (out \cap Work)
      /\ disk' = [disk EXCEPT !.man = told]
      /\ head' = IF Reaches("all") /\ head.man = man THEN [head EXCEPT !.man = told] ELSE head
      /\ UNCHANGED <<up, tags, took, kept, sync, open, topic, made, gone, slipped>>
  BY DEF Propose, Send
<1>2. Reaches("trackRef") => Reaches("track")
  <2>1. ASSUME NEW k \in 1 .. n, Effects[k] = "trackRef" PROVE 3 \in 1 .. n
    BY <1>1, <2>1 DEF Effects
  <2> QED BY <2>1 DEF Effects
<1>3. SameUp /\ Grows BY <1>1, SameUpGrows DEF SameUp
<1>4. head.tree \in Trees /\ tree \in Trees
  BY <1>1 DEF TopicGoes, StackInv, HeadInv, TopicInv, Topic
<1>5. tree \cap Work \subseteq sent' BY <1>1
<1>6. man.cursor \in 1 .. Len(up) /\ Len(up) \in Nat /\ Len(up) <= MaxRev
  BY <1>1, AtTipCursor, UpLength
<1>7. Sound(c, Len(up'), sent') BY <1>1, <1>4, <1>5, <1>6, ForkCommitSound
<1>8. from /\ Reaches("track") => Sound(whole, Len(up'), sent')
  BY <1>1, <1>4, <1>6, ForkCommitSound
<1>9. Follows(told, Len(up'))
  <2>1. Follows(man, Len(up')) BY <1>1 DEF StackInv, DiskInv
  <2>2. marked \in BOOLEAN /\ named \in BOOLEAN OBVIOUS
  <2> HIDE DEF marked, named
  <2> QED BY <1>1, <1>6, <2>1, <2>2, ManifestEdits
<1> HIDE DEF c, whole, told, Reaches, tree, out
<1>10. UpInv' BY <1>3, UpStays
<1>11. ForkInv'
  <2>1. SoundOrNone(fork.track, Len(up'), sent') BY <1>3, OneStays DEF StackInv, ForkInv
  <2> QED BY <1>1, <1>7, <1>8, <2>1 DEF ForkInv, SoundOrNone
<1>12. RefsInv'
  <2>1. SoundOrNone(refs.propose, Len(up'), sent')
        /\ SoundOrNone(refs.integration, Len(up'), sent')
    BY <1>3, OneStays DEF StackInv, RefsInv
  <2> QED BY <1>1, <1>2, <1>7, <1>8, <2>1 DEF RefsInv, SoundOrNone
<1>13. Kept(head.tree) /\ Kept(disk.tree) /\ disk.tree \in Trees
       /\ Follows(head.man, Len(up')) /\ Follows(man, Len(up'))
  BY <1>1 DEF StackInv, HeadInv, DiskInv
<1>14. made' \subseteq head.tree \cup sent' \cup gone'
       /\ made' \subseteq disk.tree \cup sent' \cup gone'
  BY <1>1, <1>13 DEF Kept
<1>15. DiskInv'
  <2>1. disk' = [tree |-> disk.tree, man |-> told] BY <1>1, Halves
  <2> QED BY <1>9, <1>13, <1>14, <2>1, DiskIs
<1>16. HeadInv'
  <2>1. CASE head' = head BY <1>1, <1>3, <2>1, HeadStays
  <2>2. CASE head' = [head EXCEPT !.man = told]
    <3>1. head' = [tree |-> head.tree, man |-> told] BY <2>2, Halves
    <3> QED BY <1>4, <1>9, <1>14, <3>1, HeadIs
  <2> QED BY <1>1, <2>1, <2>2
<1>17. HistoryInv' /\ SyncInv' /\ TopicInv'
  BY <1>1, <1>3, HistoryStays, SyncStays, TopicStays
<1>18. OpenInv' BY <1>1 DEF Propose, PrefixClean, OpenInv, SoundOrNone
<1>19. odd' \in 0 .. MaxOdd
  <2>1. CASE n = Len(Effects) BY <2>1, OddKeeps DEF Propose
  <2>2. CASE n # Len(Effects) BY <2>2, OddKeeps DEF Propose
  <2> QED BY <2>1, <2>2
<1>20. CountInv' BY <1>1, <1>19 DEF StackInv, CountInv
<1>21. FlagInv' BY <1>1 DEF StackInv, FlagInv
<1> QED BY <1>10, <1>11, <1>12, <1>15, <1>16, <1>17, <1>18, <1>20, <1>21 DEF StackInv

LEMMA PushKeeps == ASSUME StackInv, NEW cut, Push(cut) PROVE StackInv'
<1> DEFINE now == Recorded(disk.man, Newest + 1)
           c == [base |-> Newest + 1, tree |-> head.tree, own |-> FALSE]
<1>1. /\ Len(up) < MaxRev /\ up' = Append(up, head.tree)
      /\ sent' = sent \cup (head.tree \cap Work) /\ PrefixClean
      /\ UNCHANGED <<tags, fork, made, gone, slipped>>
  BY DEF Push, Send, Newest
<1>2. \/ UNCHANGED local
      \/ /\ Takes(c, head.tree) /\ head' = [head EXCEPT !.man = now] /\ disk' = head'
         /\ UNCHANGED <<open, refs>>
  BY DEF Push
<1>3. head.tree \in Trees /\ Kept(head.tree) /\ MaxRev \in Nat
  BY StackAssumption DEF StackAssumption, StackInv, HeadInv
<1>4. UpInv' /\ Grows /\ Len(up') = Len(up) + 1 BY <1>1, <1>3, UpGrows
<1>5. Sound(c, Len(up'), sent')
  <2>1. Newest + 1 \in 1 .. MaxRev /\ Newest + 1 = Len(up')
    BY <1>1, <1>3, <1>4, UpLength DEF Newest
  <2>2. c \in Commit /\ c.base = Newest + 1 /\ c.tree = head.tree
    BY <1>3, <2>1 DEF Commit
  <2> QED BY <1>1, <1>4, <2>1, <2>2 DEF Sound, Grows
<1>6. Follows(now, Len(up'))
  <2>1. Follows(disk.man, Len(up')) BY <1>4, FollowsStays DEF StackInv, DiskInv
  <2>2. Newest + 1 \in 0 .. Len(up') /\ Len(up') \in Nat /\ Len(up') <= MaxRev
    BY <1>1, <1>3, <1>4, UpLength DEF Newest
  <2> QED BY <2>1, <2>2, ManifestEdits
<1> HIDE DEF c, now
<1>7. ForkInv' BY <1>1, <1>4, ForkStays
<1>8. ASSUME UNCHANGED local
      PROVE  /\ HeadInv' /\ DiskInv' /\ HistoryInv' /\ SyncInv'
             /\ OpenInv' /\ TopicInv' /\ RefsInv'
  <2> USE <1>8 DEF local
  <2>1. HeadInv' /\ DiskInv' /\ RefsInv' BY <1>1, <1>4, HeadStays, DiskStays, RefsStays
  <2>2. HistoryInv' /\ SyncInv' /\ OpenInv' /\ TopicInv'
    BY <1>4, HistoryStays, SyncStays, OpenStays, TopicStays
  <2> QED BY <2>1, <2>2
<1>9. ASSUME /\ Takes(c, head.tree) /\ head' = [head EXCEPT !.man = now] /\ disk' = head'
             /\ UNCHANGED <<open, refs>>
      PROVE  /\ HeadInv' /\ DiskInv' /\ HistoryInv' /\ SyncInv'
             /\ OpenInv' /\ TopicInv' /\ RefsInv'
  <2>1. head' = [tree |-> head.tree, man |-> now] /\ disk' = head' BY <1>9, Halves
  <2>2. made' \subseteq head.tree \cup sent' \cup gone' BY <1>1, <1>3 DEF Kept
  <2>3. HeadInv' /\ DiskInv' BY <1>3, <1>6, <2>1, <2>2, HeadIs, DiskIs
  <2>4. HistoryInv' /\ SyncInv' /\ TopicInv' BY <1>3, <1>4, <1>5, <1>9, TakesKeeps
  <2>5. RefsInv' BY <1>4, <1>9, RefsStays
  <2>6. OpenInv' BY <1>1, <1>9 DEF PrefixClean, OpenInv, SoundOrNone
  <2> QED BY <2>3, <2>4, <2>5, <2>6
<1>10. odd' \in 0 .. MaxOdd
  <2>1. CASE cut = "none" BY <2>1, OddKeeps DEF Push, Cut
  <2>2. CASE cut # "none" BY <2>2, OddKeeps DEF Push, Cut
  <2> QED BY <2>1, <2>2
<1>11. CountInv' BY <1>1, <1>10 DEF StackInv, CountInv
<1>12. FlagInv' BY <1>1 DEF StackInv, FlagInv
<1> QED BY <1>2, <1>4, <1>7, <1>8, <1>9, <1>11, <1>12 DEF StackInv

LEMMA RemoveKeeps ==
    ASSUME StackInv, NEW force \in BOOLEAN, NEW keep \in BOOLEAN, NEW cut,
           Remove(force, keep, cut)
    PROVE  StackInv'
<1> DEFINE tree == IF keep THEN head.tree ELSE {}
           after == [tree |-> tree, man |-> NoMember]
<1>1. /\ disk' = after /\ (head' = head \/ head' = after) /\ open = None
      /\ force \/ MayDrop(disk.man)
      /\ gone' = IF force /\ ~keep THEN gone \cup (head.tree \cap Work) ELSE gone
      /\ refs' = refs \/ refs' = [propose |-> None, integration |-> None]
      /\ UNCHANGED <<up, tags, fork, took, kept, sync, open, topic, made, sent, slipped>>
  BY DEF Remove, GiveUp, remote
<1>2. SameUp /\ Grows BY <1>1, SameUpGrows DEF SameUp
<1>3. UpInv' /\ ForkInv' BY <1>1, <1>2, UpStays, ForkStays
<1>4. tree \in Trees BY DEF StackInv, HeadInv, Trees
<1>5. made' \subseteq tree \cup sent' \cup gone'
  <2>1. Kept(head.tree) /\ made \subseteq Work BY DEF StackInv, HeadInv, CountInv
  <2>2. CASE keep BY <1>1, <2>1, <2>2 DEF Kept
  <2>3. CASE ~keep /\ force BY <1>1, <2>1, <2>3 DEF Kept
  <2>4. CASE ~keep /\ ~force BY <1>1, <2>1, <2>4, DropSent DEF Kept
  <2> QED BY <2>2, <2>3, <2>4
<1>6. Follows(NoMember, Len(up')) BY <1>1, UpLength, NoMemberFollows
<1> HIDE DEF tree
<1>7. DiskInv' BY <1>1, <1>4, <1>5, <1>6, DiskIs
<1>8. HeadInv'
  <2>1. CASE head' = head BY <1>1, <1>2, <2>1, HeadStays
  <2>2. CASE head' = after BY <1>4, <1>5, <1>6, <2>2, HeadIs
  <2> QED BY <1>1, <2>1, <2>2
<1>9. RefsInv'
  <2>1. CASE refs' = refs BY <1>2, <2>1, RefsStays
  <2>2. CASE refs' = [propose |-> None, integration |-> None]
    BY <2>2 DEF RefsInv, SoundOrNone
  <2> QED BY <1>1, <2>1, <2>2
<1>10. HistoryInv' /\ SyncInv' /\ TopicInv'
  BY <1>1, <1>2, HistoryStays, SyncStays, TopicStays
<1>11. OpenInv' BY <1>1 DEF OpenInv, SoundOrNone
<1>12. odd' \in 0 .. MaxOdd
  <2>1. CASE cut = "none" BY <2>1, OddKeeps DEF Remove
  <2>2. CASE cut # "none" BY <2>2, OddKeeps DEF Remove
  <2> QED BY <2>1, <2>2
<1>13. CountInv' BY <1>1, <1>12 DEF StackInv, CountInv
<1>14. FlagInv' BY <1>1 DEF StackInv, FlagInv
<1> QED BY <1>3, <1>7, <1>8, <1>9, <1>10, <1>11, <1>13, <1>14 DEF StackInv

LEMMA AddKeeps == ASSUME StackInv, Add PROVE StackInv'
<1> USE DEF Add, remote, ghosts
<1>1. SameUp /\ Grows BY SameUpGrows DEF SameUp
<1>2. UpInv' /\ ForkInv' BY <1>1, UpStays, ForkStays
<1>3. HeadInv' BY <1>1, HeadStays
<1>4. disk.tree \in Trees /\ Kept(disk.tree) /\ Follows(Added, Len(up'))
  BY UpLength, NoMemberFollows DEF StackInv, DiskInv
<1>5. disk' = [tree |-> disk.tree, man |-> Added] BY Halves
<1>6. DiskInv' BY <1>4, <1>5, DiskIs DEF Kept
<1>7. HistoryInv' /\ SyncInv' /\ TopicInv' /\ RefsInv'
  BY <1>1, HistoryStays, SyncStays, TopicStays, RefsStays
<1>8. OpenInv' BY DEF OpenInv, SoundOrNone
<1>9. CountInv' /\ FlagInv' BY DEF StackInv, CountInv, FlagInv
<1> QED BY <1>2, <1>3, <1>6, <1>7, <1>8, <1>9 DEF StackInv

LEMMA SeedKeeps == ASSUME StackInv, NEW force \in BOOLEAN, Seed(force) PROVE StackInv'
<1> USE DEF Seed, GiveUp, remote
<1>1. SameUp /\ Grows BY SameUpGrows DEF SameUp
<1>2. UpInv' /\ ForkInv' BY <1>1, UpStays, ForkStays
<1>3. made' \subseteq {} \cup sent' \cup gone'
  <2>1. Kept(head.tree) /\ made \subseteq Work BY DEF StackInv, HeadInv, CountInv
  <2>2. CASE force BY <2>1, <2>2 DEF Kept
  <2>3. CASE ~Present BY <2>1, <2>3 DEF Kept, Present
  <2>4. CASE MayDrop(head.man) BY <2>1, <2>4, DropSent DEF Kept
  <2> QED BY <2>2, <2>3, <2>4
<1>4. head' = [tree |-> {}, man |-> head.man] /\ disk' = head' BY Halves
<1>5. Follows(head.man, Len(up')) /\ {} \in Trees
  BY <1>1 DEF StackInv, HeadInv, SameUp, Trees
<1>6. HeadInv' /\ DiskInv' BY <1>3, <1>4, <1>5, HeadIs, DiskIs
<1>7. HistoryInv' BY <1>1 DEF HistoryInv, Grows
<1>8. SyncInv' /\ TopicInv' /\ RefsInv'
  BY DEF SyncInv, TopicInv, RefsInv, SoundOrNone
<1>9. OpenInv' BY DEF Clean, OpenInv, SoundOrNone
<1>10. odd' \in 0 .. MaxOdd BY OddKeeps
<1>11. CountInv' BY <1>10 DEF StackInv, CountInv
<1>12. FlagInv' BY DEF StackInv, FlagInv
<1> QED BY <1>2, <1>6, <1>7, <1>8, <1>9, <1>11, <1>12 DEF StackInv

LEMMA StutterKeeps == ASSUME StackInv, UNCHANGED vars PROVE StackInv'
<1> USE DEF vars, remote, local, ghosts
<1>1. SameUp /\ Grows BY SameUpGrows DEF SameUp
<1>2. UpInv' /\ ForkInv' BY <1>1, UpStays, ForkStays
<1>3. HeadInv' /\ DiskInv' BY <1>1, HeadStays, DiskStays
<1>4. HistoryInv' /\ SyncInv' /\ OpenInv' /\ TopicInv' /\ RefsInv'
  BY <1>1, HistoryStays, SyncStays, OpenStays, TopicStays, RefsStays
<1>5. CountInv' /\ FlagInv' BY DEF StackInv, CountInv, FlagInv
<1> QED BY <1>2, <1>3, <1>4, <1>5 DEF StackInv

(* Every step keeps the invariant.                                           *)
LEMMA NextKeeps == StackInv /\ [Next]_vars => StackInv'
<1> SUFFICES ASSUME StackInv, [Next]_vars PROVE StackInv' OBVIOUS
<1>1. CASE Others BY <1>1, UpstreamMovesKeeps, BranchDeletedKeeps, RecutKeeps DEF Others
<1>2. CASE Person
  BY <1>2, WriteKeeps, WriteTopicKeeps, RepinKeeps, ResolveKeeps, MergeTopicKeeps,
     TrackKeeps, CommitDiskKeeps, ResetDiskKeeps, AbortKeeps DEF Person, Trees
<1>3. CASE Commands
  <2>1. ASSUME NEW again \in BOOLEAN, NEW cut \in Cuts, Pull(again, cut) PROVE StackInv'
    BY <2>1, PullKeeps
  <2>2. ASSUME NEW cut \in Cuts, Import(cut) PROVE StackInv'
    BY <2>2, ImportKeeps
  <2>3. ASSUME NEW from \in BOOLEAN, NEW n \in 1 .. Len(Effects), Propose(from, n)
        PROVE  StackInv'
    BY <2>3, ProposeKeeps
  <2>4. ASSUME NEW done \in {"push", "all"}, ProposeTrackOnly(done) PROVE StackInv'
    BY <2>4, ProposeTrackOnlyKeeps
  <2>5. ASSUME NEW cut \in {"pushed", "none"}, Push(cut) PROVE StackInv'
    BY <2>5, PushKeeps
  <2>6. ASSUME NEW force \in BOOLEAN, NEW keep \in BOOLEAN,
               NEW cut \in {"none", "edited", "committed"}, Remove(force, keep, cut)
        PROVE  StackInv'
    BY <2>6, RemoveKeeps
  <2>7. CASE Add BY <2>7, AddKeeps
  <2>8. ASSUME NEW force \in BOOLEAN, Seed(force) PROVE StackInv'
    BY <2>8, SeedKeeps
  <2> QED BY <1>3, <2>1, <2>2, <2>3, <2>4, <2>5, <2>6, <2>7, <2>8 DEF Commands
<1>4. CASE UNCHANGED vars BY <1>4, StutterKeeps
<1> QED BY <1>1, <1>2, <1>3, <1>4 DEF Next

(* The invariant holds in every reachable state.                             *)
LEMMA AlwaysStackInv == Spec => []StackInv
BY InitKeeps, NextKeeps, PTL DEF Spec

(* Work committed in a member is never lost to a command that was not        *)
(* forced, wherever commands are cut short: it is in the directory, or has   *)
(* been sent, or a person gave it up (rm and seed's unsent work, pull's      *)
(* replacement guard).                                                       *)
THEOREM WorkIsNotLost == Spec => []WorkLeavesFirst
<1>1. StackInv => WorkLeavesFirst BY DEF StackInv, HeadInv, Kept, WorkLeavesFirst
<1> QED BY <1>1, AlwaysStackInv, PTL

(* Every reachable state of Stackspace is well typed.                        *)
THEOREM StackTyped == Spec => []TypeOK
<1>1. ASSUME StackInv PROVE TypeOK
  <2> USE <1>1 DEF StackInv
  <2>1. /\ up \in Seq(Trees) /\ Len(up) \in 1 .. MaxRev
        /\ tags \in [1 .. MaxRev -> 1 .. MaxRev]
    BY DEF UpInv, TagInv
  <2>2. fork \in [proposal : Commit \cup {None}, track : Commit \cup {None}]
    <3>1. fork.proposal \in Commit \cup {None} /\ fork.track \in Commit \cup {None}
      BY DEF ForkInv, SoundOrNone, Sound
    <3>2. fork = [proposal |-> fork.proposal, track |-> fork.track] BY DEF ForkInv
    <3> QED BY <3>1, <3>2
  <2>3. refs \in [propose : Commit \cup {None}, integration : Commit \cup {None}]
    <3>1. refs.propose \in Commit \cup {None} /\ refs.integration \in Commit \cup {None}
      BY DEF RefsInv, SoundOrNone, Sound
    <3>2. refs = [propose |-> refs.propose, integration |-> refs.integration]
      BY DEF RefsInv
    <3> QED BY <3>1, <3>2
  <2>4. head \in [tree : Trees, man : Manifest]
    <3>1. head.tree \in Trees /\ head.man \in Manifest BY DEF HeadInv, Follows
    <3>2. head = [tree |-> head.tree, man |-> head.man] BY DEF HeadInv
    <3> QED BY <3>1, <3>2
  <2>5. disk \in [tree : Trees, man : Manifest]
    <3>1. disk.tree \in Trees /\ disk.man \in Manifest BY DEF DiskInv, Follows
    <3>2. disk = [tree |-> disk.tree, man |-> disk.man] BY DEF DiskInv
    <3> QED BY <3>1, <3>2
  <2>6. took \in 0 .. MaxRev /\ kept \subseteq Commit
    BY UpLength, StackAssumption DEF StackAssumption, HistoryInv, Sound
  <2>7. sync \in SyncMark \cup {None}
    <3>1. CASE sync = None BY <3>1
    <3>2. CASE sync # None
      <4>1. /\ sync = [how |-> sync.how, at |-> sync.at, here |-> sync.here]
            /\ sync.how \in {"merge", "plain"} /\ sync.at \in Commit /\ sync.here \in Trees
        BY <3>2 DEF SyncInv, Sound
      <4> QED BY <4>1 DEF SyncMark
    <3> QED BY <3>1, <3>2
  <2>8. open \in Commit \cup {None} BY DEF OpenInv, SoundOrNone, Sound
  <2>9. topic \in Topic \cup {None}
    BY DEF TopicInv, Topic
  <2>10. /\ odd \in 0 .. MaxOdd
         /\ made \subseteq Work /\ sent \subseteq Work /\ gone \subseteq Work
    BY DEF CountInv
  <2>11. slipped \in BOOLEAN BY DEF FlagInv
  <2> QED BY <2>1, <2>2, <2>3, <2>4, <2>5, <2>6, <2>7, <2>8, <2>9, <2>10, <2>11 DEF TypeOK
<1> QED BY <1>1, AlwaysStackInv, PTL
-----------------------------------------------------------------------------
(* Facts.  Unless a step was one CursorTellsTheTruth does not cover, every   *)
(* tree in the system has the facts of the revision it stands on: those of   *)
(* the fork's branches, of the newest sync, of the topic and of the          *)
(* directory.  What a manifest says of the directory may lag, but only while *)
(* a merge is not recorded yet, and then pull has something to do.           *)
SameFacts(s, t) == s \ Work = t \ Work
Even(c) == c = None \/ SameFacts(c.tree, up[c.base])
Behind(man) == man.cursor = 0 \/ Tip(man, FALSE) # man.cursor
At(man) == SameFacts(head.tree, up[man.cursor])
Lags(man) == sync # None /\ sync.how = "merge" /\ sync.at.base # man.cursor
Tells(man) == man.cursor = 0 \/ At(man) \/ Lags(man)
TellsOrLags(man) == man.cursor = 0 \/ At(man) \/ (Lags(man) /\ Behind(man))

LineInv == 1 \in up[1] /\ \A i, j \in 1 .. Len(up) : i <= j => up[i] \ Work \subseteq up[j]
ForkEven == Even(fork.proposal) /\ Even(fork.track)
SyncEven == sync # None => SameFacts(sync.here, up[sync.at.base])
HistoryEven == /\ \A k \in kept : k.base <= took
               /\ sync # None /\ sync.how = "merge" /\ ~sync.at.own => took = sync.at.base
TopicEven == topic # None =>
    /\ SameFacts(topic.root, topic.tree)
    /\ topic.fresh => sync # None /\ SameFacts(topic.root, sync.here)
OpenEven == open # None =>
    /\ Present /\ ~InHistory(open) /\ SameFacts(open.tree, up[open.base])
    /\ SameFacts(BaseTree(open), head.tree) /\ Behind(disk.man)
PlaceEven == Present => sync # None /\ SameFacts(head.tree, sync.here)
HeadEven == Present => Tells(head.man)
DiskEven == Present /\ disk.tree = head.tree => TellsOrLags(disk.man)

FactsInv == /\ LineInv /\ ForkEven /\ SyncEven /\ HistoryEven /\ TopicEven
            /\ OpenEven /\ PlaceEven /\ HeadEven /\ DiskEven

(* A merge with a side that has the base's facts has the other side's.       *)
LEMMA MergeFacts ==
    ASSUME NEW base, NEW ours, NEW theirs
    PROVE  /\ SameFacts(base, ours) => SameFacts(Merge3(base, ours, theirs), theirs)
           /\ SameFacts(base, theirs) => SameFacts(Merge3(base, ours, theirs), ours)
BY DEF SameFacts, Merge3

LEMMA FactsTrans ==
    ASSUME NEW r, NEW s, NEW t, SameFacts(r, s), SameFacts(s, t) PROVE SameFacts(r, t)
BY DEF SameFacts

LEMMA FactsSym == ASSUME NEW r, NEW s, SameFacts(r, s) PROVE SameFacts(s, r)
BY DEF SameFacts

(* What upstream had it still has, as it was.                                *)
Extends == /\ Len(up) \in Nat /\ Len(up') \in Nat /\ Len(up) <= Len(up')
           /\ \A i \in 1 .. Len(up) : up'[i] = up[i]
           /\ tags' = tags

LEMMA SameExtends == ASSUME StackInv, up' = up, tags' = tags PROVE Extends
BY UpLength DEF Extends

LEMMA AppendExtends ==
    ASSUME StackInv, NEW tree \in Trees, up' = Append(up, tree), tags' = tags
    PROVE  /\ Extends /\ Len(up') = Len(up) + 1 /\ up'[Len(up) + 1] = tree
           /\ Len(up) >= 1
<1>1. up \in Seq(Trees) /\ Len(up) \in Nat /\ Len(up) >= 1
  BY DEF StackInv, UpInv
<1> QED BY <1>1 DEF Extends

(* The line of revisions only gains facts.                                   *)
LEMMA LineStays == ASSUME StackInv, LineInv, up' = up PROVE LineInv'
BY DEF LineInv

LEMMA LineGrows ==
    ASSUME StackInv, LineInv, NEW tree \in Trees, up' = Append(up, tree), tags' = tags,
           up[Newest] \ Work \subseteq tree
    PROVE  LineInv'
<1>1. /\ Extends /\ Len(up') = Len(up) + 1 /\ up'[Len(up) + 1] = tree /\ Len(up) >= 1
      /\ Len(up) \in Nat
  BY AppendExtends, UpLength
<1>2. ASSUME NEW i \in 1 .. Len(up'), NEW j \in 1 .. Len(up'), i <= j
      PROVE  up'[i] \ Work \subseteq up'[j]
  <2>1. CASE j \in 1 .. Len(up)
    <3>1. i \in 1 .. Len(up) BY <1>1, <1>2, <2>1
    <3> QED BY <1>1, <1>2, <2>1, <3>1 DEF Extends, LineInv
  <2>2. CASE j = Len(up) + 1 /\ i \in 1 .. Len(up)
    <3>1. up[i] \ Work \subseteq up[Newest] BY <1>1, <2>2 DEF LineInv, Newest
    <3> QED BY <1>1, <2>2, <3>1 DEF Extends
  <2>3. CASE i = Len(up) + 1 /\ j = Len(up) + 1 BY <2>3
  <2> QED BY <1>1, <1>2, <2>1, <2>2, <2>3
<1>3. 1 \in up'[1] BY <1>1 DEF LineInv, Extends
<1> QED BY <1>2, <1>3 DEF LineInv

(* Every revision has the first fact, so none of them is empty of facts.     *)
LEMMA FirstFact ==
    ASSUME StackInv, LineInv, NEW i \in 1 .. Len(up) PROVE 1 \in up[i] \ Work
<1>1. 1 \notin Work BY StackAssumption DEF StackAssumption
<1>2. 1 \in 1 .. Len(up) /\ 1 <= i BY UpLength
<1> QED BY <1>1, <1>2 DEF LineInv

(* The base of a merge has no facts the merged commit lacks.                 *)
LEMMA BaseFacts ==
    ASSUME StackInv, LineInv, NEW c, Sound(c, Len(up), sent), SameFacts(c.tree, up[c.base])
    PROVE  BaseTree(c) \ Work \subseteq c.tree
<1>1. c.base \in 1 .. Len(up) /\ took \in 0 .. Len(up)
  BY UpLength, StackAssumption DEF StackAssumption, StackInv, HistoryInv, Sound, Commit
<1>2. Earlier(c.base, took) \in 0 .. c.base BY <1>1, UpLength DEF Earlier
<1>3. CASE Earlier(c.base, took) = 0 BY <1>3 DEF BaseTree
<1>4. CASE Earlier(c.base, took) # 0
  <2>1. Earlier(c.base, took) \in 1 .. Len(up) /\ Earlier(c.base, took) <= c.base
    BY <1>1, <1>2, <1>4, UpLength
  <2>2. up[Earlier(c.base, took)] \ Work \subseteq up[c.base] BY <1>1, <2>1 DEF LineInv
  <2> QED BY <1>4, <2>2 DEF BaseTree, SameFacts
<1> QED BY <1>3, <1>4

(* The fork's branches, while they stay or their base is kept.               *)
LEMMA EvenStays ==
    ASSUME StackInv, Extends, NEW c, SoundOrNone(c, Len(up), sent), Even(c) PROVE Even(c)'
<1>1. CASE c = None BY <1>1 DEF Even
<1>2. CASE c # None
  <2>1. c.base \in 1 .. Len(up) BY <1>2 DEF SoundOrNone, Sound, Commit, Extends
  <2> QED BY <1>2, <2>1 DEF Even, Extends
<1> QED BY <1>1, <1>2

LEMMA ForkEvenStays == ASSUME StackInv, FactsInv, Extends, fork' = fork PROVE ForkEven'
BY EvenStays DEF StackInv, ForkInv, FactsInv, ForkEven, Even

(* What a merge records of the commit it took.                               *)
LEMMA TakesEven ==
    ASSUME StackInv, FactsInv, Extends, NEW c, Sound(c, Len(up'), sent'), NEW here \in Trees,
           Takes(c, here), ~InHistory(c), SameFacts(here, up'[c.base])
    PROVE  /\ SyncEven' /\ HistoryEven' /\ TopicEven'
           /\ sync' # None /\ sync'.how = "merge" /\ sync'.at = c /\ sync'.here = here
<1>1. /\ sync' = [how |-> "merge", at |-> c, here |-> here]
      /\ took' = (IF c.base > took THEN c.base ELSE took)
      /\ kept' = (IF c.own THEN kept \cup {c} ELSE kept)
      /\ topic' = IF topic = None THEN None ELSE [topic EXCEPT !.fresh = FALSE]
  BY DEF Takes
<1>2. c \in Commit /\ c.base \in Nat /\ took \in Nat /\ \A k \in kept : k.base \in Nat
  BY StackAssumption DEF StackAssumption, StackInv, HistoryInv, Sound, Commit
<1>3. sync' # None
  BY <1>1, <1>2, StackAssumption DEF StackAssumption, SyncMark
<1>4. SyncEven' BY <1>1 DEF SyncEven, SameFacts
<1>5. HistoryEven'
  <2>1. \A k \in kept' : k.base <= took' BY <1>1, <1>2 DEF FactsInv, HistoryEven
  <2>2. ~c.own => took' = c.base BY <1>1, <1>2 DEF InHistory
  <2> QED BY <1>1, <2>1, <2>2 DEF HistoryEven
<1>6. TopicEven'
  <2>1. CASE topic = None BY <1>1, <2>1 DEF TopicEven
  <2>2. CASE topic # None
    <3>1. topic \in Topic /\ SameFacts(topic.root, topic.tree)
      BY <2>2 DEF StackInv, TopicInv, FactsInv, TopicEven
    <3>2. topic'.fresh = FALSE /\ topic'.root = topic.root /\ topic'.tree = topic.tree
      BY <1>1, <2>2, <3>1 DEF Topic
    <3> QED BY <3>1, <3>2 DEF TopicEven, SameFacts
  <2> QED BY <2>1, <2>2
<1> QED BY <1>1, <1>3, <1>4, <1>5, <1>6

(* A step that leaves the history and the last sync, and the facts of the    *)
(* directory and what the manifests say of it as they were.                  *)
SameRecord(a, b) == a.pin = b.pin /\ a.cursor = b.cursor /\ a.lastPin = b.lastPin
Quiet == /\ Extends /\ UNCHANGED <<took, kept, sync>>
         /\ Present' => Present
         /\ SameFacts(head'.tree, head.tree)
         /\ disk'.tree = head'.tree => disk.tree = head.tree
         /\ SameRecord(head'.man, head.man) /\ SameRecord(disk'.man, disk.man)

LEMMA AtStays ==
    ASSUME StackInv, Extends, NEW i \in 0 .. Len(up), i # 0,
           SameFacts(head'.tree, head.tree), SameFacts(head.tree, up[i])
    PROVE  SameFacts(head'.tree, up'[i])
BY FactsTrans DEF Extends

(* A manifest that is behind stays behind as upstream moves.                 *)
LEMMA BehindStays ==
    ASSUME StackInv, Extends, NEW a, NEW b, Follows(a, Len(up)), SameRecord(b, a), Behind(a)
    PROVE  Behind(b)'
BY UpLength DEF Behind, Tip, SameRecord, Follows, Manifest, Newest, Extends

LEMMA QuietEven ==
    ASSUME StackInv, FactsInv, Quiet
    PROVE  SyncEven' /\ HistoryEven' /\ PlaceEven' /\ HeadEven' /\ DiskEven'
<1> USE DEF Quiet
<1>1. SyncEven'
  <2>1. CASE sync = None BY <2>1 DEF SyncEven
  <2>2. CASE sync # None
    <3>1. sync.at.base \in 1 .. Len(up)
      BY <2>2, UpLength, StackAssumption
         DEF StackAssumption, StackInv, SyncInv, Sound, Commit
    <3> QED BY <2>2, <3>1 DEF FactsInv, SyncEven, Extends
  <2> QED BY <2>1, <2>2
<1>2. HistoryEven' BY DEF FactsInv, HistoryEven
<1>3. PlaceEven' BY FactsTrans DEF FactsInv, PlaceEven
<1>4. /\ head.man.cursor \in 0 .. Len(up) /\ disk.man.cursor \in 0 .. Len(up)
      /\ Follows(head.man, Len(up)) /\ Follows(disk.man, Len(up))
  BY UpLength DEF StackInv, HeadInv, DiskInv, Follows, Manifest
<1>5. HeadEven'
  <2> SUFFICES ASSUME Present' PROVE Tells(head.man)'
    BY DEF HeadEven
  <2>1. Tells(head.man) BY DEF FactsInv, HeadEven
  <2>2. head'.man.cursor = head.man.cursor BY DEF SameRecord
  <2>3. CASE head.man.cursor = 0 BY <2>2, <2>3 DEF Tells
  <2>4. CASE head.man.cursor # 0 /\ At(head.man)
    BY <1>4, <2>2, <2>4, AtStays DEF Tells, At
  <2>5. CASE Lags(head.man) BY <2>2, <2>5 DEF Tells, Lags
  <2> QED BY <2>1, <2>3, <2>4, <2>5 DEF Tells
<1>6. DiskEven'
  <2> SUFFICES ASSUME Present', disk'.tree = head'.tree PROVE TellsOrLags(disk.man)'
    BY DEF DiskEven
  <2>1. TellsOrLags(disk.man) BY DEF FactsInv, DiskEven
  <2>2. disk'.man.cursor = disk.man.cursor BY DEF SameRecord
  <2>3. CASE disk.man.cursor = 0 BY <2>2, <2>3 DEF TellsOrLags
  <2>4. CASE disk.man.cursor # 0 /\ At(disk.man)
    BY <1>4, <2>2, <2>4, AtStays DEF TellsOrLags, At
  <2>5. CASE Lags(disk.man) /\ Behind(disk.man)
    <3>1. Behind(disk.man)' BY <1>4, <2>5, BehindStays
    <3> QED BY <2>2, <2>5, <3>1 DEF TellsOrLags, Lags
  <2> QED BY <2>1, <2>3, <2>4, <2>5 DEF TellsOrLags
<1> QED BY <1>1, <1>2, <1>3, <1>5, <1>6

LEMMA TopicEvenStays ==
    ASSUME FactsInv, topic' = topic, sync' = sync PROVE TopicEven'
BY DEF FactsInv, TopicEven

LEMMA NoneOpen == ASSUME open' = None PROVE OpenEven'
BY DEF OpenEven

(* A stopped merge stays what it was as upstream moves.                      *)
LEMMA OpenEvenStays ==
    ASSUME StackInv, FactsInv, Extends, UNCHANGED <<open, took, kept, head, disk>>
    PROVE  OpenEven'
<1> SUFFICES ASSUME open # None PROVE OpenEven' BY DEF OpenEven
<1>1. /\ Present /\ ~InHistory(open) /\ SameFacts(open.tree, up[open.base])
      /\ SameFacts(BaseTree(open), head.tree) /\ Behind(disk.man)
  BY DEF FactsInv, OpenEven
<1>2. open.base \in 1 .. Len(up) /\ took \in 0 .. Len(up) /\ Len(up) \in Nat
  BY UpLength, StackAssumption
     DEF StackAssumption, StackInv, HistoryInv, OpenInv, SoundOrNone, Sound, Commit
<1>3. Earlier(open.base, took) \in 0 .. Len(up) BY <1>2 DEF Earlier
<1>4. BaseTree(open)' = BaseTree(open) BY <1>2, <1>3 DEF BaseTree, Extends, Earlier
<1>5. Behind(disk.man)' BY <1>1, BehindStays DEF StackInv, DiskInv, SameRecord
<1>6. up'[open.base] = up[open.base] BY <1>2 DEF Extends
<1> QED BY <1>1, <1>4, <1>5, <1>6 DEF OpenEven, Present, InHistory, SameFacts

LEMMA UpstreamMovesEven == ASSUME StackInv, FactsInv, UpstreamMoves PROVE FactsInv'
<1> USE DEF UpstreamMoves, local, ghosts
<1>0. Len(up) \in Nat /\ Newest \in 1 .. Len(up) /\ up[Newest] \in Trees
  BY DEF StackInv, UpInv, Newest
<1>1. \E tree \in Trees : up' = Append(up, tree) /\ up[Newest] \ Work \subseteq tree
  <2>1. CASE up' = Append(up, up[Newest] \cup {Newest + 1})
    <3>1. Newest + 1 \in 1 .. MaxRev
      BY <1>0, StackAssumption DEF StackAssumption, Newest
    <3>2. up[Newest] \cup {Newest + 1} \in Trees BY <1>0, <3>1 DEF Trees
    <3> QED BY <2>1, <3>2
  <2>2. CASE /\ fork.proposal # None
             /\ up' = Append(up, Merge3(up[fork.proposal.base], up[Newest], fork.proposal.tree))
    <3> DEFINE tree == Merge3(up[fork.proposal.base], up[Newest], fork.proposal.tree)
    <3>1. /\ fork.proposal.tree \in Trees /\ fork.proposal.base \in 1 .. Len(up)
          /\ SameFacts(fork.proposal.tree, up[fork.proposal.base])
      BY <1>0, <2>2 DEF StackInv, ForkInv, SoundOrNone, Sound, Commit, FactsInv, ForkEven, Even
    <3>2. tree \in Trees BY <1>0, <3>1, MergeParts DEF Trees
    <3>3. SameFacts(tree, up[Newest])
      BY <3>1, MergeFacts, FactsSym
    <3> HIDE DEF tree
    <3> QED BY <2>2, <3>2, <3>3 DEF SameFacts, tree
  <2> QED BY <2>1, <2>2
<1>2. Extends /\ LineInv' BY <1>1, AppendExtends, LineGrows DEF FactsInv
<1>3. Quiet BY <1>2 DEF Quiet, SameRecord, SameFacts, Present
<1>4. SyncEven' /\ HistoryEven' /\ PlaceEven' /\ HeadEven' /\ DiskEven' BY <1>3, QuietEven
<1>5. ForkEven' /\ TopicEven' BY <1>2, ForkEvenStays, TopicEvenStays
<1>6. OpenEven' BY <1>2, OpenEvenStays
<1> QED BY <1>2, <1>4, <1>5, <1>6 DEF FactsInv

LEMMA BranchDeletedEven == ASSUME StackInv, FactsInv, BranchDeleted PROVE FactsInv'
<1> USE DEF BranchDeleted, local, ghosts
<1>1. Extends /\ LineInv' BY SameExtends, LineStays DEF FactsInv
<1>2. Quiet BY <1>1 DEF Quiet, SameRecord, SameFacts, Present
<1>3. SyncEven' /\ HistoryEven' /\ PlaceEven' /\ HeadEven' /\ DiskEven' BY <1>2, QuietEven
<1>4. ForkEven' BY DEF FactsInv, ForkEven, Even, StackInv, ForkInv
<1>5. TopicEven' /\ OpenEven' BY <1>1, TopicEvenStays, OpenEvenStays
<1> QED BY <1>1, <1>3, <1>4, <1>5 DEF FactsInv

(* Work is not a fact of upstream.                                           *)
LEMMA WorkIsNoFact ==
    ASSUME NEW tree, NEW w \in Work PROVE SameFacts(tree \cup {w}, tree)
BY DEF SameFacts

LEMMA WriteEven == ASSUME StackInv, FactsInv, NEW w \in Work, Write(w) PROVE FactsInv'
<1> USE DEF Write, remote
<1>1. Extends /\ LineInv' BY SameExtends, LineStays DEF FactsInv
<1>2. head' = [tree |-> head.tree \cup {w}, man |-> head.man] /\ disk' = head' BY Halves
<1>3. Quiet
  BY <1>1, <1>2, WorkIsNoFact DEF Quiet, SameRecord, Present, Clean
<1>4. SyncEven' /\ HistoryEven' /\ PlaceEven' /\ HeadEven' /\ DiskEven' BY <1>3, QuietEven
<1>5. ForkEven' /\ TopicEven' BY <1>1, ForkEvenStays, TopicEvenStays
<1>6. OpenEven' BY NoneOpen DEF Clean
<1> QED BY <1>1, <1>4, <1>5, <1>6 DEF FactsInv

LEMMA WriteTopicEven == ASSUME StackInv, FactsInv, NEW w \in Work, WriteTopic(w) PROVE FactsInv'
<1> USE DEF WriteTopic, remote, ghosts
<1>1. Extends /\ LineInv' BY SameExtends, LineStays DEF FactsInv
<1>2. Quiet BY <1>1 DEF Quiet, SameRecord, SameFacts, Present
<1>3. SyncEven' /\ HistoryEven' /\ PlaceEven' /\ HeadEven' /\ DiskEven' BY <1>2, QuietEven
<1>4. ForkEven' BY <1>1, ForkEvenStays
<1>5. TopicEven'
  <2>1. topic'.root = sync.here /\ topic'.tree = sync.here \cup {w} /\ sync' = sync
    OBVIOUS
  <2>2. SameFacts(topic'.root, topic'.tree) BY <2>1, WorkIsNoFact, FactsSym
  <2>3. SameFacts(topic'.root, sync'.here) BY <2>1 DEF SameFacts
  <2> QED BY <2>2, <2>3 DEF TopicEven, SameFacts
<1>6. OpenEven' BY NoneOpen DEF Clean
<1> QED BY <1>1, <1>3, <1>4, <1>5, <1>6 DEF FactsInv

LEMMA MergeTopicEven == ASSUME StackInv, FactsInv, MergeTopic PROVE FactsInv'
<1> USE DEF MergeTopic, remote
<1> DEFINE tree == Merge3(topic.root, head.tree, topic.tree)
<1>1. Extends /\ LineInv' BY SameExtends, LineStays DEF FactsInv
<1>2. head' = [tree |-> tree, man |-> head.man] /\ disk' = head' BY Halves
<1>3. topic \in Topic /\ SameFacts(topic.root, topic.tree)
  BY DEF StackInv, TopicInv, FactsInv, TopicEven
<1>4. SameFacts(tree, head.tree) BY <1>3, MergeFacts
<1> HIDE DEF tree
<1>5. Quiet BY <1>1, <1>2, <1>4 DEF Quiet, SameRecord, Clean, Present
<1>6. SyncEven' /\ HistoryEven' /\ PlaceEven' /\ HeadEven' /\ DiskEven' BY <1>5, QuietEven
<1>7. ForkEven' BY <1>1, ForkEvenStays
<1>8. TopicEven'
  <2>1. topic'.root = topic.root /\ topic'.tree = topic.tree /\ topic'.fresh = topic.fresh
    BY <1>3 DEF Topic
  <2> QED BY <2>1 DEF FactsInv, TopicEven, SameFacts
<1>9. OpenEven' BY NoneOpen DEF Clean
<1> QED BY <1>1, <1>6, <1>7, <1>8, <1>9 DEF FactsInv

(* A manifest edited and committed: what HEAD's tells of the directory, the  *)
(* worktree's tells.                                                         *)
LEMMA EditEven ==
    ASSUME StackInv, FactsInv, NEW man, EditManifest(man),
           Present => TellsOrLags(man)
    PROVE  FactsInv'
<1> USE DEF EditManifest, remote
<1>1. Extends /\ LineInv' BY SameExtends, LineStays DEF FactsInv
<1>2. head' = [tree |-> head.tree, man |-> man] /\ disk' = head' BY Halves
<1>3. SyncEven' /\ HistoryEven' /\ PlaceEven'
  BY <1>2 DEF FactsInv, SyncEven, HistoryEven, PlaceEven, Present, SameFacts
<1>4. head'.man = man /\ disk'.man = man /\ head'.tree = head.tree /\ up' = up /\ sync' = sync
  BY <1>2
<1>5. HeadEven' /\ DiskEven'
  <2> SUFFICES ASSUME Present' PROVE Tells(head.man)' /\ TellsOrLags(disk.man)'
    BY DEF HeadEven, DiskEven
  <2>1. TellsOrLags(man) BY <1>4 DEF Present
  <2>2. TellsOrLags(disk.man)'
    BY <1>4, <2>1 DEF TellsOrLags, At, Lags, Behind, Tip, Newest, SameFacts
  <2>3. Tells(head.man)' BY <1>4, <2>1 DEF TellsOrLags, Tells, At, Lags, SameFacts
  <2> QED BY <2>2, <2>3
<1>6. ForkEven' /\ TopicEven' BY <1>1, ForkEvenStays, TopicEvenStays
<1>7. OpenEven' BY NoneOpen DEF Clean
<1> QED BY <1>1, <1>3, <1>5, <1>6, <1>7 DEF FactsInv

(* A tag cut again brings no manifest to its own cursor while a merge waits  *)
(* to be recorded, so that who was behind still is.                          *)
LEMMA RecutEven ==
    ASSUME StackInv, FactsInv, NEW i \in 1 .. MaxRev, Recut(i), ~slipped' PROVE FactsInv'
<1>1. /\ UNCHANGED <<up, fork, head, disk, took, kept, sync, open, topic>>
      /\ tags' = [tags EXCEPT ![head.man.pin] = i]
      /\ i = disk.man.cursor => open = None /\ ~Unrecorded(disk.man)
  BY DEF Recut, local
<1>2. LineInv' /\ ForkEven' /\ SyncEven' /\ HistoryEven' /\ TopicEven'
  BY <1>1 DEF FactsInv, LineInv, ForkEven, Even, SyncEven, HistoryEven, TopicEven, SameFacts
<1>3. PlaceEven' /\ HeadEven'
  BY <1>1 DEF FactsInv, PlaceEven, HeadEven, Tells, At, Lags, Present, SameFacts
<1>4. ASSUME Behind(disk.man), i # disk.man.cursor PROVE Behind(disk.man)'
  <2>1. CASE disk.man.cursor = 0 BY <1>1, <2>1 DEF Behind
  <2>2. CASE disk.man.cursor # 0 /\ disk.man.pin = 0
    BY <1>1, <1>4, <2>2 DEF Behind, Tip, Newest
  <2>3. CASE disk.man.cursor # 0 /\ disk.man.pin # 0
    <3>1. disk.man.lastPin # disk.man.pin /\ tags[disk.man.pin] # disk.man.cursor
      BY <1>4, <2>3 DEF Behind, Tip
    <3>2. disk.man.pin \in 1 .. MaxRev
      BY <2>3, StackAssumption DEF StackAssumption, StackInv, DiskInv, Follows, Manifest
    <3>3. tags'[disk.man.pin] # disk.man.cursor
      BY <1>1, <1>4, <3>1, <3>2 DEF StackInv, UpInv, TagInv
    <3> QED BY <1>1, <2>3, <3>1, <3>3 DEF Behind, Tip
  <2> QED BY <2>1, <2>2, <2>3
<1>5. OpenEven'
  <2> SUFFICES ASSUME open # None PROVE OpenEven' BY <1>1 DEF OpenEven
  <2>1. Behind(disk.man)' BY <1>1, <1>4 DEF FactsInv, OpenEven
  <2> QED BY <1>1, <2>1
          DEF FactsInv, OpenEven, Present, InHistory, SameFacts, BaseTree, Earlier
<1>6. DiskEven'
  <2> SUFFICES ASSUME Present, disk.tree = head.tree PROVE TellsOrLags(disk.man)'
    BY <1>1 DEF DiskEven, Present
  <2>1. TellsOrLags(disk.man) BY DEF FactsInv, DiskEven
  <2>2. CASE disk.man.cursor = 0 \/ At(disk.man)
    BY <1>1, <2>2 DEF TellsOrLags, At, SameFacts
  <2>3. CASE Lags(disk.man) /\ Behind(disk.man)
    <3>1. Behind(disk.man)' BY <1>1, <1>4, <2>3 DEF Lags, Unrecorded
    <3> QED BY <1>1, <2>3, <3>1 DEF TellsOrLags, Lags
  <2> QED BY <2>1, <2>2, <2>3 DEF TellsOrLags
<1> QED BY <1>2, <1>3, <1>5, <1>6 DEF FactsInv

LEMMA TrackEven == ASSUME StackInv, FactsInv, Track PROVE FactsInv'
<1> DEFINE man == [head.man EXCEPT !.track = TRUE]
<1>1. EditManifest(man) /\ Clean BY DEF Track, EditManifest
<1>2. man.pin = head.man.pin /\ man.cursor = head.man.cursor /\ man.lastPin = head.man.lastPin
  BY DEF StackInv, HeadInv, Follows, Manifest
<1> HIDE DEF man
<1>3. Present => TellsOrLags(man)
  <2>1. Present => TellsOrLags(head.man) BY <1>1 DEF Clean, FactsInv, DiskEven
  <2> QED BY <1>2, <2>1 DEF TellsOrLags, At, Lags, Behind, Tip
<1> QED BY <1>1, <1>3, EditEven

LEMMA RepinEven ==
    ASSUME StackInv, FactsInv, NEW p \in 0 .. MaxRev, Repin(p), ~slipped'
    PROVE  FactsInv'
<1> DEFINE man == [head.man EXCEPT !.pin = p]
<1>1. EditManifest(man) /\ Clean /\ ~Unrecorded(head.man) BY DEF Repin, EditManifest
<1>2. man.cursor = head.man.cursor
  BY DEF StackInv, HeadInv, Follows, Manifest
<1> HIDE DEF man
<1>3. Present => TellsOrLags(man)
  <2>1. Present => TellsOrLags(head.man) BY <1>1 DEF Clean, FactsInv, DiskEven
  <2> QED BY <1>1, <1>2, <2>1 DEF TellsOrLags, At, Lags, Unrecorded
<1> QED BY <1>1, <1>3, EditEven

LEMMA CommitDiskEven == ASSUME StackInv, FactsInv, CommitDisk, ~slipped' PROVE FactsInv'
<1> USE DEF CommitDisk, remote
<1>1. Extends /\ LineInv' BY SameExtends, LineStays DEF FactsInv
<1>2. disk.tree = head.tree /\ head'.tree = head.tree /\ disk'.tree = disk.tree
  OBVIOUS
<1>3. SyncEven' /\ HistoryEven' /\ PlaceEven'
  BY <1>2 DEF FactsInv, SyncEven, HistoryEven, PlaceEven, Present, SameFacts
<1>4. HeadEven' /\ DiskEven'
  <2> SUFFICES ASSUME Present' PROVE Tells(head.man)' /\ TellsOrLags(disk.man)'
    BY DEF HeadEven, DiskEven
  <2>1. TellsOrLags(disk.man) BY <1>2 DEF Present, FactsInv, DiskEven
  <2>2. TellsOrLags(disk.man)'
    BY <1>2, <2>1 DEF TellsOrLags, At, Lags, Behind, Tip, Newest, SameFacts
  <2>3. Tells(head.man)' BY <1>2, <2>1 DEF TellsOrLags, Tells, At, Lags, SameFacts
  <2> QED BY <2>2, <2>3
<1>5. ForkEven' /\ TopicEven' BY <1>1, ForkEvenStays, TopicEvenStays
<1>6. OpenEven' BY NoneOpen
<1> QED BY <1>1, <1>3, <1>4, <1>5, <1>6 DEF FactsInv

LEMMA ResetDiskEven == ASSUME StackInv, FactsInv, ResetDisk, ~slipped' PROVE FactsInv'
<1> USE DEF ResetDisk, remote
<1>1. Extends /\ LineInv' BY SameExtends, LineStays DEF FactsInv
<1>2. disk'.man = head.man /\ ~Unrecorded(head.man)
  OBVIOUS
<1>3. SyncEven' /\ HistoryEven' /\ PlaceEven'
  BY DEF FactsInv, SyncEven, HistoryEven, PlaceEven, Present, SameFacts
<1>4. HeadEven' /\ DiskEven'
  <2> SUFFICES ASSUME Present' PROVE Tells(head.man)' /\ TellsOrLags(disk.man)'
    BY DEF HeadEven, DiskEven
  <2>1. Tells(head.man) BY DEF Present, FactsInv, HeadEven
  <2>2. head.man.cursor = 0 \/ At(head.man)
    BY <1>2, <2>1 DEF Tells, Lags, Unrecorded
  <2>3. Tells(head.man)' BY <2>2 DEF Tells, At, SameFacts
  <2>4. TellsOrLags(disk.man)' BY <1>2, <2>2 DEF TellsOrLags, At, SameFacts
  <2> QED BY <2>3, <2>4
<1>5. ForkEven' /\ TopicEven' BY <1>1, ForkEvenStays, TopicEvenStays
<1>6. OpenEven' BY NoneOpen
<1> QED BY <1>1, <1>3, <1>4, <1>5, <1>6 DEF FactsInv

LEMMA AbortEven == ASSUME StackInv, FactsInv, Abort PROVE FactsInv'
<1> USE DEF Abort, remote, ghosts
<1>1. Extends /\ LineInv' BY SameExtends, LineStays DEF FactsInv
<1>2. Quiet BY <1>1 DEF Quiet, SameRecord, SameFacts, Present
<1>3. SyncEven' /\ HistoryEven' /\ PlaceEven' /\ HeadEven' /\ DiskEven' BY <1>2, QuietEven
<1>4. ForkEven' /\ TopicEven' BY <1>1, ForkEvenStays, TopicEvenStays
<1>5. OpenEven' BY NoneOpen
<1> QED BY <1>1, <1>3, <1>4, <1>5 DEF FactsInv

(* Where pull has nothing to do, the manifest tells the truth.               *)
LEMMA TipTells ==
    ASSUME StackInv, FactsInv, AtTip(disk.man), PrefixClean, Present
    PROVE  disk.man.cursor \in 1 .. Len(up) /\ SameFacts(head.tree, up[disk.man.cursor])
<1>1. TellsOrLags(disk.man) BY DEF FactsInv, DiskEven, PrefixClean
<1>2. disk.man.cursor # 0 /\ ~Behind(disk.man) BY DEF AtTip, Behind
<1> QED BY <1>1, <1>2, AtTipCursor DEF TellsOrLags, At

(* A branch of the fork with the facts of its base.                          *)
LEMMA ForkCommitEven ==
    ASSUME StackInv, NEW i \in 1 .. Len(up), NEW tree \in Trees, SameFacts(tree, up[i]),
           up' = up
    PROVE  Even(ForkCommit(i, tree)) /\ Even(ForkCommit(i, tree))'
<1>1. ForkCommit(i, tree).base = i /\ ForkCommit(i, tree).tree = tree BY DEF ForkCommit
<1> QED BY <1>1 DEF Even, SameFacts

LEMMA ProposeTrackOnlyEven ==
    ASSUME StackInv, FactsInv, NEW done, ProposeTrackOnly(done) PROVE FactsInv'
<1> DEFINE c == ForkCommit(disk.man.cursor, head.tree)
<1>1. /\ fork' = [fork EXCEPT !.track = c] /\ AtTip(disk.man) /\ PrefixClean /\ Present
      /\ UNCHANGED <<up, tags, head, disk, took, kept, sync, open, topic>>
  BY DEF ProposeTrackOnly, Integrate
<1>2. Extends /\ LineInv' BY <1>1, SameExtends, LineStays DEF FactsInv
<1>3. Quiet BY <1>1, <1>2 DEF Quiet, SameRecord, SameFacts, Present
<1>4. SyncEven' /\ HistoryEven' /\ PlaceEven' /\ HeadEven' /\ DiskEven' BY <1>3, QuietEven
<1>5. disk.man.cursor \in 1 .. Len(up) /\ SameFacts(head.tree, up[disk.man.cursor])
  BY <1>1, TipTells
<1>6. c.base = disk.man.cursor /\ c.tree = head.tree BY DEF ForkCommit
<1> HIDE DEF c
<1>7. ForkEven'
  <2>1. fork'.proposal = fork.proposal /\ fork'.track = c
    BY <1>1 DEF StackInv, ForkInv
  <2> QED BY <1>1, <1>5, <1>6, <2>1 DEF FactsInv, ForkEven, Even, SameFacts
<1>8. TopicEven' /\ OpenEven' BY <1>1, TopicEvenStays, NoneOpen DEF PrefixClean
<1> QED BY <1>2, <1>4, <1>7, <1>8 DEF FactsInv

LEMMA ProposeEven ==
    ASSUME StackInv, FactsInv, NEW from \in BOOLEAN, NEW n, Propose(from, n) PROVE FactsInv'
<1> DEFINE man == disk.man
           tree == IF from THEN topic.tree ELSE head.tree
           c == ForkCommit(man.cursor, tree)
           whole == ForkCommit(man.cursor, head.tree)
           Reaches(e) == \E k \in 1 .. n : Effects[k] = e
           marked == man.proposed \/ Reaches("record")
           named == man.topic \/ (from /\ Reaches("topic"))
           told == [man EXCEPT !.proposed = marked, !.topic = named]
<1>1. /\ AtTip(man) /\ PrefixClean /\ Present
      /\ from => TopicGoes
      /\ fork'.proposal = c /\ (fork'.track = whole \/ fork'.track = fork.track)
      /\ disk' = [disk EXCEPT !.man = told]
      /\ head' = head \/ (head' = [head EXCEPT !.man = told] /\ head.man = man)
      /\ UNCHANGED <<up, tags, took, kept, sync, open, topic>>
  BY DEF Propose
<1>2. Extends /\ LineInv' BY <1>1, SameExtends, LineStays DEF FactsInv
<1>3. SameRecord(told, man) BY DEF SameRecord, StackInv, DiskInv, Follows, Manifest
<1>4. man.cursor \in 1 .. Len(up) /\ SameFacts(head.tree, up[man.cursor])
  BY <1>1, TipTells
<1>5. SameFacts(tree, up[man.cursor])
  <2>1. CASE from
    <3>1. SameFacts(topic.root, topic.tree) /\ SameFacts(topic.root, sync.here)
      BY <1>1, <2>1 DEF TopicGoes, FactsInv, TopicEven
    <3>2. SameFacts(head.tree, sync.here) BY <1>1 DEF FactsInv, PlaceEven
    <3>3. SameFacts(topic.tree, head.tree) BY <3>1, <3>2 DEF SameFacts
    <3> QED BY <1>4, <2>1, <3>3, FactsTrans
  <2>2. CASE ~from BY <1>4, <2>2
  <2> QED BY <2>1, <2>2
<1>6. /\ c.base = man.cursor /\ c.tree = tree
      /\ whole.base = man.cursor /\ whole.tree = head.tree
  BY DEF ForkCommit
<1> HIDE DEF c, whole, tree, told
<1>7. Quiet
  <2>1. disk'.tree = disk.tree /\ SameRecord(disk'.man, man)
    BY <1>1, <1>3, Halves DEF SameRecord
  <2>2. head'.tree = head.tree /\ SameRecord(head'.man, head.man)
    BY <1>1, <1>3, Halves DEF SameRecord
  <2> QED BY <1>1, <1>2, <2>1, <2>2 DEF Quiet, SameFacts, Present
<1>8. SyncEven' /\ HistoryEven' /\ PlaceEven' /\ HeadEven' /\ DiskEven' BY <1>7, QuietEven
<1>9. ForkEven'
  BY <1>1, <1>4, <1>5, <1>6 DEF FactsInv, ForkEven, Even, SameFacts
<1>10. TopicEven' /\ OpenEven' BY <1>1, TopicEvenStays, NoneOpen DEF PrefixClean
<1> QED BY <1>2, <1>8, <1>9, <1>10 DEF FactsInv

LEMMA PushEven == ASSUME StackInv, FactsInv, NEW cut, Push(cut) PROVE FactsInv'
<1> DEFINE now == Recorded(disk.man, Newest + 1)
           c == [base |-> Newest + 1, tree |-> head.tree, own |-> FALSE]
<1>1. /\ disk.man.in /\ disk.man.pin = 0 /\ disk.man.cursor = Newest
      /\ PrefixClean /\ Present /\ Len(up) < MaxRev
      /\ up' = Append(up, head.tree) /\ tags' = tags
      /\ sent' = sent \cup (head.tree \cap Work) /\ fork' = fork
  BY DEF Push, Send, Newest
<1>2. \/ UNCHANGED local
      \/ /\ Takes(c, head.tree) /\ head' = [head EXCEPT !.man = now] /\ disk' = head'
         /\ open' = open
  BY DEF Push
<1>3. head.tree \in Trees /\ MaxRev \in Nat /\ Len(up) \in Nat
  BY StackAssumption, UpLength DEF StackAssumption, StackInv, HeadInv
<1>4. SameFacts(head.tree, up[Newest])
  <2>1. Newest # 0 BY DEF StackInv, UpInv, Newest
  <2>2. AtTip(disk.man) BY <1>1, <2>1 DEF AtTip, Tip
  <2> QED BY <1>1, <2>2, TipTells
<1>5. /\ Extends /\ LineInv' /\ Len(up') = Len(up) + 1 /\ up'[Len(up) + 1] = head.tree
  BY <1>1, <1>3, <1>4, AppendExtends, LineGrows DEF FactsInv, SameFacts
<1>6. /\ c.base = Newest + 1 /\ c.tree = head.tree /\ c.own = FALSE
      /\ now.cursor = Newest + 1
  BY DEF Recorded, StackInv, DiskInv, Follows, Manifest
<1>7. Sound(c, Len(up'), sent')
  <2>1. Newest + 1 \in 1 .. MaxRev /\ Newest + 1 = Len(up')
    BY <1>1, <1>3, <1>5 DEF Newest
  <2>2. c \in Commit BY <1>3, <2>1 DEF Commit
  <2> QED BY <1>1, <1>6, <2>1, <2>2 DEF Sound
<1> HIDE DEF c, now
<1>8. ForkEven' /\ OpenEven'
  BY <1>1, <1>2, <1>5, ForkEvenStays, NoneOpen DEF PrefixClean, local
<1>9. CASE UNCHANGED local
  <2>1. Quiet BY <1>5, <1>9 DEF local, Quiet, SameRecord, SameFacts, Present
  <2>2. SyncEven' /\ HistoryEven' /\ PlaceEven' /\ HeadEven' /\ DiskEven' BY <2>1, QuietEven
  <2>3. TopicEven' BY <1>9, TopicEvenStays DEF local
  <2> QED BY <1>5, <1>8, <2>2, <2>3 DEF FactsInv
<1>10. CASE Takes(c, head.tree) /\ head' = [head EXCEPT !.man = now] /\ disk' = head'
  <2>1. ~InHistory(c)
    BY <1>3, <1>6 DEF InHistory, StackInv, HistoryInv, Newest
  <2>2. up'[c.base] = head.tree BY <1>5, <1>6 DEF Newest
  <2>3. /\ SyncEven' /\ HistoryEven' /\ TopicEven'
        /\ sync' # None /\ sync'.here = head.tree
    BY <1>3, <1>5, <1>7, <1>10, <2>1, <2>2, TakesEven DEF SameFacts
  <2>4. head'.tree = head.tree /\ head'.man = now /\ disk'.man = now BY <1>10, Halves
  <2>5. PlaceEven' BY <2>3, <2>4 DEF PlaceEven, SameFacts
  <2>6. up'[now.cursor] = head.tree BY <1>5, <1>6 DEF Newest
  <2>7. HeadEven' /\ DiskEven'
    BY <2>4, <2>6 DEF HeadEven, DiskEven, Tells, TellsOrLags, At, SameFacts
  <2> QED BY <1>5, <1>8, <2>3, <2>5, <2>7 DEF FactsInv
<1> QED BY <1>2, <1>9, <1>10

LEMMA RemoveEven ==
    ASSUME StackInv, FactsInv, NEW force, NEW keep \in BOOLEAN, NEW cut,
           Remove(force, keep, cut)
    PROVE  FactsInv'
<1> DEFINE after == [tree |-> IF keep THEN head.tree ELSE {}, man |-> NoMember]
<1>1. /\ disk' = after /\ (head' = head \/ head' = after) /\ open = None
      /\ UNCHANGED <<up, tags, fork, took, kept, sync, open, topic>>
  BY DEF Remove, remote
<1>2. Extends /\ LineInv' BY <1>1, SameExtends, LineStays DEF FactsInv
<1>3. disk'.man.cursor = 0 BY <1>1 DEF NoMember
<1>4. Present' => Present /\ head'.tree = head.tree /\ (head' = head \/ head'.man.cursor = 0)
  BY <1>1 DEF Present, NoMember
<1> HIDE DEF after
<1>5. SyncEven' /\ HistoryEven' BY <1>1 DEF FactsInv, SyncEven, HistoryEven, SameFacts
<1>6. PlaceEven' BY <1>1, <1>4 DEF FactsInv, PlaceEven, SameFacts
<1>7. HeadEven'
  BY <1>1, <1>4 DEF FactsInv, HeadEven, Tells, At, Lags, SameFacts
<1>8. DiskEven' BY <1>3 DEF DiskEven, TellsOrLags
<1>9. ForkEven' /\ TopicEven' /\ OpenEven'
  BY <1>1, <1>2, ForkEvenStays, TopicEvenStays, NoneOpen
<1> QED BY <1>2, <1>5, <1>6, <1>7, <1>8, <1>9 DEF FactsInv

LEMMA AddEven == ASSUME StackInv, FactsInv, Add PROVE FactsInv'
<1> USE DEF Add, remote
<1>1. Extends /\ LineInv' BY SameExtends, LineStays DEF FactsInv
<1>2. disk'.man.cursor = 0 BY Halves DEF Added, NoMember
<1>3. SyncEven' /\ HistoryEven' /\ PlaceEven' /\ HeadEven'
  BY DEF FactsInv, SyncEven, HistoryEven, PlaceEven, HeadEven, Tells, At, Lags, Present,
         SameFacts
<1>4. DiskEven' BY <1>2 DEF DiskEven, TellsOrLags
<1>5. ForkEven' /\ TopicEven' /\ OpenEven'
  BY <1>1, ForkEvenStays, TopicEvenStays, NoneOpen
<1> QED BY <1>1, <1>3, <1>4, <1>5 DEF FactsInv

LEMMA SeedEven == ASSUME StackInv, FactsInv, NEW force, Seed(force) PROVE FactsInv'
<1> USE DEF Seed, remote
<1>1. Extends /\ LineInv' BY SameExtends, LineStays DEF FactsInv
<1>2. ~Present' BY Halves DEF Present
<1>3. SyncEven' /\ HistoryEven' /\ TopicEven' BY DEF SyncEven, HistoryEven, TopicEven
<1>4. PlaceEven' /\ HeadEven' /\ DiskEven' BY <1>2 DEF PlaceEven, HeadEven, DiskEven
<1>5. ForkEven' BY <1>1, ForkEvenStays
<1>6. OpenEven' BY NoneOpen DEF Clean
<1> QED BY <1>1, <1>3, <1>4, <1>5, <1>6 DEF FactsInv

(* A stopped merge that is resolved brings the facts of what it merges.      *)
LEMMA ResolveEven ==
    ASSUME StackInv, FactsInv, NEW tree \in Trees, Resolve(tree) PROVE FactsInv'
<1> USE DEF Resolve, remote
<1>1. Extends /\ LineInv' BY SameExtends, LineStays DEF FactsInv
<1>2. /\ ~InHistory(open) /\ SameFacts(open.tree, up[open.base])
      /\ SameFacts(BaseTree(open), head.tree) /\ Behind(disk.man)
  BY DEF FactsInv, OpenEven
<1>3. Sound(open, Len(up), sent) /\ Sound(open, Len(up'), sent')
  BY DEF StackInv, OpenInv, SoundOrNone
<1>4. BaseTree(open) \ Work \subseteq open.tree
  BY <1>2, <1>3, BaseFacts DEF FactsInv
<1>5. SameFacts(tree, up'[open.base])
  BY <1>2, <1>4 DEF SameFacts
<1>6. /\ SyncEven' /\ HistoryEven' /\ TopicEven'
      /\ sync' # None /\ sync'.how = "merge" /\ sync'.at = open /\ sync'.here = tree
  BY <1>1, <1>2, <1>3, <1>5, TakesEven
<1>7. /\ head'.tree = tree /\ head'.man = head.man /\ disk'.man = disk.man
  BY Halves
<1>8. PlaceEven' BY <1>6, <1>7 DEF PlaceEven, SameFacts
<1>9. HeadEven'
  BY <1>5, <1>6, <1>7 DEF HeadEven, Tells, At, Lags
<1>10. DiskEven'
  <2>1. Behind(disk.man)' BY <1>1, <1>2, BehindStays DEF StackInv, DiskInv, SameRecord
  <2> QED BY <1>5, <1>6, <1>7, <2>1 DEF DiskEven, TellsOrLags, At, Lags
<1>11. ForkEven' /\ OpenEven' BY <1>1, ForkEvenStays, NoneOpen
<1> QED BY <1>1, <1>6, <1>8, <1>9, <1>10, <1>11 DEF FactsInv

(* Revisions and sound commits have facts, so a directory at one is there.   *)
LEMMA BaseOfNone ==
    ASSUME StackInv, LineInv, NEW c, Sound(c, Len(up), sent), ~Present, ~Slips(c)
    PROVE  BaseTree(c) = {}
<1>1. Earlier(c.base, took) \in 0 .. Len(up)
  BY UpLength DEF StackInv, HistoryInv, Sound, Commit, Earlier
<1>2. CASE Earlier(c.base, took) = 0 BY <1>2 DEF BaseTree
<1>3. CASE Earlier(c.base, took) # 0
  <2>1. Earlier(c.base, took) \in 1 .. Len(up) BY <1>1, <1>3, UpLength
  <2>2. 1 \in BaseTree(c) \ Work BY <1>3, <2>1, FirstFact DEF BaseTree
  <2> QED BY <2>2 DEF Slips, Present
<1> QED BY <1>2, <1>3

(* A merge that stops left the directory with the facts of the merge's base. *)
LEMMA ConflictEven ==
    ASSUME StackInv, FactsInv, PullFrame, NEW c, Sound(c, Len(up), sent), Even(c), NEW again,
           Conflict(c, again), ~slipped', Present => Behind(disk.man)
    PROVE  FactsInv'
<1> USE DEF Conflict
<1>1. up' = up /\ tags' = tags /\ fork' = fork /\ ~Slips(c) BY DEF PullFrame, SameUp
<1>2. Extends /\ LineInv' BY <1>1, SameExtends, LineStays DEF FactsInv
<1>3. Quiet BY <1>2 DEF Quiet, SameRecord, SameFacts, Present
<1>4. SyncEven' /\ HistoryEven' /\ PlaceEven' /\ HeadEven' /\ DiskEven' BY <1>3, QuietEven
<1>5. ForkEven' /\ TopicEven' BY <1>1, <1>2, ForkEvenStays, TopicEvenStays
<1>6. Present BY <1>1, BaseOfNone DEF FactsInv, Present
<1>7. Behind(disk.man)'
  BY <1>2, <1>6, BehindStays DEF StackInv, DiskInv, SameRecord
<1>8. SameFacts(c.tree, up[c.base])
  BY StackAssumption DEF StackAssumption, Even, Sound
<1>9. OpenEven'
  <2>1. BaseTree(c)' = BaseTree(c) BY <1>1 DEF BaseTree, Earlier
  <2>2. SameFacts(BaseTree(c), head.tree) BY <1>1 DEF Slips, SameFacts
  <2>3. open' = c /\ ~InHistory(c) OBVIOUS
  <2> QED BY <1>1, <1>6, <1>7, <1>8, <2>1, <2>2, <2>3
          DEF OpenEven, Present, InHistory, SameFacts, BaseTree, Earlier
<1> QED BY <1>2, <1>4, <1>5, <1>9 DEF FactsInv

(* A merge brings the directory to the facts of what it merges.              *)
LEMMA MergeEven ==
    ASSUME StackInv, FactsInv, PullFrame, NEW c, Sound(c, Len(up), sent), Even(c), NEW now,
           NEW torn, NEW cut, Merge(c, now, torn, cut), ~slipped',
           now.cursor = c.base,
           cut \in {"merged", "replaced"} => disk.man.cursor = c.base \/ Behind(disk.man)
    PROVE  FactsInv'
<1> DEFINE clean == Merge3(BaseTree(c), head.tree, c.tree)
           whole == IF clean = {} THEN c.tree ELSE clean
           tree == IF cut \in Unfinished THEN clean ELSE whole
           left == IF cut = "merged" THEN clean ELSE whole
           hman == IF cut \in Unfinished THEN head.man ELSE now
           dman == IF cut \in {"merged", "replaced"} THEN disk.man ELSE now
<1>1. up' = up /\ tags' = tags /\ fork' = fork /\ open = None /\ sent' = sent
  BY DEF PullFrame, SameUp, PrefixClean
<1>2. /\ head' = [tree |-> tree, man |-> hman] /\ disk' = [tree |-> left, man |-> dman]
      /\ Takes(c, tree) /\ ~Slips(c) /\ ~InHistory(c) /\ open' = open
  BY DEF Merge
<1>3. Extends /\ LineInv' BY <1>1, SameExtends, LineStays DEF FactsInv
<1>4. SameFacts(c.tree, up[c.base])
  BY StackAssumption DEF StackAssumption, Even, Sound
<1>5. SameFacts(clean, c.tree) BY <1>2, MergeFacts DEF Slips, SameFacts
<1>6. clean \in Trees /\ c.tree \in Trees BY MergeKeepsWork DEF Sound, Commit
<1> HIDE DEF clean
<1>7. SameFacts(tree, up[c.base]) /\ tree \in Trees
  BY <1>4, <1>5, <1>6 DEF SameFacts
<1> HIDE DEF whole, tree, left
<1>8. /\ SyncEven' /\ HistoryEven' /\ TopicEven'
      /\ sync' # None /\ sync'.how = "merge" /\ sync'.at = c /\ sync'.here = tree
  BY <1>1, <1>2, <1>3, <1>7, TakesEven
<1>9. head'.tree = tree /\ head'.man = hman /\ disk'.man = dman BY <1>2
<1>10. PlaceEven' BY <1>8, <1>9 DEF PlaceEven, SameFacts
<1>11. HeadEven'
  BY <1>1, <1>7, <1>8, <1>9 DEF HeadEven, Tells, At, Lags
<1>12. DiskEven'
  <2>1. CASE cut \in {"merged", "replaced"} /\ disk.man.cursor # c.base
    <3>1. Behind(disk.man)'
      BY <1>3, <1>9, <2>1, BehindStays DEF StackInv, DiskInv, SameRecord
    <3> QED BY <1>8, <1>9, <2>1, <3>1 DEF DiskEven, TellsOrLags, Lags
  <2>2. CASE dman.cursor = c.base
    BY <1>1, <1>7, <1>9, <2>2 DEF DiskEven, TellsOrLags, At
  <2> QED BY <2>1, <2>2
<1>13. ForkEven' /\ OpenEven' BY <1>1, <1>2, <1>3, ForkEvenStays, NoneOpen
<1> QED BY <1>3, <1>8, <1>10, <1>11, <1>12, <1>13 DEF FactsInv

(* What HEAD has by a merge that went forward is the newest that it has.     *)
LEMMA TakenIsNewest ==
    ASSUME StackInv, FactsInv, NEW c, Sound(c, Len(up), sent), Taken(c)
    PROVE  sync.at.base = c.base /\ SameFacts(sync.here, up[c.base])
<1>1. /\ InHistory(c) /\ sync # None /\ sync.how = "merge" /\ IsAncestor(sync.at, c)
  BY DEF Taken
<1>2. c.base \in Nat /\ sync.at.base \in Nat /\ took \in Nat
  BY <1>1, StackAssumption
     DEF StackAssumption, StackInv, SyncInv, HistoryInv, Sound, Commit
<1>3. sync.at.base = c.base
  <2>1. CASE sync.at.own BY <1>1, <2>1 DEF IsAncestor
  <2>2. CASE ~sync.at.own
    <3>1. took = sync.at.base /\ sync.at.base <= c.base
      BY <1>1, <2>2 DEF FactsInv, HistoryEven, IsAncestor
    <3>2. c.base <= took BY <1>1 DEF InHistory, FactsInv, HistoryEven
    <3> QED BY <1>2, <3>1, <3>2
  <2> QED BY <2>1, <2>2
<1> QED BY <1>1, <1>3 DEF FactsInv, SyncEven

(* Where a merge would move nothing, the directory is replaced or left with  *)
(* the facts of the target.                                                  *)
LEMMA NoMergeEven ==
    ASSUME StackInv, FactsInv, PullFrame, NEW c, Sound(c, Len(up), sent), Even(c), NEW now,
           NEW torn, NEW cut, NoMerge(c, now, torn, cut), ~slipped', now.cursor = c.base
    PROVE  FactsInv'
<1> DEFINE tree == IF Replaces(c) THEN c.tree ELSE head.tree
           dman == IF cut = "replaced" THEN disk.man ELSE now
<1>1. up' = up /\ tags' = tags /\ fork' = fork /\ open = None /\ disk.tree = head.tree
  BY DEF PullFrame, SameUp, PrefixClean
<1>2. /\ disk' = [tree |-> tree, man |-> dman]
      /\ took' = took /\ kept' = kept /\ open' = open
  BY DEF NoMerge
<1>3. Extends /\ LineInv' BY <1>1, SameExtends, LineStays DEF FactsInv
<1>4. SameFacts(c.tree, up[c.base])
  BY StackAssumption DEF StackAssumption, Even, Sound
<1>5. SameFacts(tree, up[c.base])
  <2>1. CASE Replaces(c) \/ c.tree = head.tree BY <1>4, <2>1
  <2>2. CASE ~Replaces(c) /\ c.tree # head.tree
    <3>1. Present /\ Taken(c) BY <2>2 DEF Replaces
    <3>2. SameFacts(head.tree, sync.here) BY <3>1 DEF FactsInv, PlaceEven
    <3>3. SameFacts(sync.here, up[c.base]) BY <3>1, TakenIsNewest
    <3> QED BY <2>2, <3>2, <3>3, FactsTrans
  <2> QED BY <2>1, <2>2
<1>6. ForkEven' /\ OpenEven' BY <1>1, <1>2, <1>3, ForkEvenStays, NoneOpen
<1>7. \/ cut \in {"replaced", "cursor"} /\ UNCHANGED <<head, sync, topic>>
      \/ cut \notin Unfinished /\ head' = disk' /\ Taken(c) /\ UNCHANGED <<sync, topic>>
      \/ /\ cut \notin Unfinished /\ head' = disk'
         /\ sync' = [how |-> "plain", at |-> c, here |-> tree]
         /\ topic' = IF topic = None THEN None ELSE [topic EXCEPT !.fresh = FALSE]
  BY DEF NoMerge, Unfinished
<1>8. tree \in Trees BY DEF StackInv, HeadInv, Sound, Commit
<1> HIDE DEF tree
<1>9. disk'.tree = tree /\ disk'.man = dman BY <1>2
<1>10. CASE cut \in {"replaced", "cursor"} /\ UNCHANGED <<head, sync, topic>>
  <2>1. SyncEven' /\ HistoryEven' /\ PlaceEven' /\ HeadEven' /\ TopicEven'
    BY <1>1, <1>2, <1>10 DEF FactsInv, SyncEven, HistoryEven, PlaceEven, HeadEven, TopicEven,
       Tells, At, Lags, Present, SameFacts
  <2>2. DiskEven'
    <3> SUFFICES ASSUME Present', disk'.tree = head'.tree PROVE TellsOrLags(disk.man)'
      BY DEF DiskEven
    <3>1. CASE cut = "replaced"
      <4>1. TellsOrLags(disk.man) BY <1>1, <1>10 DEF FactsInv, DiskEven, Present
      <4> QED BY <1>1, <1>9, <1>10, <3>1, <4>1
              DEF TellsOrLags, At, Lags, Behind, Tip, Newest, SameFacts
    <3>2. CASE cut = "cursor"
      BY <1>1, <1>5, <1>9, <1>10, <3>2 DEF TellsOrLags, At
    <3> QED BY <1>10, <3>1, <3>2
  <2> QED BY <1>3, <1>6, <2>1, <2>2 DEF FactsInv
<1>11. ASSUME head' = disk', cut # "replaced"
       PROVE  HeadEven' /\ DiskEven' /\ head'.tree = tree
  <2>1. head'.tree = tree /\ head'.man = now /\ disk'.man = now BY <1>9, <1>11
  <2>2. SameFacts(head'.tree, up'[now.cursor]) BY <1>1, <1>5, <2>1
  <2> QED BY <2>1, <2>2 DEF HeadEven, DiskEven, Tells, TellsOrLags, At
<1>12. CASE /\ cut \notin Unfinished /\ head' = disk' /\ Taken(c)
            /\ UNCHANGED <<sync, topic>>
  <2>1. SyncEven' /\ HistoryEven' /\ TopicEven'
    BY <1>1, <1>2, <1>12 DEF FactsInv, SyncEven, HistoryEven, TopicEven, SameFacts
  <2>2. HeadEven' /\ DiskEven' /\ head'.tree = tree BY <1>11, <1>12 DEF Unfinished
  <2>3. SameFacts(tree, sync.here)
    BY <1>5, <1>12, TakenIsNewest, FactsSym, FactsTrans
  <2>4. PlaceEven' BY <1>12, <2>2, <2>3 DEF PlaceEven, Taken
  <2> QED BY <1>3, <1>6, <2>1, <2>2, <2>4 DEF FactsInv
<1>13. CASE /\ cut \notin Unfinished /\ head' = disk'
            /\ sync' = [how |-> "plain", at |-> c, here |-> tree]
            /\ topic' = IF topic = None THEN None ELSE [topic EXCEPT !.fresh = FALSE]
  <2>1. HeadEven' /\ DiskEven' /\ head'.tree = tree BY <1>11, <1>13 DEF Unfinished
  <2>2. sync'.how = "plain" /\ sync'.at = c /\ sync'.here = tree BY <1>13
  <2>3. sync' # None
    BY <1>8, <1>13, StackAssumption DEF StackAssumption, SyncMark, Sound
  <2>4. SyncEven' BY <1>1, <1>5, <2>2 DEF SyncEven
  <2>5. HistoryEven' BY <1>2, <2>2 DEF FactsInv, HistoryEven
  <2>6. PlaceEven' BY <2>1, <2>2, <2>3 DEF PlaceEven, SameFacts
  <2>7. TopicEven'
    <3>1. CASE topic = None BY <1>13, <3>1 DEF TopicEven
    <3>2. CASE topic # None
      <4>1. topic \in Topic /\ SameFacts(topic.root, topic.tree)
        BY <3>2 DEF StackInv, TopicInv, FactsInv, TopicEven
      <4>2. topic'.fresh = FALSE /\ topic'.root = topic.root /\ topic'.tree = topic.tree
        BY <1>13, <3>2, <4>1 DEF Topic
      <4> QED BY <4>1, <4>2 DEF TopicEven, SameFacts
    <3> QED BY <3>1, <3>2
  <2> QED BY <1>3, <1>6, <2>1, <2>4, <2>5, <2>6, <2>7 DEF FactsInv
<1> QED BY <1>7, <1>10, <1>12, <1>13

LEMMA PullOneEven ==
    ASSUME StackInv, FactsInv, PullFrame, NEW tip \in 1 .. Len(up), NEW branch,
           SoundOrNone(branch, Len(up), sent), Even(branch), NEW again, NEW cut,
           PullOne(tip, branch, again, cut), ~slipped',
           \/ again
           \/ Behind(disk.man)
           \/ ~Present /\ (branch = None => disk.man.cursor = tip)
    PROVE  FactsInv'
<1> DEFINE at == IF branch = None THEN tip ELSE Earlier(branch.base, tip)
           c == IF branch = None THEN Rev(tip) ELSE branch
           now == Recorded(disk.man, at)
           torn == \/ at # c.base
                   \/ /\ cut \in Unfinished
                      /\ again \/ (branch # None /\ disk.man.cursor # at)
<1>1. Sound(c, Len(up), sent) BY RevSound DEF SoundOrNone
<1>2. Even(c) BY DEF Even, Rev, SameFacts
<1>3. now.cursor = at BY DEF Recorded, StackInv, DiskInv, Follows, Manifest
<1>4. branch = None => c.base = tip BY DEF Rev
<1>5. \/ Conflict(c, again)
      \/ Merge(c, now, torn, cut) \/ NoMerge(c, now, torn, cut)
  BY DEF PullOne
<1> HIDE DEF c, now
<1>6. CASE Conflict(c, again)
  <2>1. ~again BY <1>6 DEF Conflict
  <2> QED BY <1>1, <1>2, <1>6, <2>1, ConflictEven
<1>7. ASSUME ~torn
      PROVE  /\ at = c.base
             /\ cut \in {"merged", "replaced"} => disk.man.cursor = c.base \/ Behind(disk.man)
  BY <1>4, <1>7 DEF Unfinished
<1> HIDE DEF at, torn
<1>8. CASE Merge(c, now, torn, cut)
  <2>1. ~torn BY <1>8 DEF Merge
  <2> QED BY <1>1, <1>2, <1>3, <1>7, <1>8, <2>1, MergeEven
<1>9. CASE NoMerge(c, now, torn, cut)
  <2>1. ~torn BY <1>9 DEF NoMerge
  <2> QED BY <1>1, <1>2, <1>3, <1>7, <1>9, <2>1, NoMergeEven
<1> QED BY <1>5, <1>6, <1>8, <1>9

LEMMA PullEven ==
    ASSUME StackInv, FactsInv, NEW again \in BOOLEAN, NEW cut, Pull(again, cut), ~slipped'
    PROVE  FactsInv'
<1>1. PullOne(Tip(head.man, again), None, again, cut) BY DEF Pull
<1>2. Tip(head.man, again) \in 1 .. Len(up) BY TipExists DEF StackInv, HeadInv
<1>3. gone \subseteq gone' BY DEF Pull, PullOne, Conflict, Merge, NoMerge
<1>4. PullFrame BY <1>3 DEF Pull, PullFrame, SameUp, remote, Clean, PrefixClean
<1>5. again \/ Behind(disk.man) BY DEF Pull, Clean, Behind
<1> QED BY <1>1, <1>2, <1>4, <1>5, PullOneEven DEF SoundOrNone, Even

LEMMA ImportEven ==
    ASSUME StackInv, FactsInv, NEW cut, Import(cut), ~slipped' PROVE FactsInv'
<1> DEFINE branch == ImportsFrom(disk.man)
           tip == IF disk.man.cursor # 0 /\ branch = None THEN disk.man.cursor
                  ELSE Tip(disk.man, FALSE)
<1>1. PullOne(tip, branch, FALSE, cut) /\ (disk.man.cursor = 0 \/ ~Present) BY DEF Import
<1>2. tip \in 1 .. Len(up)
  <2>1. Follows(disk.man, Len(up)) BY DEF StackInv, DiskInv
  <2>2. Tip(disk.man, FALSE) \in 1 .. Len(up) BY <2>1, TipExists
  <2>3. Len(up) \in Nat /\ MaxRev \in Nat
    BY UpLength, StackAssumption DEF StackAssumption
  <2>4. disk.man.cursor \in 0 .. MaxRev /\ disk.man.cursor <= Len(up)
    BY <2>1 DEF Follows, Manifest
  <2>5. disk.man.cursor # 0 => disk.man.cursor \in 1 .. Len(up) BY <2>3, <2>4
  <2> QED BY <2>2, <2>5
<1>3. SoundOrNone(branch, Len(up), sent) /\ Even(branch)
  BY DEF ImportsFrom, StackInv, ForkInv, SoundOrNone, FactsInv, ForkEven, Even
<1>4. gone \subseteq gone' BY <1>1 DEF PullOne, Conflict, Merge, NoMerge
<1>5. PullFrame BY <1>4 DEF Import, PullFrame, SameUp, remote
<1>6. \/ Behind(disk.man)
      \/ ~Present /\ (branch = None => disk.man.cursor = tip)
  BY <1>1 DEF Behind
<1> HIDE DEF branch, tip
<1> QED BY <1>1, <1>2, <1>3, <1>5, <1>6, PullOneEven

(* The flag is never taken back.                                             *)
LEMMA SlippedStays == ASSUME [Next]_vars, slipped PROVE slipped'
<1>1. CASE Others BY <1>1, Zenon DEF Others, UpstreamMoves, BranchDeleted, Recut, ghosts
<1>2. CASE Person
  BY <1>2, Zenon DEF Person, Write, WriteTopic, MergeTopic, Repin, Track, CommitDisk, ResetDisk,
     Resolve, Abort, ghosts
<1>3. CASE Commands
  <2>1. ASSUME NEW tip, NEW branch, NEW again, NEW cut, PullOne(tip, branch, again, cut)
        PROVE  slipped'
    BY <2>1, Zenon DEF PullOne, Conflict, Merge, NoMerge
  <2>2. ASSUME NEW again, NEW cut, Pull(again, cut) PROVE slipped'
    BY <2>1, <2>2, Zenon DEF Pull
  <2>3. ASSUME NEW cut, Import(cut) PROVE slipped'
    BY <2>1, <2>3, Zenon DEF Import
  <2>4. ASSUME NEW from, NEW n, Propose(from, n) PROVE slipped' BY <2>4, Zenon DEF Propose
  <2>5. ASSUME NEW done, ProposeTrackOnly(done) PROVE slipped'
    BY <2>5, Zenon DEF ProposeTrackOnly
  <2>6. ASSUME NEW cut, Push(cut) PROVE slipped' BY <2>6, Zenon DEF Push
  <2>7. ASSUME NEW force, NEW keep, NEW cut, Remove(force, keep, cut) PROVE slipped'
    BY <2>7, Zenon DEF Remove
  <2>8. CASE Add BY <2>8, Zenon DEF Add, ghosts
  <2>9. ASSUME NEW force, Seed(force) PROVE slipped' BY <2>9, Zenon DEF Seed
  <2> QED BY <1>3, <2>2, <2>3, <2>4, <2>5, <2>6, <2>7, <2>8, <2>9 DEF Commands
<1>4. CASE UNCHANGED vars BY <1>4 DEF vars, ghosts
<1> QED BY <1>1, <1>2, <1>3, <1>4 DEF Next

LEMMA StutterEven == ASSUME StackInv, FactsInv, UNCHANGED vars PROVE FactsInv'
<1> USE DEF vars, remote, local
<1>1. Extends /\ LineInv' BY SameExtends, LineStays DEF FactsInv
<1>2. Quiet BY <1>1 DEF Quiet, SameRecord, SameFacts, Present
<1>3. SyncEven' /\ HistoryEven' /\ PlaceEven' /\ HeadEven' /\ DiskEven' BY <1>2, QuietEven
<1>4. ForkEven' /\ TopicEven' /\ OpenEven'
  BY <1>1, ForkEvenStays, TopicEvenStays, OpenEvenStays
<1> QED BY <1>1, <1>3, <1>4 DEF FactsInv

LEMMA InitEven == Init => FactsInv
<1> SUFFICES ASSUME Init PROVE FactsInv OBVIOUS
<1>1. LineInv BY DEF Init, LineInv
<1>2. ~Present BY DEF Init, Present
<1> QED BY <1>1, <1>2
        DEF Init, FactsInv, ForkEven, Even, SyncEven, HistoryEven, TopicEven, OpenEven,
            PlaceEven, HeadEven, DiskEven

(* Every step keeps the facts even, unless it is one that is flagged.        *)
LEMMA NextEven == ASSUME StackInv, FactsInv, [Next]_vars, ~slipped' PROVE FactsInv'
<1>1. CASE Others BY <1>1, UpstreamMovesEven, BranchDeletedEven, RecutEven DEF Others
<1>2. CASE Person
  BY <1>2, WriteEven, WriteTopicEven, RepinEven, ResolveEven, MergeTopicEven,
     TrackEven, CommitDiskEven, ResetDiskEven, AbortEven DEF Person, Trees
<1>3. CASE Commands
  <2>1. ASSUME NEW again \in BOOLEAN, NEW cut \in Cuts, Pull(again, cut) PROVE FactsInv'
    BY <2>1, PullEven
  <2>2. ASSUME NEW cut \in Cuts, Import(cut) PROVE FactsInv'
    BY <2>2, ImportEven
  <2>3. ASSUME NEW from \in BOOLEAN, NEW n \in 1 .. Len(Effects), Propose(from, n)
        PROVE  FactsInv'
    BY <2>3, ProposeEven
  <2>4. ASSUME NEW done \in {"push", "all"}, ProposeTrackOnly(done) PROVE FactsInv'
    BY <2>4, ProposeTrackOnlyEven
  <2>5. ASSUME NEW cut \in {"pushed", "none"}, Push(cut) PROVE FactsInv'
    BY <2>5, PushEven
  <2>6. ASSUME NEW force \in BOOLEAN, NEW keep \in BOOLEAN,
               NEW cut \in {"none", "edited", "committed"}, Remove(force, keep, cut)
        PROVE  FactsInv'
    BY <2>6, RemoveEven
  <2>7. CASE Add BY <2>7, AddEven
  <2>8. ASSUME NEW force \in BOOLEAN, Seed(force) PROVE FactsInv'
    BY <2>8, SeedEven
  <2> QED BY <1>3, <2>1, <2>2, <2>3, <2>4, <2>5, <2>6, <2>7, <2>8 DEF Commands
<1>4. CASE UNCHANGED vars BY <1>4, StutterEven
<1> QED BY <1>1, <1>2, <1>3, <1>4 DEF Next

LEMMA AlwaysEven == Spec => [](slipped \/ FactsInv)
<1>1. Init => slipped \/ FactsInv BY InitEven
<1>2. StackInv /\ (slipped \/ FactsInv) /\ [Next]_vars => (slipped \/ FactsInv)'
  BY NextEven, SlippedStays, Zenon
<1> QED BY <1>1, <1>2, AlwaysStackInv, PTL DEF Spec

(* Where pull has nothing to do, the directory holds the facts of the        *)
(* cursor's revision, unless one of the listed cases came up: stackPullOne,  *)
(* init and push write the cursor only over a directory that has them, and   *)
(* what stops between the two leaves pull something to do.                   *)
THEOREM CursorIsTrue == Spec => []CursorTellsTheTruth
<1>1. ASSUME StackInv, slipped \/ FactsInv PROVE CursorTellsTheTruth
  <2> SUFFICES ASSUME FactsInv, UpToDate
               PROVE  SameFacts(head.tree, up[head.man.cursor])
    BY <1>1 DEF CursorTellsTheTruth, CursorHolds, SameFacts
  <2>1. AtTip(disk.man) /\ PrefixClean /\ Present /\ disk = head
    BY DEF UpToDate, Clean, PrefixClean
  <2> QED BY <1>1, <2>1, TipTells
<1> QED BY <1>1, AlwaysStackInv, AlwaysEven, PTL

(* No branch that propose leaves on the fork lacks a fact of its base, and   *)
(* no push or merge of a proposal takes one back from upstream, unless one   *)
(* of those cases came up.                                                   *)
THEOREM NothingTakenBack == Spec => []NothingReverted
<1>1. ASSUME StackInv, slipped \/ FactsInv PROVE NothingReverted
  <2> SUFFICES ASSUME FactsInv
               PROVE  /\ \A c \in {fork.proposal, fork.track} \ {None} :
                            up[c.base] \ Work \subseteq c.tree
                      /\ \A i, j \in 1 .. Newest : i <= j => up[i] \ Work \subseteq up[j]
    BY <1>1 DEF NothingReverted
  <2>1. ASSUME NEW c \in {fork.proposal, fork.track} \ {None}
        PROVE  up[c.base] \ Work \subseteq c.tree
    BY <2>1 DEF FactsInv, ForkEven, Even, SameFacts
  <2>2. \A i, j \in 1 .. Newest : i <= j => up[i] \ Work \subseteq up[j]
    BY DEF FactsInv, LineInv, Newest
  <2> QED BY <2>1, <2>2
<1> QED BY <1>1, AlwaysStackInv, AlwaysEven, PTL
=============================================================================
