-------------------------- MODULE StagingRunProofs --------------------------
(***************************************************************************)
(* Proofs about StagingRun, for any files, sizes and settings: what a run  *)
(* does not read again is current and clean, wherever earlier runs died.   *)
(***************************************************************************)
EXTENDS StagingRun, TLAPS

Here(copies, f) == copies[f] # None
Dirty(f) == Here(staged, f) /\ staged[f].kind = "secret"
Clean == \A f \in Files : ~Dirty(f)

(* Sizes of what a scrub may make shorter.                                  *)
SizeInv ==
    \A f \in Files : /\ Here(live, f) => live[f].size \in Sizes
                     /\ Dirty(f) => staged[f].size \in Sizes

(* No mtime is ahead of the clock, and no record of a run either.           *)
TimeInv ==
    /\ \A f \in Files : Here(live, f) => live[f].mod <= Stamp(now)
    /\ clock # None => clock <= now
    /\ run.started <= now

(* What each label of a run knows of its own registers.                     *)
RunInv ==
    /\ pc # "idle" => run.clock = clock
    /\ run.rescrub = "yes" => run.scrub = "on"
    /\ todo \subseteq visited
    /\ IF pc = "copy"
       THEN /\ at \in Stat /\ at.file \in todo /\ at.mod >= Cutoff
            /\ Here(live, at.file) => at.mod <= live[at.file].mod
       ELSE at = None
    /\ pc \notin {"walk", "copy"} => todo = {}

Typed == TypeOK /\ SizeInv /\ TimeInv /\ RunInv

(* The two records that the incremental test goes by, against the source:   *)
(* nothing of a later mtime, and within one mtime nothing longer; what is   *)
(* as long is the same.                                                     *)
Agrees(x, c, same) ==
    \/ x.size = 0 \/ x.mod < c.mod
    \/ x.mod = c.mod /\ (x.size < c.size \/ (x.size = c.size /\ same))

(* A copy that is dirty is no newer than its source.                        *)
SourceInv == \A f \in Files :
    Here(live, f) /\ Dirty(f) => staged[f].mod <= live[f].mod

(* MarkerIsTrue: what each label of a run owes the marker.                  *)
Trouble == mishaps \cap {"cut", "vanished"} # {}
Owed ==
    IF run.scrub = "off" THEN pc = "clock" => marker = "off"
    ELSE IF run.rescrub = "no" THEN Clean
    ELSE /\ pc # "clock" => marker = "off"
         /\ pc \in {"walk", "copy"} =>
              \A f \in visited \ todo : Dirty(f) => staged[f].mod < Cutoff
         /\ pc = "sweep" => \A f \in visited : ~Dirty(f)
         /\ pc \in {"audit", "mark", "clock"} => Clean
MarkerInv == ~Trouble => IF pc = "idle" THEN marker = "on" => Clean ELSE Owed

(* PassedIsClean: a verdict that matches a copy is about clean bytes,       *)
(* unless their mtime is blurred.                                           *)
Matches(v, size, mod) == v # None /\ v.size = size /\ v.mod = mod
Blurred(f, m) == <<f, m>> \in blurred
VerdictInv == \A f \in Files :
    /\ Dirty(f) /\ ~Blurred(f, staged[f].mod) =>
          ~Matches(verdicts[f], staged[f].size, staged[f].mod)
    /\ Here(live, f) /\ Here(staged, f) /\ ~Blurred(f, staged[f].mod) =>
          Agrees(staged[f], live[f], staged[f].kind = live[f].kind)
    /\ Here(live, f) /\ verdicts[f] # None /\ ~Blurred(f, verdicts[f].mod) =>
          Agrees(verdicts[f], live[f], live[f].kind # "secret")
    /\ pc = "copy" /\ f = at.file /\ Here(live, f) /\ verdicts[f] # None
          /\ verdicts[f].size # 0 /\ verdicts[f].mod = at.mod /\ ~Blurred(f, at.mod) =>
          \/ verdicts[f].size < live[f].size
          \/ verdicts[f].size = live[f].size /\ live[f].kind # "secret"
Sound == \A f \in Files : Dirty(f) => Blurred(f, staged[f].mod)
PassInv == /\ pc \in {"mark", "clock"} /\ found = {} => Sound
           /\ pc = "idle" /\ outcome = "ok" => Sound

(* SkipsAreSound: a copy that is not of the present version and looks like  *)
(* it has an mtime that the next run will not trust.                        *)
Looks(f) == /\ Here(staged, f) /\ Here(live, f) /\ lagging[f] = "no"
            /\ staged[f].mod = live[f].mod /\ staged[f].ver # live[f].ver
SkipInv == \A f \in Files : Looks(f) =>
    /\ clock # None => live[f].mod >= clock - Probe
    /\ pc # "idle" => \/ f \in todo
                      \/ live[f].mod >= run.started - Probe
                      \/ pc \in {"walk", "copy"} /\ live[f].mod < Cutoff

(* KeepsACopy: what the walk is past is fresh, out of the window, refused,  *)
(* or was written since.                                                    *)
Kept(f) == \/ ~Here(live, f) \/ f \in found
           \/ live[f].mod < Cutoff \/ live[f].mod >= Stamp(run.started)
           \/ ~Here(staged, f) \/ staged[f].mod >= Cutoff
KeepInv == pc \in {"walk", "copy"} => \A f \in Files \ todo : Kept(f)

-----------------------------------------------------------------------------
(* Constants are numbers.                                                   *)
LEMMA Numbers ==
    /\ Sizes \subseteq Nat \ {0} /\ LargeFileBytes \in Nat /\ ScanContentLimit \in Nat
    /\ Tick \in Nat \ {0} /\ Probe \in Nat \ {0} /\ Tick <= Probe
    /\ Settle \in Nat /\ Window \in Nat /\ MaxTime \in Nat /\ MaxVer \in Nat \ {0}
BY StagingAssumption DEF StagingAssumption

(* Sizes are lengths, and so are sizes less one.                            *)
LEMMA LengthParts ==
    /\ Lengths \subseteq Nat /\ 0 \in Lengths
    /\ \A n \in Sizes : n \in Lengths /\ n - 1 \in Lengths /\ n > 0
<1>1. ASSUME NEW n \in Sizes PROVE n \in Nat /\ n > 0 /\ n - 1 \in Nat
  BY Numbers
<1>2. ASSUME NEW n \in Lengths PROVE n \in Nat
  BY <1>1 DEF Lengths
<1>3. ASSUME NEW n \in Sizes PROVE n \in Lengths /\ n - 1 \in Lengths
  BY DEF Lengths
<1>4. 0 \in Lengths
  BY DEF Lengths
<1>5. QED
  BY <1>1, <1>2, <1>3, <1>4

(* Multiplication by the tick is monotone.                                  *)
LEMMA Scale ==
    ASSUME NEW a \in Int, NEW b \in Int, a <= b
    PROVE  Tick * a <= Tick * b
BY Numbers

(* A time is so many ticks and a rest.                                      *)
LEMMA Division ==
    ASSUME NEW t \in Nat
    PROVE  /\ t = Tick * (t \div Tick) + (t % Tick)
           /\ t \div Tick \in Int /\ t % Tick \in 0..Tick - 1
BY Numbers

(* A stamp is at most one tick behind.                                      *)
LEMMA StampBounds ==
    ASSUME NEW t \in Nat
    PROVE  Stamp(t) \in Nat /\ Stamp(t) <= t /\ t < Stamp(t) + Tick
<1> DEFINE q == t \div Tick
<1>1. t = Tick * q + (t % Tick) /\ q \in Int /\ t % Tick \in 0..Tick - 1
  BY Division
<1> HIDE DEF q
<1>2. q >= 0
  <2> SUFFICES ASSUME q <= -1 PROVE FALSE
    BY <1>1
  <2>1. Tick * q <= Tick * (-1)
    BY <1>1, Scale
  <2>2. QED
    BY <2>1, <1>1, Numbers
<1>3. Tick * 0 <= Tick * q
  BY <1>1, <1>2, Scale
<1>4. QED
  BY <1>1, <1>3, Numbers DEF Stamp

(* Later times have later stamps.                                           *)
LEMMA StampGrows ==
    ASSUME NEW s \in Nat, NEW t \in Nat, s <= t
    PROVE  Stamp(s) <= Stamp(t)
<1> DEFINE q == s \div Tick
           r == t \div Tick
<1>1. s = Tick * q + (s % Tick) /\ q \in Int /\ s % Tick \in 0..Tick - 1
  BY Division
<1>2. t = Tick * r + (t % Tick) /\ r \in Int /\ t % Tick \in 0..Tick - 1
  BY Division
<1> HIDE DEF q, r
<1>3. q <= r
  <2> SUFFICES ASSUME r + 1 <= q PROVE FALSE
    BY <1>1, <1>2
  <2>1. Tick * (r + 1) <= Tick * q
    BY <1>1, <1>2, Scale
  <2>2. Tick * (r + 1) = Tick * r + Tick
    BY <1>2, Numbers
  <2>3. QED
    BY <2>1, <2>2, <1>1, <1>2, Numbers
<1>4. Tick * q <= Tick * r
  BY <1>1, <1>2, <1>3, Scale
<1>5. QED
  BY <1>1, <1>2, <1>4, Numbers DEF Stamp

(* A stamp is a time.                                                       *)
LEMMA StampTime == ASSUME NEW t \in Times PROVE Stamp(t) \in Times
BY StampBounds, Numbers DEF Times

(* A copy has its parts and is not None.                                    *)
LEMMA CopyParts ==
    ASSUME NEW c \in Copy
    PROVE  /\ c # None /\ c = [ver |-> c.ver, size |-> c.size, mod |-> c.mod, kind |-> c.kind]
           /\ c.ver \in 0..MaxVer /\ c.size \in Lengths /\ c.mod \in Times /\ c.kind \in Kinds
BY StagingAssumption DEF StagingAssumption, Copy

(* So a stat.                                                               *)
LEMMA StatParts ==
    ASSUME NEW x \in Stat
    PROVE  x # None /\ x.file \in Files /\ x.size \in Lengths /\ x.mod \in Times
BY StagingAssumption DEF StagingAssumption, Stat

(* And a verdict.                                                           *)
LEMMA VerdictParts ==
    ASSUME NEW v \in Verdict
    PROVE  v # None /\ v.size \in Lengths /\ v.mod \in Times
BY StagingAssumption DEF StagingAssumption, Verdict

(* A copy that is made is one.                                              *)
LEMMA MakeCopy ==
    ASSUME NEW v \in 0..MaxVer, NEW n \in Lengths, NEW m \in Times, NEW k \in Kinds
    PROVE  /\ [ver |-> v, size |-> n, mod |-> m, kind |-> k] \in Copy
           /\ [ver |-> v, size |-> n, mod |-> m, kind |-> k] # None
<1>1. [ver |-> v, size |-> n, mod |-> m, kind |-> k] \in Copy
  BY DEF Copy
<1>2. QED
  BY <1>1, CopyParts

(* A scrub takes the credential, one byte, and nothing else.                *)
LEMMA ScrubParts ==
    ASSUME NEW c \in Copy, c.kind = "secret" => c.size \in Sizes
    PROVE  /\ Scrubbed(c) \in Copy /\ Scrubbed(c).kind # "secret"
           /\ Scrubbed(c).ver = c.ver /\ Scrubbed(c).mod = c.mod
           /\ IF c.kind = "secret" THEN Scrubbed(c).size = c.size - 1
              ELSE Scrubbed(c) = c
<1>1. CASE c.kind = "secret"
  <2>0. c = [ver |-> c.ver, size |-> c.size, mod |-> c.mod, kind |-> c.kind]
    BY CopyParts
  <2>1. Scrubbed(c) = [ver |-> c.ver, size |-> c.size - 1, mod |-> c.mod, kind |-> "scrubbed"]
    BY <1>1, <2>0 DEF Scrubbed
  <2>2. c.size - 1 \in Lengths /\ "scrubbed" \in Kinds
    BY <1>1, LengthParts DEF Kinds
  <2>3. QED
    BY <1>1, <2>1, <2>2, CopyParts, MakeCopy
<1>2. CASE c.kind # "secret"
  BY <1>2 DEF Scrubbed
<1>3. QED
  BY <1>1, <1>2

(* Another mtime on a copy.                                                 *)
LEMMA Restamped ==
    ASSUME NEW c \in Copy, NEW m \in Times
    PROVE  LET d == [c EXCEPT !.mod = m]
           IN  /\ d \in Copy /\ d # None
               /\ d.ver = c.ver /\ d.size = c.size /\ d.mod = m /\ d.kind = c.kind
<1> DEFINE d == [c EXCEPT !.mod = m]
<1>1. d = [ver |-> c.ver, size |-> c.size, mod |-> m, kind |-> c.kind]
  BY CopyParts
<1>2. QED
  BY <1>1, CopyParts, MakeCopy

(* What is there is a copy, and what a verdict says is one.                 *)
LEMMA Entries ==
    ASSUME TypeOK, NEW f \in Files
    PROVE  /\ Here(live, f) => live[f] \in Copy
           /\ Here(staged, f) => staged[f] \in Copy
           /\ verdicts[f] # None => verdicts[f] \in Verdict
BY DEF TypeOK, Here

(* What a copy of a file holds, in the two settings.                        *)
Taken == IF run.scrub = "on" THEN Scrubbed(live[at.file]) ELSE live[at.file]
NewCopy == [Taken EXCEPT !.mod = at.mod]

(* It is a copy, stamped with the stat, and clean if redaction is on.       *)
LEMMA NewCopyParts ==
    ASSUME TypeOK, SizeInv, at \in Stat, Here(live, at.file)
    PROVE  /\ Taken \in Copy /\ NewCopy \in Copy /\ NewCopy # None
           /\ NewCopy.mod = at.mod /\ NewCopy.ver = live[at.file].ver
           /\ run.scrub = "on" => Taken.kind # "secret" /\ NewCopy.kind # "secret"
           /\ \/ NewCopy.size = live[at.file].size /\ NewCopy.kind = live[at.file].kind
              \/ NewCopy.size = live[at.file].size - 1 /\ NewCopy.kind # "secret"
           /\ NewCopy.kind = "secret" => /\ live[at.file].kind = "secret"
                                         /\ NewCopy.size = live[at.file].size
                                         /\ NewCopy.size \in Sizes
<1> DEFINE c == live[at.file]
<1>1. c \in Copy /\ c.size \in Sizes
  BY StatParts, Entries DEF SizeInv
<1>2. Taken \in Copy /\ Taken.ver = c.ver
      /\ (run.scrub = "on" => Taken.kind # "secret")
      /\ \/ Taken.size = c.size /\ Taken.kind = c.kind
         \/ Taken.size = c.size - 1 /\ Taken.kind # "secret"
      /\ (Taken.kind = "secret" => c.kind = "secret" /\ Taken.size = c.size)
  BY <1>1, ScrubParts DEF Taken
<1>3. QED
  BY <1>1, <1>2, StatParts, Restamped DEF NewCopy
-----------------------------------------------------------------------------
(* The first state is well typed.                                           *)
LEMMA TypedInit == Init => Typed
<1> SUFFICES ASSUME Init PROVE Typed
  OBVIOUS
<1>1. PICK n \in Sizes :
        live = [f \in Files |-> [ver |-> 1, size |-> n, mod |-> 0, kind |-> "plain"]]
  BY DEF Init
<1>2. /\ 1 \in 0..MaxVer /\ n \in Lengths /\ 0 \in Times /\ "plain" \in Kinds
      /\ 0 \in Lengths
  BY <1>1, Numbers, LengthParts DEF Times, Kinds
<1>3. \A f \in Files : live[f] \in Copy
  BY <1>1, <1>2, MakeCopy
<1>4. live \in [Files -> Copy \cup {None}]
  BY <1>1, <1>3
<1>5. TypeOK
  BY <1>2, <1>4 DEF Init, TypeOK, Labels, Mishaps, NoRun
<1>6. SizeInv
  BY <1>1 DEF Init, SizeInv, Dirty, Here
<1>7. TimeInv
  <2>1. 0 <= Stamp(0)
    BY StampBounds
  <2>2. now = 0 /\ clock = None /\ run.started = 0
    BY DEF Init, NoRun
  <2>3. ASSUME NEW f \in Files PROVE live[f].mod = 0
    BY <1>1
  <2>4. QED
    BY <2>1, <2>2, <2>3 DEF TimeInv
<1>8. RunInv
  BY DEF Init, RunInv, NoRun
<1>9. QED
  BY <1>5, <1>6, <1>7, <1>8 DEF Typed

(* A run that begins reads the records of the one before.                    *)
LEMMA TypedBegin == Typed /\ Begin => Typed'
<1> SUFFICES ASSUME Typed, Begin PROVE Typed'
  OBVIOUS
<1> USE DEF Typed
<1>1. TypeOK'
  BY DEF Begin, world, beside, progress, ghosts, Goto, TypeOK, Labels
<1>2. SizeInv'
  BY DEF Begin, world, beside, progress, ghosts, Goto, SizeInv, Dirty, Here, world
<1>3. TimeInv'
  BY Numbers DEF Begin, world, beside, progress, ghosts, Goto, TimeInv, Here, TypeOK, Times
<1>4. RunInv'
  BY DEF Begin, world, beside, progress, ghosts, Goto, RunInv, Here, Cutoff, world
<1>5. QED
  BY <1>1, <1>2, <1>3, <1>4

(* Where the walk goes on, or a copy begins.                                *)
LEMMA TypedVisit == ASSUME NEW f \in Files PROVE Typed /\ Visit(f) => Typed'
<1> SUFFICES ASSUME Typed, Visit(f) PROVE Typed'
  OBVIOUS
<1> USE DEF Typed
<1>1. /\ pc = "walk" /\ f \in todo /\ run' = run /\ visited' = visited /\ wrote' = wrote
      /\ outcome' = outcome /\ UNCHANGED <<now, live, setting, staged, marker, clock, verdicts>>
  BY DEF Visit, world, beside
<1>2. found' \in {found, found \cup {f}} /\ mishaps' \in {mishaps, mishaps \cup {"vanished"}}
      /\ lagging' \in [Files -> {"no", "held", "clockless"}] /\ blurred' = blurred
  BY DEF Visit, Mishap, TypeOK
<1>3. \/ pc' = pc /\ at' = at /\ todo' = todo \ {f}
      \/ /\ pc' = "copy" /\ todo' = todo /\ Here(live, f) /\ ~(live[f].mod < Cutoff)
         /\ at' = [file |-> f, size |-> live[f].size, mod |-> live[f].mod]
  BY DEF Visit, Skip, Passes, Here
<1>4. at' \in Stat \cup {None}
  <2>1. Here(live, f) =>
          [file |-> f, size |-> live[f].size, mod |-> live[f].mod] \in Stat
    BY Entries, CopyParts DEF Stat
  <2>2. QED
    BY <1>3, <2>1 DEF TypeOK
<1>5. TypeOK'
  BY <1>1, <1>2, <1>3, <1>4 DEF TypeOK, Labels, Mishaps
<1>6. SizeInv' /\ TimeInv'
  BY <1>1 DEF SizeInv, TimeInv, Dirty, Here
<1>7. RunInv'
  <2>1. CASE pc' = pc /\ at' = at /\ todo' = todo \ {f}
    BY <1>1, <2>1 DEF RunInv
  <2>2. CASE /\ pc' = "copy" /\ todo' = todo /\ Here(live, f) /\ ~(live[f].mod < Cutoff)
             /\ at' = [file |-> f, size |-> live[f].size, mod |-> live[f].mod]
    <3>1. live[f].mod \in Nat /\ Cutoff \in Int
      BY <2>2, Entries, CopyParts, Numbers DEF Times, Cutoff, TypeOK
    <3>2. at' \in Stat
      BY <2>2, Entries, CopyParts DEF Stat
    <3>3. QED
      BY <1>1, <2>2, <3>1, <3>2 DEF RunInv, Cutoff, Here
  <2>3. QED
    BY <1>3, <2>1, <2>2
<1>8. QED
  BY <1>5, <1>6, <1>7

(* The copy is one, and the walk goes on.                                   *)
LEMMA TypedCopyFile == Typed /\ CopyFile => Typed'
<1> SUFFICES ASSUME Typed, CopyFile PROVE Typed'
  OBVIOUS
<1> USE DEF Typed
<1>1. /\ pc = "copy" /\ pc' = "walk" /\ todo' = todo \ {at.file} /\ at' = None
      /\ run' = run /\ visited' = visited /\ outcome' = outcome
      /\ UNCHANGED <<now, live, setting, marker, clock, verdicts>>
  BY DEF CopyFile, world, beside
<1>2. at \in Stat /\ at.file \in Files
  BY <1>1, StatParts DEF RunInv
<1>3. /\ found' \in {found, found \cup {at.file}} /\ wrote' \in {wrote, wrote \cup {at.file}}
      /\ mishaps' \in {mishaps, mishaps \cup {"vanished"}}
      /\ lagging' \in [Files -> {"no", "held", "clockless"}] /\ blurred' = blurred
  BY <1>2 DEF CopyFile, Mishap, TypeOK
<1>4. \/ staged' = staged
      \/ Here(live, at.file) /\ staged' = [staged EXCEPT ![at.file] = NewCopy]
  BY DEF CopyFile, Here, NewCopy, Taken
<1>5. staged' \in [Files -> Copy \cup {None}]
  BY <1>2, <1>4, NewCopyParts DEF TypeOK
<1>6. TypeOK'
  BY <1>1, <1>2, <1>3, <1>5 DEF TypeOK, Labels, Mishaps
<1>7. SizeInv'
  <2>1. ASSUME NEW f \in Files, Dirty(f)' PROVE staged'[f].size \in Sizes
    <3>1. CASE staged' = staged
      BY <2>1, <3>1 DEF SizeInv, Dirty, Here
    <3>2. CASE Here(live, at.file) /\ staged' = [staged EXCEPT ![at.file] = NewCopy]
      <4>1. CASE f = at.file
        <5>1. staged'[f] = NewCopy
          BY <3>2, <4>1 DEF TypeOK
        <5>2. QED
          BY <2>1, <3>2, <5>1, <1>2, NewCopyParts DEF Dirty
      <4>2. CASE f # at.file
        BY <2>1, <3>2, <4>2 DEF SizeInv, Dirty, Here, TypeOK
      <4>3. QED
        BY <4>1, <4>2
    <3>3. QED
      BY <1>4, <3>1, <3>2
  <2>2. QED
    BY <1>1, <2>1 DEF SizeInv, Here
<1>8. TimeInv'
  BY <1>1 DEF TimeInv, Here
<1>9. RunInv'
  BY <1>1 DEF RunInv
<1>10. QED
  BY <1>6, <1>7, <1>8, <1>9

(* The steps behind the walk touch copies and records.                      *)
LEMMA TypedBehind ==
    ASSUME Typed, UNCHANGED <<now, live, setting, run, todo, visited, lagging, blurred>>,
           pc \in {"walk", "sweep", "audit", "mark", "clock"}, todo = {}, at' = None,
           pc' \in {"sweep", "audit", "mark", "clock"}, wrote' \subseteq Files,
           \A f \in Files : staged'[f] \in {staged[f], None}
                            \/ (Here(staged, f) /\ staged'[f] = Scrubbed(staged[f])),
           DOMAIN staged' = Files, staged' = [f \in Files |-> staged'[f]],
           marker' \in {"on", "off"}, clock' = clock,
           verdicts' \in [Files -> Verdict \cup {None}],
           found' \subseteq Files, outcome' = outcome, mishaps' \subseteq Mishaps
    PROVE  Typed'
<1> USE DEF Typed
<1>1. ASSUME NEW f \in Files
      PROVE  /\ staged'[f] \in Copy \cup {None}
             /\ Dirty(f)' => Dirty(f) /\ staged'[f] = staged[f]
  <2>1. Here(staged, f) => /\ staged[f] \in Copy /\ Scrubbed(staged[f]) \in Copy
                           /\ Scrubbed(staged[f]).kind # "secret"
    BY Entries, ScrubParts DEF SizeInv, Dirty
  <2>2. QED
    BY <2>1 DEF Dirty, Here
<1>2. TypeOK'
  BY <1>1 DEF TypeOK, Labels
<1>3. SizeInv'
  BY <1>1 DEF SizeInv, Here
<1>4. TimeInv'
  BY DEF TimeInv, Here
<1>5. RunInv'
  BY DEF RunInv
<1>6. QED
  BY <1>2, <1>3, <1>4, <1>5

(* Copies go.                                                               *)
LEMMA TypedPrune == Typed /\ Prune => Typed'
<1> SUFFICES ASSUME Typed, Prune PROVE Typed'
  OBVIOUS
<1>1. at = None /\ TypeOK
  BY DEF Typed, RunInv, Prune, Goto
<1>2. QED
  BY <1>1, TypedBehind DEF Prune, Goto, world, beside, progress, ghosts, TypeOK

(* Copies are scrubbed in place.                                            *)
LEMMA TypedSweep == Typed /\ Sweep => Typed'
<1> SUFFICES ASSUME Typed, Sweep PROVE Typed'
  OBVIOUS
<1>1. at = None /\ TypeOK /\ todo = {}
  BY DEF Typed, RunInv, Sweep, Goto
<1>2. QED
  BY <1>1, TypedBehind DEF Sweep, Goto, Here, world, beside, progress, ghosts, TypeOK

(* A verdict is about a copy.                                               *)
LEMMA TypedAudit == Typed /\ Audit => Typed'
<1> SUFFICES ASSUME Typed, Audit PROVE Typed'
  OBVIOUS
<1>1. at = None /\ TypeOK /\ todo = {}
  BY DEF Typed, RunInv, Audit, Goto
<1>2. ASSUME NEW f \in Files, Here(staged, f)
      PROVE  [size |-> staged[f].size, mod |-> staged[f].mod] \in Verdict
  BY <1>1, <1>2, Entries, CopyParts DEF Verdict
<1>3. verdicts' \in [Files -> Verdict \cup {None}]
  BY <1>1, <1>2 DEF Audit, TypeOK, Here
<1>4. found' \subseteq Files
  BY <1>1 DEF Audit, TypeOK
<1>5. QED
  BY <1>1, <1>3, <1>4, TypedBehind DEF Audit, Goto, world, ghosts, TypeOK

(* The marker is left, or a mishap.                                         *)
LEMMA TypedMark == Typed /\ Mark => Typed'
<1> SUFFICES ASSUME Typed, Mark PROVE Typed'
  OBVIOUS
<1>1. at = None /\ TypeOK /\ todo = {}
  BY DEF Typed, RunInv, Mark, Goto
<1>2. marker' \in {"on", "off"} /\ mishaps' \subseteq Mishaps
  BY <1>1 DEF Mark, Mishap, Mishaps, TypeOK
<1>3. QED
  BY <1>1, <1>2, TypedBehind DEF Mark, Goto, world, progress, TypeOK

(* The end of a run.                                                        *)
LEMMA TypedWriteClock == Typed /\ WriteClock => Typed'
<1> SUFFICES ASSUME Typed, WriteClock PROVE Typed'
  OBVIOUS
<1> USE DEF Typed
<1>1. TypeOK'
  BY Numbers DEF WriteClock, Goto, Forget, NoRun, TypeOK, Labels, world, Times
<1>2. SizeInv'
  BY DEF WriteClock, SizeInv, Dirty, Here, world
<1>3. TimeInv'
  BY DEF WriteClock, Forget, NoRun, TimeInv, Here, world, TypeOK, Times
<1>4. RunInv'
  BY DEF WriteClock, Goto, Forget, NoRun, RunInv
<1>5. QED
  BY <1>1, <1>2, <1>3, <1>4

(* A kill leaves the copy cut, or as it was.                                *)
CutCopy == [ver |-> 0, size |-> 0, mod |-> Stamp(now), kind |-> "plain"]

(* It is a copy.                                                            *)
LEMMA CutCopyParts ==
    ASSUME TypeOK
    PROVE  /\ CutCopy \in Copy /\ CutCopy # None /\ CutCopy.kind = "plain"
           /\ CutCopy.size = 0 /\ CutCopy.mod = Stamp(now)
<1>1. 0 \in 0..MaxVer /\ 0 \in Lengths /\ Stamp(now) \in Times /\ "plain" \in Kinds
  BY Numbers, LengthParts, StampTime DEF TypeOK, Kinds
<1>2. QED
  BY <1>1, MakeCopy DEF CutCopy

(* A kill at any step.                                                      *)
LEMMA TypedDie == Typed /\ Die => Typed'
<1> SUFFICES ASSUME Typed, Die PROVE Typed'
  OBVIOUS
<1> USE DEF Typed
<1>1. \/ staged' = staged
      \/ pc = "copy" /\ staged' = [staged EXCEPT ![at.file] = CutCopy]
  BY DEF Die, CutCopy
<1>2. pc = "copy" => at.file \in Files
  BY StatParts DEF RunInv
<1>3. staged' \in [Files -> Copy \cup {None}]
  BY <1>1, <1>2, CutCopyParts DEF TypeOK
<1>4. TypeOK'
  BY <1>3, Numbers DEF Die, Forget, NoRun, TypeOK, Labels, world, beside, Times, Mishap, Mishaps
<1>5. \A f \in Files : Dirty(f)' => Dirty(f) /\ staged'[f] = staged[f]
  BY <1>1, <1>2, CutCopyParts DEF Dirty, Here, TypeOK
<1>6. SizeInv'
  BY <1>5 DEF Die, SizeInv, Here, world
<1>7. TimeInv'
  BY DEF Die, Forget, NoRun, TimeInv, Here, world, beside, TypeOK, Times
<1>8. RunInv'
  BY DEF Die, Forget, NoRun, RunInv
<1>9. QED
  BY <1>4, <1>6, <1>7, <1>8

(* The sessions write with the clock's stamp.                               *)
LEMMA TypedWrite == ASSUME NEW f \in Files PROVE Typed /\ Write(f) => Typed'
<1> SUFFICES ASSUME Typed, Write(f) PROVE Typed'
  OBVIOUS
<1> USE DEF Typed
<1>1. PICK size \in Sizes, kind \in {"plain", "secret"} :
        live' = [live EXCEPT ![f] = [ver |-> live[f].ver + 1, size |-> size,
                                     mod |-> Stamp(now), kind |-> kind]]
  BY DEF Write
<1>2. /\ Here(live, f) /\ live[f].ver < MaxVer /\ blurred' \subseteq Files \X Times
      /\ UNCHANGED <<now, setting, staged, marker, clock, verdicts, pc, run, todo, at,
                     visited, wrote, found, outcome, lagging, mishaps>>
  BY DEF Write, Shared, Here, TypeOK, beside, progress
<1> DEFINE c == [ver |-> live[f].ver + 1, size |-> size, mod |-> Stamp(now), kind |-> kind]
<1>3. c \in Copy /\ c # None
  <2>1. live[f].ver + 1 \in 0..MaxVer
    BY <1>2, Entries, CopyParts, Numbers
  <2>2. size \in Lengths /\ Stamp(now) \in Times /\ kind \in Kinds
    BY LengthParts, StampTime DEF TypeOK, Kinds
  <2>3. QED
    BY <2>1, <2>2, MakeCopy
<1>4. \A g \in Files : live'[g] = IF g = f THEN c ELSE live[g]
  BY <1>1 DEF TypeOK
<1>5. c.size = size /\ c.mod = Stamp(now)
  OBVIOUS
<1> HIDE DEF c
<1>6. TypeOK'
  <2>1. live' \in [Files -> Copy \cup {None}]
    BY <1>1, <1>3 DEF TypeOK, c
  <2>2. QED
    BY <1>2, <2>1 DEF TypeOK, Mishaps
<1>7. SizeInv'
  BY <1>2, <1>4, <1>5 DEF SizeInv, Dirty, Here
<1>8. TimeInv'
  BY <1>2, <1>4, <1>5, StampBounds DEF TimeInv, Here, TypeOK, Times
<1>9. RunInv'
  <2>1. ASSUME pc = "copy", Here(live, at.file)' PROVE at.mod <= live'[at.file].mod
    <3>1. at \in Stat /\ at.file \in Files /\ at.mod \in Times
      BY <2>1, StatParts DEF RunInv
    <3>2. Here(live, at.file)
      BY <1>2, <1>4, <2>1, <3>1 DEF Here
    <3>3. at.mod <= live[at.file].mod /\ live[at.file].mod <= Stamp(now)
      BY <2>1, <3>1, <3>2 DEF RunInv, TimeInv
    <3>4. live[at.file].mod \in Nat /\ Stamp(now) \in Nat /\ at.mod \in Nat
      BY <3>1, <3>2, Entries, CopyParts, StampBounds DEF TypeOK, Times
    <3>5. QED
      BY <1>4, <1>5, <3>1, <3>3, <3>4
  <2>2. QED
    BY <1>2, <2>1 DEF RunInv, Cutoff
<1>10. QED
  BY <1>6, <1>7, <1>8, <1>9

(* A session is removed.                                                    *)
LEMMA TypedDelete == ASSUME NEW f \in Files PROVE Typed /\ Delete(f) => Typed'
<1> SUFFICES ASSUME Typed, Delete(f) PROVE Typed'
  OBVIOUS
<1> USE DEF Typed
<1>1. /\ Here(live, f) /\ live' = [live EXCEPT ![f] = None]
      /\ UNCHANGED <<now, setting, staged, marker, clock, verdicts, pc, run, todo, at,
                     visited, wrote, found, outcome, lagging, mishaps, blurred>>
  BY DEF Delete, Here, beside, progress, ghosts
<1>2. \A g \in Files : live'[g] = IF g = f THEN None ELSE live[g]
  BY <1>1 DEF TypeOK
<1>3. TypeOK'
  BY <1>1 DEF TypeOK
<1>4. SizeInv' /\ TimeInv'
  BY <1>1, <1>2 DEF SizeInv, TimeInv, Dirty, Here
<1>5. RunInv'
  BY <1>1, <1>2, StatParts DEF RunInv, Cutoff, Here
<1>6. QED
  BY <1>3, <1>4, <1>5

(* The setting changes between runs.                                        *)
LEMMA TypedConfigure == Typed /\ Configure => Typed'
BY DEF Configure, Typed, TypeOK, SizeInv, TimeInv, RunInv, Dirty, Here, Cutoff, beside,
       progress, ghosts

(* The clock goes on, and stamps with it.                                   *)
LEMMA TypedPass == Typed /\ Pass => Typed'
<1> SUFFICES ASSUME Typed, Pass PROVE Typed'
  OBVIOUS
<1> USE DEF Typed
<1>1. /\ now < MaxTime /\ now' = now + 1
      /\ UNCHANGED <<live, setting, staged, marker, clock, verdicts, pc, run, todo, at,
                     visited, wrote, found, outcome, lagging, mishaps, blurred>>
  BY DEF Pass, beside, progress, ghosts
<1>2. now \in Nat /\ now' \in Times
  BY <1>1, Numbers DEF TypeOK, Times
<1>3. TypeOK'
  BY <1>1, <1>2 DEF TypeOK
<1>4. SizeInv' /\ RunInv'
  BY <1>1 DEF SizeInv, RunInv, Dirty, Here, Cutoff
<1>5. TimeInv'
  <2>1. Stamp(now) \in Nat /\ Stamp(now + 1) \in Nat /\ Stamp(now) <= Stamp(now + 1)
    BY <1>2, StampBounds, StampGrows
  <2>2. \A f \in Files : Here(live, f) => live[f].mod \in Nat
    BY Entries, CopyParts DEF Times
  <2>3. (clock # None => clock \in Nat) /\ run.started \in Nat
    BY DEF TypeOK, Times
  <2>4. QED
    BY <1>1, <1>2, <2>1, <2>2, <2>3 DEF TimeInv, Here
<1>6. QED
  BY <1>3, <1>4, <1>5

(* Nothing happens.                                                         *)
LEMMA TypedStutter == Typed /\ UNCHANGED vars => Typed'
BY DEF vars, world, beside, progress, ghosts, Typed, TypeOK, SizeInv, TimeInv, RunInv,
       Dirty, Here, Cutoff

(* And so every step keeps the types and what a run knows.                  *)
LEMMA TypedNext == Typed /\ [Next]_vars => Typed'
BY TypedBegin, TypedVisit, TypedCopyFile, TypedPrune, TypedSweep, TypedAudit, TypedMark,
   TypedWriteClock, TypedDie, TypedWrite, TypedDelete, TypedConfigure, TypedPass,
   TypedStutter DEF Next, RunStep

(* Every reachable state is well typed.                                     *)
THEOREM TypeCorrect == Spec => []TypeOK
<1>1. Typed => TypeOK
  BY DEF Typed
<1>2. QED
  BY <1>1, TypedInit, TypedNext, PTL DEF Spec
-----------------------------------------------------------------------------
(* A dirty copy was there before, or is one that this step made of a        *)
(* source, with redaction off.                                              *)
LEMMA DirtyFrom ==
    ASSUME Typed, [Next]_vars, NEW f \in Files, Dirty(f)'
    PROVE  \/ Dirty(f) /\ staged'[f] = staged[f]
           \/ /\ CopyFile /\ f = at.file /\ Here(live, f) /\ at \in Stat
              /\ staged'[f] = NewCopy /\ NewCopy.kind = "secret" /\ run.scrub = "off"
<1> USE DEF Typed
<1>0. CASE staged' = staged
  BY <1>0 DEF Dirty, Here
<1>1. CASE CopyFile
  <2>1. at \in Stat /\ at.file \in Files
    BY <1>1, StatParts DEF RunInv, CopyFile
  <2>2. CASE Here(live, at.file) /\ staged' = [staged EXCEPT ![at.file] = NewCopy]
    <3>1. staged'[f] = IF f = at.file THEN NewCopy ELSE staged[f]
      BY <2>1, <2>2 DEF TypeOK
    <3>2. QED
      BY <1>1, <2>1, <2>2, <3>1, NewCopyParts DEF Dirty, Here, TypeOK
  <2>3. QED
    BY <1>0, <1>1, <2>2 DEF CopyFile, Here, NewCopy, Taken
<1>2. CASE Prune \/ Audit
  BY <1>2 DEF Prune, Audit, Dirty, Here
<1>3. CASE Sweep
  <2>1. Here(staged, f) => Scrubbed(staged[f]).kind # "secret"
    BY Entries, ScrubParts DEF SizeInv, Dirty
  <2>2. QED
    BY <1>3, <2>1 DEF Sweep, Dirty, Here
<1>4. CASE Die
  <2>1. CASE pc = "copy" /\ staged' = [staged EXCEPT ![at.file] = CutCopy]
    <3>1. staged'[f] = IF f = at.file THEN CutCopy ELSE staged[f]
      BY <2>1 DEF TypeOK
    <3>2. QED
      BY <3>1, CutCopyParts DEF Dirty, Here
  <2>2. QED
    BY <1>0, <1>4, <2>1 DEF Die, CutCopy
<1>5. QED
  BY <1>0, <1>1, <1>2, <1>3, <1>4
     DEF Next, RunStep, Begin, Visit, Mark, WriteClock, Configure, Pass, Write, Delete, vars

(* A source was there before, and is no older than it was.                  *)
LEMMA LiveFrom ==
    ASSUME Typed, [Next]_vars, NEW f \in Files, Here(live, f)'
    PROVE  /\ Here(live, f) /\ live[f] \in Copy /\ live'[f] \in Copy
           /\ live[f].mod <= live'[f].mod
           /\ live'[f] = live[f] \/ Write(f)
<1> USE DEF Typed
<1>0. ASSUME live'[f] = live[f] PROVE Here(live, f) /\ live[f] \in Copy
                                      /\ live[f].mod <= live'[f].mod
  BY <1>0, Entries, CopyParts DEF Here, Times
<1>1. ASSUME NEW g \in Files, Write(g)
      PROVE  live'[f] = live[f] \/ (g = f /\ Here(live, f) /\ live[f].mod <= live'[f].mod)
  <2>1. CASE g = f
    <3>1. Here(live, f) /\ live'[f].mod = Stamp(now)
      BY <1>1, <2>1 DEF Write, Here, TypeOK
    <3>2. QED
      BY <2>1, <3>1 DEF TimeInv
  <2>2. CASE g # f
    BY <1>1, <2>2 DEF Write, TypeOK
  <2>3. QED
    BY <2>1, <2>2
<1>2. ASSUME NEW g \in Files, Delete(g) PROVE live'[f] = live[f]
  BY <1>2 DEF Delete, Here, TypeOK
<1>3. live'[f] = live[f] \/ (Write(f) /\ Here(live, f) /\ live[f].mod <= live'[f].mod)
  BY <1>1, <1>2 DEF Next, RunStep, Begin, Visit, CopyFile, Prune, Sweep, Audit, Mark,
                    WriteClock, Die, Configure, Pass, vars, world
<1>4. Typed'
  BY TypedNext
<1>5. live'[f] \in Copy
  BY <1>4 DEF TypeOK, Here
<1>6. QED
  BY <1>0, <1>3, <1>5, Entries

(* What went wrong stays on record.                                         *)
LEMMA MishapsGrow == [Next]_vars => mishaps \subseteq mishaps'
BY DEF Next, RunStep, Begin, Visit, CopyFile, Prune, Sweep, Audit, Mark, WriteClock, Die,
       Configure, Pass, Write, Delete, vars, ghosts, Mishap

(* A dirty copy is no newer than its source.                                *)
LEMMA SourceStep == Typed /\ SourceInv /\ [Next]_vars => SourceInv'
<1> SUFFICES ASSUME Typed, SourceInv, [Next]_vars,
                    NEW f \in Files, Here(live, f)', Dirty(f)'
             PROVE  staged'[f].mod <= live'[f].mod
  BY DEF SourceInv
<1>1. /\ Here(live, f) /\ live[f] \in Copy /\ live'[f] \in Copy
      /\ live[f].mod <= live'[f].mod
  BY LiveFrom
<1>2. live[f].mod \in Nat /\ live'[f].mod \in Nat
  BY <1>1, CopyParts DEF Times
<1>3. CASE Dirty(f) /\ staged'[f] = staged[f]
  <2>1. staged[f].mod \in Nat /\ staged[f].mod <= live[f].mod
    BY <1>1, <1>3, Entries, CopyParts DEF SourceInv, Dirty, Typed, Times
  <2>2. QED
    BY <1>1, <1>2, <1>3, <2>1
<1>4. CASE CopyFile /\ f = at.file /\ at \in Stat /\ staged'[f] = NewCopy
  <2>1. at.mod \in Nat /\ at.mod <= live[f].mod
    BY <1>1, <1>4, StatParts DEF CopyFile, Typed, RunInv, Times
  <2>2. NewCopy.mod = at.mod
    BY <1>1, <1>4, NewCopyParts DEF Typed
  <2>3. QED
    BY <1>1, <1>2, <1>4, <2>1, <2>2
<1>5. QED
  BY <1>3, <1>4, DirtyFrom

-----------------------------------------------------------------------------
(* A clean stage stays clean, unless a run with redaction off copies.       *)
LEMMA CleanStays ==
    ASSUME Typed, [Next]_vars, Clean, ~CopyFile \/ run.scrub = "on"
    PROVE  Clean'
BY DirtyFrom DEF Clean

(* The walk past a file owes the marker: a dirty copy it leaves is outside  *)
(* the window, which Prune sees to.                                         *)
LEMMA MarkerVisit ==
    ASSUME NEW f \in Files
    PROVE  Typed /\ SourceInv /\ MarkerInv /\ Visit(f) => MarkerInv'
<1> SUFFICES ASSUME Typed, SourceInv, MarkerInv, Visit(f), ~Trouble' PROVE MarkerInv'
  BY DEF MarkerInv
<1>1. /\ pc = "walk" /\ pc' \in {"walk", "copy"}
      /\ UNCHANGED <<run, marker, staged, visited, live>>
  BY DEF Visit, Skip, world, beside
<1>2. ~Trouble /\ Owed
  BY <1>1, MishapsGrow DEF Visit, Mishap, Trouble, MarkerInv
<1>3. CASE run.scrub = "off" \/ run.rescrub = "no"
  BY <1>1, <1>2, <1>3 DEF MarkerInv, Owed, Clean, Dirty, Here
<1>4. CASE run.scrub # "off" /\ run.rescrub # "no"
  <2>1. run.rescrub = "yes"
    BY <1>4 DEF Typed, TypeOK
  <2>2. ASSUME NEW g \in visited \ todo', Dirty(g) PROVE staged[g].mod < Cutoff
    <3>1. CASE g \in todo
      <4>1. g = f /\ todo' = todo \ {f}
        BY <2>2, <3>1 DEF Visit, Skip
      <4>2. Passes(f) /\ Here(live, f)
        <5>1. ~Unchanged(f) /\ ~Defers(f)
          BY <2>1 DEF Unchanged, Defers
        <5>2. Passes(f) /\ mishaps' = IF live[f] = None THEN mishaps \cup {"vanished"}
                                      ELSE mishaps
          BY <4>1, <3>1, <2>2, <5>1 DEF Visit, Mishap
        <5>3. QED
          BY <5>2 DEF Trouble, Here
      <4>3. live[f].mod < Cutoff /\ staged[f].mod <= live[f].mod
        BY <2>2, <4>1, <4>2 DEF Passes, SourceInv, Here
      <4>4. live[f].mod \in Int /\ staged[f].mod \in Int /\ Cutoff \in Int
        BY <2>2, <4>1, <4>2, Entries, CopyParts, Numbers
           DEF Typed, TypeOK, Dirty, Times, Cutoff
      <4>5. QED
        BY <4>1, <4>3, <4>4
    <3>2. CASE g \notin todo
      BY <1>1, <1>2, <1>4, <2>2, <3>2 DEF Owed
    <3>3. QED
      BY <3>1, <3>2
  <2>3. QED
    BY <1>1, <1>2, <1>4, <2>2 DEF MarkerInv, Owed, Dirty, Here, Cutoff
<1>5. QED
  BY <1>3, <1>4

(* A copy made with redaction on is clean, and none is left out.            *)
LEMMA MarkerCopyFile == Typed /\ MarkerInv /\ CopyFile => MarkerInv'
<1> SUFFICES ASSUME Typed, MarkerInv, CopyFile, ~Trouble' PROVE MarkerInv'
  BY DEF MarkerInv
<1>1. /\ pc = "copy" /\ pc' = "walk" /\ todo' = todo \ {at.file}
      /\ UNCHANGED <<run, marker, visited, live>>
  BY DEF CopyFile, world, beside
<1>2. ~Trouble /\ Owed
  BY <1>1 DEF CopyFile, Mishap, Trouble, MarkerInv
<1>3. CASE run.scrub = "off"
  BY <1>1, <1>2, <1>3 DEF MarkerInv, Owed
<1>4. CASE run.scrub # "off" /\ run.rescrub = "no"
  BY <1>1, <1>2, <1>4, CleanStays DEF MarkerInv, Owed, Typed, TypeOK, Next, RunStep
<1>5. CASE run.scrub # "off" /\ run.rescrub # "no"
  <2>1. run.scrub = "on" /\ at \in Stat /\ at.file \in Files
    BY <1>1, <1>5, StatParts DEF Typed, TypeOK, RunInv
  <2>2. Here(live, at.file)
    BY DEF CopyFile, Mishap, Trouble, Here
  <2>3. NewCopy.kind # "secret" /\ Taken.kind # "secret"
    BY <2>1, <2>2, NewCopyParts DEF Typed
  <2>4. staged' = [staged EXCEPT ![at.file] = NewCopy]
    BY <2>2, <2>3 DEF CopyFile, Here, NewCopy, Taken
  <2>5. ASSUME NEW g \in visited \ todo', Dirty(g)' PROVE staged'[g].mod < Cutoff
    <3>1. g \in Files /\ g # at.file /\ staged'[g] = staged[g]
      BY <2>1, <2>3, <2>4, <2>5, <1>1 DEF Dirty, Typed, TypeOK
    <3>2. g \in visited \ todo /\ Dirty(g)
      BY <1>1, <2>5, <3>1 DEF Dirty, Here
    <3>3. QED
      BY <1>1, <1>2, <1>5, <3>1, <3>2 DEF Owed
  <2>6. QED
    BY <1>1, <1>2, <1>5, <2>5 DEF MarkerInv, Owed, Cutoff
<1>6. QED
  BY <1>3, <1>4, <1>5

(* Behind the walk: what is aged goes, what has no source is scrubbed.      *)
LEMMA MarkerBehind ==
    Typed /\ MarkerInv /\ (Prune \/ Sweep \/ Audit) => MarkerInv'
<1> SUFFICES ASSUME Typed, MarkerInv, Prune \/ Sweep \/ Audit, ~Trouble' PROVE MarkerInv'
  BY DEF MarkerInv
<1>1. /\ UNCHANGED <<run, marker, visited, mishaps>> /\ pc # "idle"
      /\ pc' # "idle" /\ pc' # "clock" /\ [Next]_vars /\ ~CopyFile
  BY DEF Prune, Sweep, Audit, beside, progress, ghosts, Goto, Next, RunStep, CopyFile
<1>2. ~Trouble /\ Owed
  BY <1>1 DEF Trouble, MarkerInv
<1>3. Clean => Clean'
  BY <1>1, CleanStays
<1>4. CASE run.scrub = "off" \/ run.rescrub = "no"
  BY <1>1, <1>2, <1>3, <1>4 DEF MarkerInv, Owed
<1>5. CASE run.scrub # "off" /\ run.rescrub # "no"
  <2>1. run.rescrub = "yes" /\ visited \subseteq Files
    BY <1>5 DEF Typed, TypeOK
  <2>2. CASE Prune
    <3>1. pc = "walk" /\ pc' = "sweep" /\ todo = {}
      BY <2>2 DEF Prune, Goto
    <3>2. \A g \in visited : ~Dirty(g)'
      BY <1>2, <1>5, <2>1, <2>2, <3>1 DEF Owed, Prune, Dirty, Here
    <3>3. QED
      BY <1>1, <1>2, <1>5, <3>1, <3>2 DEF MarkerInv, Owed
  <2>3. CASE Sweep
    <3>1. pc = "sweep" /\ pc' = "audit"
      BY <2>3 DEF Sweep, Goto
    <3>2. ASSUME NEW g \in Files PROVE ~Dirty(g)'
      <4>1. Here(staged, g) => Scrubbed(staged[g]).kind # "secret"
        BY Entries, ScrubParts DEF Typed, SizeInv, Dirty
      <4>2. QED
        BY <1>2, <1>5, <2>1, <2>3, <3>1, <4>1 DEF Owed, Sweep, Dirty, Here
    <3>3. QED
      BY <1>1, <1>2, <1>5, <3>1, <3>2 DEF MarkerInv, Owed, Clean
  <2>4. CASE Audit
    <3>1. pc = "audit" /\ pc' = "mark"
      BY <2>4 DEF Audit, Goto
    <3>2. QED
      BY <1>1, <1>2, <1>3, <1>5, <3>1 DEF MarkerInv, Owed
  <2>5. QED
    BY <2>2, <2>3, <2>4
<1>6. QED
  BY <1>4, <1>5

(* The steps that read the marker, write it, or end the run.                *)
LEMMA MarkerEnds ==
    Typed /\ MarkerInv /\ (Begin \/ Mark \/ WriteClock \/ Die) => MarkerInv'
<1> SUFFICES ASSUME Typed, MarkerInv, Begin \/ Mark \/ WriteClock \/ Die, ~Trouble'
             PROVE  MarkerInv'
  BY DEF MarkerInv
<1>1. [Next]_vars /\ ~CopyFile /\ ~Trouble
  BY MishapsGrow DEF Next, RunStep, Begin, Mark, WriteClock, Die, Goto, CopyFile, Trouble, Forget, NoRun
<1>2. Clean => Clean'
  BY <1>1, CleanStays
<1>3. run.scrub \in {"on", "off"} /\ run.rescrub \in {"yes", "no"}
      /\ setting \in {"on", "off"} /\ marker \in {"on", "off"}
  BY DEF Typed, TypeOK
<1>4. CASE Begin
  <2>1. /\ pc = "idle" /\ pc' = "walk" /\ run'.scrub = setting /\ visited' = todo'
        /\ marker' = marker
        /\ run'.rescrub = IF setting = "on" /\ marker # "on" THEN "yes" ELSE "no"
    BY <1>4 DEF Begin, Goto, beside
  <2>2. QED
    BY <1>1, <1>2, <1>3, <2>1 DEF MarkerInv, Owed
<1>5. CASE Mark
  <2>1. /\ pc = "mark" /\ pc' = "clock" /\ run' = run
        /\ marker' = run.scrub \/ run.scrub # "off"
    BY <1>5 DEF Mark, Mishap, Goto, Trouble
  <2>2. Owed
    BY <1>1, <2>1 DEF MarkerInv
  <2>3. QED
    BY <1>2, <1>3, <2>1, <2>2 DEF MarkerInv, Owed
<1>6. CASE WriteClock
  <2>1. pc = "clock" /\ pc' = "idle" /\ marker' = marker
    BY <1>6 DEF WriteClock, Goto
  <2>2. QED
    BY <1>1, <1>2, <1>3, <2>1 DEF MarkerInv, Owed
<1>7. CASE Die
  <2>1. pc # "idle" /\ pc' = "idle" /\ marker' = marker /\ run.scrub # "off"
    BY <1>7 DEF Die, Mishap, Trouble, beside
  <2>2. pc \in Labels
    BY DEF Typed, TypeOK
  <2>3. QED
    BY <1>1, <1>2, <1>3, <2>1, <2>2 DEF MarkerInv, Owed, Labels
<1>8. QED
  BY <1>4, <1>5, <1>6, <1>7

(* The sessions, the user and the clock do not touch the stage.             *)
LEMMA MarkerRest ==
    Typed /\ MarkerInv /\ UNCHANGED <<staged, marker, pc, run, todo, visited>>
      /\ mishaps \subseteq mishaps' => MarkerInv'
BY DEF MarkerInv, Trouble, Owed, Clean, Dirty, Here, Cutoff

(* And so for every step.                                                   *)
LEMMA MarkerNext == Typed /\ SourceInv /\ MarkerInv /\ [Next]_vars => MarkerInv'
<1> SUFFICES ASSUME Typed, SourceInv, MarkerInv, [Next]_vars PROVE MarkerInv'
  OBVIOUS
<1>1. mishaps \subseteq mishaps'
  BY MishapsGrow
<1>2. CASE \E f \in Files : Write(f) \/ Delete(f)
  <2>1. UNCHANGED <<staged, marker, pc, run, todo, visited>>
    BY <1>2 DEF Write, Delete, beside, progress
  <2>2. QED
    BY <1>1, <2>1, MarkerRest
<1>3. CASE Configure \/ Pass \/ UNCHANGED vars
  <2>1. UNCHANGED <<staged, marker, pc, run, todo, visited>>
    BY <1>3 DEF Configure, Pass, vars, beside, progress
  <2>2. QED
    BY <1>1, <2>1, MarkerRest
<1>4. QED
  BY <1>2, <1>3, MarkerVisit, MarkerCopyFile, MarkerBehind, MarkerEnds DEF Next, RunStep

(* Once the marker says on, no staged copy holds what redaction would have  *)
(* removed: noteRedactionSetting comes after the walk that restages and the *)
(* sweep of what has no source, and a run with redaction off takes it away. *)
THEOREM MarkerHolds == Spec => []MarkerIsTrue
<1>1. Init => SourceInv /\ MarkerInv
  BY DEF Init, SourceInv, MarkerInv, Dirty, Here
<1>2. MarkerInv => MarkerIsTrue
  BY DEF MarkerInv, MarkerIsTrue, Trouble, Clean, Dirty, Here
<1>3. QED
  BY <1>1, <1>2, TypedInit, TypedNext, SourceStep, MarkerNext, PTL DEF Spec

-----------------------------------------------------------------------------
(* A file that the walk is past is kept: its copy is in the window, or      *)
(* there is a reason not to have one.                                       *)
LEMMA KeepVisit ==
    ASSUME NEW f \in Files PROVE Typed /\ KeepInv /\ Visit(f) => KeepInv'
<1> SUFFICES ASSUME Typed, KeepInv, Visit(f), NEW g \in Files \ todo' PROVE Kept(g)'
  BY DEF KeepInv
<1>1. /\ pc = "walk" /\ found \subseteq found'
      /\ UNCHANGED <<run, staged, live>>
  BY DEF Visit, Skip, world, beside
<1>2. CASE g \notin todo
  BY <1>1, <1>2 DEF KeepInv, Kept, Here, Cutoff
<1>3. CASE g \in todo
  <2>1. g = f /\ (Passes(f) \/ Unchanged(f) \/ Defers(f))
    BY <1>3 DEF Visit, Skip
  <2>2. Here(live, f) => live[f].mod \in Int /\ Cutoff \in Int
    BY Entries, CopyParts, Numbers DEF Typed, TypeOK, Times, Cutoff
  <2>3. Kept(g)
    BY <2>1, <2>2 DEF Kept, Passes, Unchanged, Defers, Here
  <2>4. QED
    BY <1>1, <2>3 DEF Kept, Here, Cutoff
<1>4. QED
  BY <1>2, <1>3

(* A copy that is made is in the window, as its source was when the walk    *)
(* looked.                                                                  *)
LEMMA KeepCopyFile == Typed /\ KeepInv /\ CopyFile => KeepInv'
<1> SUFFICES ASSUME Typed, KeepInv, CopyFile, NEW g \in Files \ todo' PROVE Kept(g)'
  BY DEF KeepInv
<1>1. /\ pc = "copy" /\ todo' = todo \ {at.file} /\ found \subseteq found'
      /\ UNCHANGED <<run, live>> /\ at \in Stat /\ at.file \in Files /\ at.mod >= Cutoff
  BY StatParts DEF CopyFile, world, beside, Typed, RunInv
<1>2. CASE g # at.file
  <2>1. Kept(g) /\ staged'[g] = staged[g]
    BY <1>1, <1>2 DEF KeepInv, CopyFile, Typed, TypeOK
  <2>2. QED
    BY <1>1, <2>1 DEF Kept, Here, Cutoff
<1>3. CASE g = at.file
  <2>1. \/ ~Here(live, g) \/ g \in found'
        \/ Here(live, g) /\ staged' = [staged EXCEPT ![at.file] = NewCopy]
    BY <1>3 DEF CopyFile, Here, NewCopy, Taken
  <2>2. CASE Here(live, g) /\ staged' = [staged EXCEPT ![at.file] = NewCopy]
    <3>1. staged'[g] = NewCopy
      BY <1>1, <1>3, <2>2 DEF Typed, TypeOK
    <3>2. staged'[g].mod = at.mod
      BY <1>1, <1>3, <2>2, <3>1, NewCopyParts DEF Typed
    <3>3. QED
      BY <1>1, <3>2 DEF Kept, Here, Cutoff
  <2>3. QED
    BY <1>1, <2>1, <2>2 DEF Kept, Here
<1>4. QED
  BY <1>2, <1>3

(* A write while the run is on its way is stamped no earlier than the run   *)
(* began.                                                                   *)
LEMMA KeepWrite ==
    ASSUME NEW f \in Files PROVE Typed /\ KeepInv /\ Write(f) => KeepInv'
<1> SUFFICES ASSUME Typed, KeepInv, Write(f), pc \in {"walk", "copy"},
                    NEW g \in Files \ todo PROVE Kept(g)'
  BY DEF KeepInv, Write, progress
<1>1. UNCHANGED <<run, staged, found>> /\ Kept(g)
  BY DEF Write, progress, KeepInv
<1>2. CASE g = f
  <2>1. live'[g].mod = Stamp(now)
    BY <1>2 DEF Write, Here, Typed, TypeOK
  <2>2. Stamp(now) >= Stamp(run.started)
    BY StampGrows, StampBounds DEF Typed, TypeOK, TimeInv, Times
  <2>3. QED
    BY <1>1, <2>1, <2>2 DEF Kept
<1>3. CASE g # f
  <2>1. live'[g] = live[g]
    BY <1>3 DEF Write, Typed, TypeOK
  <2>2. QED
    BY <1>1, <2>1 DEF Kept, Here, Cutoff
<1>4. QED
  BY <1>2, <1>3

(* And so for every step.                                                   *)
LEMMA KeepNext == Typed /\ KeepInv /\ [Next]_vars => KeepInv'
<1> SUFFICES ASSUME Typed, KeepInv, [Next]_vars PROVE KeepInv'
  OBVIOUS
<1>1. CASE Begin
  BY <1>1 DEF Begin, KeepInv, Kept, Here, world, Typed, TypeOK
<1>2. CASE Prune \/ Sweep \/ Audit \/ Mark \/ WriteClock \/ Die
  BY <1>2 DEF Prune, Sweep, Audit, Mark, WriteClock, Die, Goto, KeepInv
<1>3. ASSUME NEW f \in Files, Delete(f) PROVE KeepInv'
  <2>1. UNCHANGED <<run, staged, found, pc, todo>>
        /\ \A g \in Files : ~Here(live, g)' \/ live'[g] = live[g]
    BY <1>3 DEF Delete, progress, Here, Typed, TypeOK
  <2>2. QED
    BY <2>1 DEF KeepInv, Kept, Here, Cutoff
<1>4. CASE Configure \/ Pass \/ UNCHANGED vars
  BY <1>4 DEF Configure, Pass, vars, world, progress, KeepInv, Kept, Here, Cutoff
<1>5. QED
  BY <1>1, <1>2, <1>3, <1>4, KeepVisit, KeepCopyFile, KeepWrite DEF Next, RunStep

(* Retention never takes the only copy of a session that is still written   *)
(* to: pruneAgedStagedProjects goes by the mtimes of the copies, and every  *)
(* file the walk is past has a copy in the window or none that is owed.     *)
THEOREM Retention == Spec => KeepsACopy
<1>1. Init => KeepInv
  BY DEF Init, KeepInv
<1>2. ASSUME Typed, KeepInv, [Next]_vars, NEW f \in Files,
             Goto("walk", "sweep"), staged[f] # staged'[f]
      PROVE  \/ live[f] = None \/ f \in found
             \/ live[f].mod < Cutoff \/ live[f].mod >= Stamp(run.started)
  <2>1. Prune
    BY <1>2 DEF Goto, Next, RunStep, Begin, Visit, Skip, CopyFile, Sweep, Audit, Mark,
                WriteClock, Die, Configure, Pass, Write, Delete, vars
  <2>2. Kept(f) /\ Here(staged, f) /\ staged[f].mod < Cutoff
    BY <1>2, <2>1 DEF Prune, Goto, KeepInv, Here, Typed, TypeOK
  <2>3. staged[f].mod \in Int /\ Cutoff \in Int
    BY <1>2, <2>2, Entries, CopyParts, Numbers DEF Typed, TypeOK, Times, Cutoff
  <2>4. QED
    BY <2>2, <2>3 DEF Kept, Here
<1> DEFINE Step == \A f \in Files : Goto("walk", "sweep") /\ staged[f] # staged'[f] =>
                      \/ live[f] = None \/ f \in found
                      \/ live[f].mod < Cutoff \/ live[f].mod >= Stamp(run.started)
<1>3. Typed /\ KeepInv /\ [Next]_vars => [Step]_vars
  BY <1>2
<1>4. KeepsACopy <=> [][Step]_vars
  BY DEF KeepsACopy
<1> HIDE DEF Step
<1>5. QED
  BY <1>1, <1>3, <1>4, TypedInit, TypedNext, KeepNext, PTL DEF Spec

-----------------------------------------------------------------------------
(* Every step leaves a copy alone, but for the one that is made, the one    *)
(* that is cut, and those that go or are scrubbed in place.                 *)
LEMMA StagedFrom ==
    ASSUME Typed, [Next]_vars, NEW f \in Files, Here(staged, f)'
    PROVE  \/ staged'[f] = staged[f]
           \/ /\ CopyFile /\ f = at.file /\ Here(live, f) /\ at \in Stat
              /\ staged'[f] = NewCopy
           \/ Die /\ pc = "copy" /\ f = at.file /\ staged'[f] = CutCopy
           \/ Sweep /\ Dirty(f) /\ staged'[f] = Scrubbed(staged[f])
<1> USE DEF Typed
<1>0. CASE staged' = staged
  BY <1>0
<1>1. CASE CopyFile
  <2>1. at \in Stat /\ at.file \in Files
    BY <1>1, StatParts DEF RunInv, CopyFile
  <2>2. CASE Here(live, at.file) /\ staged' = [staged EXCEPT ![at.file] = NewCopy]
    <3>1. staged'[f] = IF f = at.file THEN NewCopy ELSE staged[f]
      BY <2>1, <2>2 DEF TypeOK
    <3>2. QED
      BY <1>1, <2>1, <2>2, <3>1
  <2>3. QED
    BY <1>0, <1>1, <2>2 DEF CopyFile, Here, NewCopy, Taken
<1>2. CASE Prune \/ Audit
  BY <1>2 DEF Prune, Audit, Here
<1>3. CASE Sweep
  BY <1>3, Entries, ScrubParts DEF Sweep, Dirty, Here, SizeInv
<1>4. CASE Die
  <2>1. CASE pc = "copy" /\ staged' = [staged EXCEPT ![at.file] = CutCopy]
    <3>1. staged'[f] = IF f = at.file THEN CutCopy ELSE staged[f]
      BY <2>1 DEF TypeOK
    <3>2. QED
      BY <1>4, <2>1, <3>1
  <2>2. QED
    BY <1>0, <1>4, <2>1 DEF Die, CutCopy
<1>5. QED
  BY <1>0, <1>1, <1>2, <1>3, <1>4
     DEF Next, RunStep, Begin, Visit, Mark, WriteClock, Configure, Pass, Write, Delete, vars

(* What is stamped now no run that began by now trusts, the next included.  *)
LEMMA Fresh ==
    ASSUME Typed
    PROVE  /\ clock # None => Stamp(now) >= clock - Probe
           /\ Stamp(now) >= run.started - Probe
<1>1. now \in Nat /\ Stamp(now) \in Nat /\ now < Stamp(now) + Tick
  BY StampBounds DEF Typed, TypeOK, Times
<1>2. run.started \in Nat /\ run.started <= now /\ (clock # None => clock \in Nat /\ clock <= now)
  BY DEF Typed, TypeOK, TimeInv, Times
<1>3. QED
  BY <1>1, <1>2, Numbers

(* Only the copy that is made ends what it lagged behind for.               *)
LEMMA LaggingFrom ==
    ASSUME Typed, [Next]_vars, NEW f \in Files, lagging'[f] = "no"
    PROVE  \/ lagging[f] = "no"
           \/ /\ CopyFile /\ f = at.file /\ Here(live, f) /\ at \in Stat
              /\ staged'[f] = NewCopy
<1>1. CASE CopyFile
  <2>1. at \in Stat /\ at.file \in Files
    BY <1>1, StatParts DEF Typed, RunInv, CopyFile
  <2>2. QED
    BY <1>1, <2>1 DEF CopyFile, Here, NewCopy, Taken, Typed, TypeOK
<1>2. ASSUME NEW g \in Files, Visit(g) PROVE lagging[f] = "no"
  BY <1>2 DEF Visit, Typed, TypeOK
<1>3. QED
  BY <1>1, <1>2 DEF Next, RunStep, Begin, Prune, Sweep, Audit, Mark, WriteClock, Die,
     Configure, Pass, Write, Delete, vars, ghosts

(* A copy that only looks current did so before, or is stamped now.         *)
LEMMA LooksFrom ==
    ASSUME Typed, [Next]_vars, NEW f \in Files, Looks(f)'
    PROVE  \/ live'[f].mod = Stamp(now) /\ (Die \/ Write(f))
           \/ Looks(f) /\ live'[f] = live[f]
<1>1. Here(live, f) /\ (live'[f] = live[f] \/ Write(f))
  BY LiveFrom DEF Looks
<1>2. CASE Write(f)
  <2>1. live'[f].mod = Stamp(now)
    BY <1>2 DEF Write, Here, Typed, TypeOK
  <2>2. QED
    BY <1>2, <2>1
<1>3. CASE live'[f] = live[f]
  <2>1. CASE CopyFile /\ f = at.file /\ Here(live, f) /\ at \in Stat /\ staged'[f] = NewCopy
    BY <1>3, <2>1, NewCopyParts DEF Looks, Typed
  <2>2. CASE staged'[f] = staged[f]
    BY <1>1, <1>3, <2>1, <2>2, LaggingFrom DEF Looks, Here
  <2>3. CASE Die /\ staged'[f] = CutCopy
    BY <1>3, <2>3, CutCopyParts DEF Looks, Typed
  <2>4. CASE Sweep /\ Dirty(f) /\ staged'[f] = Scrubbed(staged[f])
    <3>1. Scrubbed(staged[f]).ver = staged[f].ver /\ Scrubbed(staged[f]).mod = staged[f].mod
      BY <2>4, Entries, ScrubParts DEF Typed, SizeInv, Dirty
    <3>2. Here(staged, f) /\ lagging' = lagging
      BY <2>4 DEF Dirty, Sweep, ghosts
    <3>3. QED
      BY <1>1, <1>3, <2>4, <3>1, <3>2 DEF Looks
  <2>5. QED
    BY <2>1, <2>2, <2>3, <2>4, StagedFrom DEF Looks
<1>4. QED
  BY <1>1, <1>2, <1>3

(* The walk past a file: what only looks current is too young to trust, so  *)
(* it is passed, deferred or copied.                                        *)
LEMMA SkipVisit ==
    ASSUME NEW f \in Files PROVE Typed /\ SkipInv /\ Visit(f) => SkipInv'
<1> SUFFICES ASSUME Typed, SkipInv, Visit(f), NEW g \in Files, Looks(g)'
             PROVE  /\ clock # None => live[g].mod >= clock - Probe
                    /\ \/ g \in todo' \/ live[g].mod >= run.started - Probe
                       \/ live[g].mod < Cutoff
  BY DEF SkipInv, Visit, Skip, world, beside, Cutoff, Looks
<1>1. /\ pc = "walk" /\ UNCHANGED <<run, staged, live, clock>>
      /\ \A h \in Files : lagging'[h] = "no" => lagging[h] = "no"
  BY DEF Visit, Skip, world, beside, Typed, TypeOK
<1>2. Looks(g)
  BY <1>1 DEF Looks, Here
<1>3. /\ clock # None => live[g].mod >= clock - Probe
      /\ \/ g \in todo \/ live[g].mod >= run.started - Probe \/ live[g].mod < Cutoff
  BY <1>1, <1>2 DEF SkipInv
<1>4. ASSUME g \in todo, g \notin todo' PROVE live[g].mod < Cutoff
  <2>1. g = f /\ lagging'[f] = "no" /\ Here(live, f)
    BY <1>2, <1>4 DEF Visit, Skip, Looks
  <2>2. CASE Passes(f)
    BY <2>1, <2>2 DEF Passes, Here
  <2>3. CASE ~Passes(f) /\ Unchanged(f)
    <3>1. run.clock # None /\ run.clock = clock
      BY <1>1, <2>1, <2>3 DEF Visit, Typed, TypeOK, RunInv
    <3>2. live[f].mod < clock - Probe /\ live[f].mod \in Nat /\ clock \in Nat
      BY <2>1, <2>3, <3>1, Entries, CopyParts DEF Unchanged, Trusts, Typed, TypeOK, Times
    <3>3. QED
      BY <1>3, <2>1, <3>1, <3>2, Numbers
  <2>4. CASE ~Passes(f) /\ ~Unchanged(f) /\ Defers(f)
    BY <2>1, <2>4 DEF Visit, Typed, TypeOK
  <2>5. QED
    BY <1>4, <2>1, <2>2, <2>3, <2>4 DEF Visit
<1>5. QED
  BY <1>3, <1>4

(* The other steps of a run: a copy is of what it finds, and after the walk *)
(* what only looks current is younger than the run, or about to go.         *)
LEMMA SkipRun ==
    Typed /\ SkipInv /\ (Begin \/ CopyFile \/ Prune \/ Sweep \/ Audit \/ Mark \/ WriteClock)
      => SkipInv'
<1> SUFFICES ASSUME Typed, SkipInv, NEW f \in Files, Looks(f)',
                    Begin \/ CopyFile \/ Prune \/ Sweep \/ Audit \/ Mark \/ WriteClock
             PROVE  /\ clock' # None => live'[f].mod >= clock' - Probe
                    /\ pc' # "idle" => \/ f \in todo'
                                       \/ live'[f].mod >= run'.started - Probe
                                       \/ pc' \in {"walk", "copy"} /\ live'[f].mod < Cutoff'
  BY DEF SkipInv
<1>1. [Next]_vars /\ live' = live /\ pc' # pc /\ ~Die
  BY DEF Next, RunStep, Begin, CopyFile, Prune, Sweep, Audit, Mark, WriteClock, Goto, Die,
         Forget, NoRun, world, progress
<1>2. Looks(f)
  BY <1>1, LooksFrom DEF Write
<1>3. /\ clock # None => live[f].mod >= clock - Probe
      /\ pc # "idle" => \/ f \in todo \/ live[f].mod >= run.started - Probe
                        \/ pc \in {"walk", "copy"} /\ live[f].mod < Cutoff
  BY <1>2 DEF SkipInv
<1>4. CASE Begin
  BY <1>1, <1>2, <1>3, <1>4 DEF Begin, Goto, beside, Looks, Here
<1>5. CASE CopyFile
  <2>1. f # at.file
    <3> SUFFICES ASSUME f = at.file PROVE FALSE
      OBVIOUS
    <3>1. at \in Stat /\ Here(live, f)
      BY <1>2, <1>5 DEF Looks, Typed, RunInv, CopyFile
    <3>2. CASE staged' = [staged EXCEPT ![f] = NewCopy]
      <4>1. staged'[f] = NewCopy
        BY <3>2 DEF Typed, TypeOK
      <4>2. QED
        BY <1>1, <3>1, <4>1, NewCopyParts DEF Looks, Typed
    <3>3. CASE lagging' = [lagging EXCEPT ![f] = "held"]
      BY <3>3 DEF Looks, Typed, TypeOK
    <3>4. QED
      BY <1>5, <3>1, <3>2, <3>3 DEF CopyFile, Here, NewCopy, Taken
  <2>2. QED
    BY <1>1, <1>3, <1>5, <2>1 DEF CopyFile, beside, Cutoff
<1>6. CASE Prune
  <2>1. /\ pc = "walk" /\ todo = {} /\ pc' = "sweep"
        /\ UNCHANGED <<run, clock>>
    BY <1>6 DEF Prune, Goto, beside
  <2>2. ~(live[f].mod < Cutoff)
    BY <1>1, <1>2, <1>6 DEF Prune, Looks, Here
  <2>3. QED
    BY <1>1, <1>3, <2>1, <2>2
<1>7. CASE Sweep \/ Audit \/ Mark
  <2>1. pc \in {"sweep", "audit", "mark"} /\ UNCHANGED <<run, clock, todo>>
    BY <1>7 DEF Sweep, Audit, Mark, Goto, beside, progress
  <2>2. todo = {}
    BY <2>1 DEF Typed, RunInv
  <2>3. QED
    BY <1>1, <1>3, <2>1, <2>2
<1>8. CASE WriteClock
  <2>1. pc = "clock" /\ pc' = "idle" /\ clock' = run.started
    BY <1>8 DEF WriteClock, Goto
  <2>2. todo = {}
    BY <2>1 DEF Typed, RunInv
  <2>3. QED
    BY <1>1, <1>3, <2>1, <2>2
<1>9. QED
  BY <1>4, <1>5, <1>6, <1>7, <1>8

(* What is written or cut is stamped now, which no run trusts.              *)
LEMMA SkipRest ==
    Typed /\ SkipInv /\ [Next]_vars /\ clock' = clock
      /\ (pc' = "idle" \/ UNCHANGED <<pc, run, todo>>) => SkipInv'
<1> SUFFICES ASSUME Typed, SkipInv, [Next]_vars, clock' = clock,
                    pc' = "idle" \/ UNCHANGED <<pc, run, todo>>,
                    NEW f \in Files, Looks(f)'
             PROVE  /\ clock # None => live'[f].mod >= clock - Probe
                    /\ pc' # "idle" => \/ f \in todo
                                       \/ live'[f].mod >= run.started - Probe
                                       \/ pc \in {"walk", "copy"} /\ live'[f].mod < Cutoff
  BY DEF SkipInv, Cutoff
<1>1. CASE live'[f].mod = Stamp(now)
  BY <1>1, Fresh
<1>2. CASE Looks(f) /\ live'[f] = live[f]
  BY <1>2 DEF SkipInv
<1>3. QED
  BY <1>1, <1>2, LooksFrom

(* And so for every step.                                                   *)
LEMMA SkipNext == Typed /\ SkipInv /\ [Next]_vars => SkipInv'
<1> SUFFICES ASSUME Typed, SkipInv, [Next]_vars PROVE SkipInv'
  OBVIOUS
<1>1. CASE Die \/ Configure \/ Pass \/ UNCHANGED vars \/ \E f \in Files : Write(f) \/ Delete(f)
  <2>1. clock' = clock /\ (pc' = "idle" \/ UNCHANGED <<pc, run, todo>>)
    BY <1>1 DEF Die, Configure, Pass, Write, Delete, vars, beside, progress
  <2>2. QED
    BY <2>1, SkipRest
<1>2. QED
  BY <1>1, SkipVisit, SkipRun DEF Next, RunStep

(* A copy the walk takes as current is a copy of what is live: stageClock   *)
(* trusts an mtime only if it is older, by the tick it measured, than the   *)
(* beginning of the last finished run; whatever was written since is not.   *)
THEOREM SkipsHold == Spec => SkipsAreSound
<1>1. Init => SkipInv
  BY DEF Init, SkipInv, Looks, Here
<1> DEFINE Step == \A f \in Files : TakenAsUnchanged(f) /\ lagging'[f] = "no" =>
                      staged[f].ver = live[f].ver
<1>2. Typed /\ SkipInv /\ [Next]_vars => [Step]_vars
  <2> SUFFICES ASSUME Typed, SkipInv, [Next]_vars, NEW f \in Files,
                      TakenAsUnchanged(f), lagging'[f] = "no", staged[f].ver # live[f].ver
               PROVE  FALSE
    OBVIOUS
  <2>1. Visit(f)
    <3>1. \E g \in Files : Visit(g)
      BY DEF TakenAsUnchanged, Next, RunStep, Begin, CopyFile, Prune, Sweep, Audit, Mark,
             WriteClock, Die, Configure, Pass, Write, Delete, Goto, vars, progress
    <3>2. QED
      BY <3>1 DEF TakenAsUnchanged, Visit, Skip
  <2>2. run.clock # None /\ lagging[f] = "no"
    BY <2>1 DEF TakenAsUnchanged, Visit, Typed, TypeOK
  <2>3. Looks(f)
    BY <2>2 DEF TakenAsUnchanged, Unchanged, Passes, Looks, Here
  <2>4. run.clock = clock /\ live[f].mod >= clock - Probe
    BY <2>2, <2>3 DEF SkipInv, TakenAsUnchanged, Typed, RunInv
  <2>5. live[f].mod < clock - Probe
    BY <2>2, <2>4 DEF TakenAsUnchanged, Unchanged, Trusts
  <2>6. live[f].mod \in Nat /\ clock \in Nat
    BY <2>2, <2>3, <2>4, Entries, CopyParts DEF Looks, Typed, TypeOK, Times
  <2>7. QED
    BY <2>4, <2>5, <2>6, Numbers
<1>3. SkipsAreSound <=> [][Step]_vars
  BY DEF SkipsAreSound
<1> HIDE DEF Step
<1>4. QED
  BY <1>1, <1>2, <1>3, TypedInit, TypedNext, SkipNext, PTL DEF Spec

-----------------------------------------------------------------------------
(* A record of a length.                                                    *)
Sized(x) == x.size \in Nat /\ x.mod \in Nat

(* All records are.                                                         *)
LEMMA SizedEntries ==
    ASSUME TypeOK, NEW f \in Files
    PROVE  /\ Here(live, f) => Sized(live[f])
           /\ Here(staged, f) => Sized(staged[f])
           /\ verdicts[f] # None => Sized(verdicts[f])
BY Entries, CopyParts, VerdictParts, LengthParts DEF Sized, Times

(* A blurred mtime stays one.                                               *)
LEMMA BlurredGrows == [Next]_vars => blurred \subseteq blurred'
BY DEF Next, RunStep, Begin, Visit, CopyFile, Prune, Sweep, Audit, Mark, WriteClock, Die,
       Configure, Pass, Write, Delete, vars, ghosts

(* What a write leaves: a later mtime, or the same with a greater length,   *)
(* or a blurred one; and a greater length while a copy of the file is under *)
(* way, or the mtime the copy will have is blurred.                         *)
LEMMA WriteGrows ==
    ASSUME Typed, NEW f \in Files, Write(f)
    PROVE  /\ Sized(live[f]) /\ Sized(live'[f]) /\ live[f].mod <= live'[f].mod
           /\ live[f].mod = live'[f].mod =>
                 live[f].size < live'[f].size \/ <<f, live[f].mod>> \in blurred'
           /\ pc = "copy" /\ f = at.file =>
                 live[f].size < live'[f].size \/ <<f, at.mod>> \in blurred'
<1>0. Here(live, f) /\ live[f] \in Copy /\ live[f].mod <= Stamp(now)
  BY Entries DEF Write, Here, Typed, TimeInv
<1>1. PICK size \in Sizes, kind \in {"plain", "secret"} :
        /\ live' = [live EXCEPT ![f] = [ver |-> live[f].ver + 1, size |-> size,
                                        mod |-> Stamp(now), kind |-> kind]]
        /\ blurred' = blurred \cup IF size > live[f].size THEN {} ELSE {f} \X Shared(f)
  BY DEF Write
<1>2. live'[f] = [ver |-> live[f].ver + 1, size |-> size, mod |-> Stamp(now), kind |-> kind]
  BY <1>1 DEF Typed, TypeOK
<1>3. /\ size \in Lengths /\ size \in Nat /\ Stamp(now) \in Nat /\ Stamp(now) \in Times
      /\ live[f].size \in Nat /\ live[f].mod \in Nat /\ live[f].mod \in Times
  BY <1>0, CopyParts, LengthParts, StampTime DEF Typed, TypeOK, Times
<1>4. Sized(live[f]) /\ Sized(live'[f]) /\ live[f].mod <= live'[f].mod
      /\ live'[f].size = size /\ live'[f].mod = Stamp(now)
  BY <1>0, <1>2, <1>3 DEF Sized
<1>5. ASSUME NEW m \in Shared(f), ~(live[f].size < size) PROVE <<f, m>> \in blurred'
  <2>1. ~(size > live[f].size)
    BY <1>3, <1>5
  <2>2. QED
    BY <1>1, <1>5, <2>1
<1>6. live[f].mod = Stamp(now) => live[f].mod \in Shared(f)
  BY <1>3 DEF Shared
<1>7. pc = "copy" /\ f = at.file => at.mod \in Shared(f)
  BY StatParts DEF Shared, Typed, RunInv
<1>8. QED
  BY <1>4, <1>5, <1>6, <1>7

(* So a record that agrees with a source agrees with it after any step, or  *)
(* its mtime is blurred.                                                    *)
LEMMA AgreesStays ==
    ASSUME Typed, [Next]_vars, NEW f \in Files, Here(live, f)',
           NEW x, Sized(x), NEW s \in BOOLEAN, NEW t \in BOOLEAN,
           live'[f] = live[f] => (s => t), Agrees(x, live[f], s), <<f, x.mod>> \notin blurred'
    PROVE  Agrees(x, live'[f], t)
<1>1. CASE live'[f] = live[f]
  BY <1>1 DEF Agrees
<1>2. CASE Write(f)
  <2>1. /\ Sized(live[f]) /\ Sized(live'[f]) /\ live[f].mod <= live'[f].mod
        /\ live[f].mod = live'[f].mod =>
              live[f].size < live'[f].size \/ <<f, live[f].mod>> \in blurred'
    BY <1>2, WriteGrows
  <2>2. x.mod = live[f].mod => <<f, live[f].mod>> \notin blurred'
    OBVIOUS
  <2>3. QED
    BY <2>1, <2>2 DEF Agrees, Sized
<1>3. QED
  BY <1>1, <1>2, LiveFrom

(* A copy that is made agrees with its source.                              *)
LEMMA NewCopyAgrees ==
    ASSUME Typed, CopyFile, Here(live, at.file)
    PROVE  /\ Sized(NewCopy) /\ Agrees(NewCopy, live[at.file], NewCopy.kind = live[at.file].kind)
<1>1. at \in Stat /\ at.file \in Files /\ at.mod \in Nat /\ at.mod <= live[at.file].mod
  BY StatParts DEF CopyFile, Typed, RunInv, Times
<1>2. Sized(live[at.file]) /\ NewCopy \in Copy
  BY <1>1, SizedEntries, NewCopyParts DEF Typed
<1>3. Sized(NewCopy)
  BY <1>2, CopyParts, LengthParts DEF Sized, Times
<1>4. QED
  BY <1>1, <1>2, <1>3, NewCopyParts DEF Agrees, Sized, Typed

(* A copy that is there after a step agrees with its source as it was.      *)
LEMMA CopyAgrees ==
    ASSUME Typed, VerdictInv, [Next]_vars, NEW f \in Files, Here(live, f), Here(staged, f)',
           ~Blurred(f, staged'[f].mod)
    PROVE  Sized(staged'[f]) /\ Agrees(staged'[f], live[f], staged'[f].kind = live[f].kind)
<1>2. CASE staged'[f] = staged[f]
  BY <1>2, SizedEntries DEF VerdictInv, Here, Typed
<1>3. CASE CopyFile /\ f = at.file /\ staged'[f] = NewCopy
  BY <1>3, NewCopyAgrees
<1>4. CASE staged'[f] = CutCopy
  <2>1. CutCopy.size = 0 /\ Sized(CutCopy)
    BY CutCopyParts, CopyParts DEF Sized, Typed, Times
  <2>2. QED
    BY <1>4, <2>1 DEF Agrees
<1>5. CASE Dirty(f) /\ staged'[f] = Scrubbed(staged[f])
  <2>1. /\ Here(staged, f) /\ staged[f] \in Copy /\ staged[f].kind = "secret"
        /\ staged[f].size \in Sizes /\ Sized(staged[f]) /\ Sized(live[f])
    BY <1>5, Entries, SizedEntries DEF Dirty, Typed, SizeInv
  <2>3. staged'[f].mod = staged[f].mod /\ staged'[f].size = staged[f].size - 1
        /\ staged'[f] \in Copy
    BY <1>5, <2>1, ScrubParts
  <2>2. Agrees(staged[f], live[f], staged[f].kind = live[f].kind)
    BY <2>1, <2>3 DEF VerdictInv
  <2>4. Sized(staged'[f])
    BY <2>3, CopyParts, LengthParts DEF Sized, Times
  <2>5. QED
    BY <2>1, <2>2, <2>3, <2>4, LengthParts DEF Agrees, Sized
<1>6. QED
  BY <1>2, <1>3, <1>4, <1>5, StagedFrom

(* A dirty copy is condemned, for no verdict speaks for it.                 *)
LEMMA Judged ==
    ASSUME VerdictInv, NEW f \in Files, Dirty(f), ~Blurred(f, staged[f].mod)
    PROVE  Condemned(f)
BY DEF VerdictInv, Condemned, WasClean, Matches, Dirty, Here

(* Verdicts change in an audit without findings only.                       *)
LEMMA VerdictsFrom ==
    ASSUME Typed, [Next]_vars
    PROVE  \/ verdicts' = verdicts
           \/ /\ Audit /\ staged' = staged /\ live' = live /\ blurred' = blurred
              /\ pc' = "mark"
              /\ \A f \in Files : ~Condemned(f)
              /\ \A f \in Files : verdicts'[f] =
                   IF staged[f] = None THEN None
                   ELSE [size |-> staged[f].size, mod |-> staged[f].mod]
<1>1. CASE Audit
  <2>1. CASE {f \in Files : Condemned(f)} # {}
    BY <1>1, <2>1 DEF Audit
  <2>2. CASE {f \in Files : Condemned(f)} = {}
    BY <1>1, <2>2 DEF Audit, Goto, world, ghosts, Typed, TypeOK
  <2>3. QED
    BY <2>1, <2>2
<1>2. QED
  BY <1>1 DEF Next, RunStep, Begin, Visit, CopyFile, Prune, Sweep, Mark, WriteClock, Die,
     Configure, Pass, Write, Delete, vars, beside

(* No verdict speaks for a copy that is dirty.                              *)
LEMMA VerdictDirty ==
    ASSUME Typed, VerdictInv, [Next]_vars, NEW f \in Files, Dirty(f)',
           ~Blurred(f, staged'[f].mod)
    PROVE  ~Matches(verdicts'[f], staged'[f].size, staged'[f].mod)
<1>2. CASE verdicts' = verdicts
  <2>1. CASE Dirty(f) /\ staged'[f] = staged[f]
    BY <1>2, <2>1 DEF VerdictInv
  <2>2. CASE /\ CopyFile /\ f = at.file /\ Here(live, f) /\ at \in Stat
             /\ staged'[f] = NewCopy /\ NewCopy.kind = "secret"
    <3>1. /\ NewCopy.mod = at.mod /\ NewCopy.size = live[f].size /\ NewCopy.size > 0
          /\ live[f].kind = "secret"
      BY <2>2, NewCopyParts, LengthParts DEF Typed
    <3>2. ~Matches(verdicts[f], NewCopy.size, at.mod)
      BY <2>2, <3>1, SizedEntries DEF VerdictInv, Matches, CopyFile, Sized, Typed
    <3>3. QED
      BY <1>2, <2>2, <3>1, <3>2
  <2>3. QED
    BY <2>1, <2>2, DirtyFrom
<1>3. CASE staged' = staged /\ \A g \in Files : ~Condemned(g)
  BY <1>3, Judged DEF Dirty, Here
<1>4. QED
  BY <1>2, <1>3, VerdictsFrom

(* A verdict speaks of what its source is now, or was.                      *)
LEMMA VerdictSource ==
    ASSUME Typed, VerdictInv, [Next]_vars, NEW f \in Files, Here(live, f)', verdicts'[f] # None,
           <<f, verdicts'[f].mod>> \notin blurred'
    PROVE  Agrees(verdicts'[f], live'[f], live'[f].kind # "secret")
<1>1. Here(live, f) /\ ~Blurred(f, verdicts'[f].mod)
  BY LiveFrom, BlurredGrows DEF Blurred
<1>2. CASE verdicts' = verdicts
  <2>1. Sized(verdicts[f]) /\ Agrees(verdicts[f], live[f], live[f].kind # "secret")
    BY <1>1, <1>2, SizedEntries DEF VerdictInv, Typed
  <2>2. QED
    BY <1>2, <2>1, AgreesStays
<1>3. CASE /\ staged' = staged /\ live' = live /\ \A g \in Files : ~Condemned(g)
           /\ verdicts'[f] = IF staged[f] = None THEN None
                             ELSE [size |-> staged[f].size, mod |-> staged[f].mod]
  <2>0. Here(staged, f) /\ verdicts'[f].mod = staged[f].mod
    BY <1>3 DEF Here
  <2>1. Here(staged, f) /\ ~Dirty(f)
    BY <1>1, <1>3, <2>0, Judged
  <2>2. Agrees(staged[f], live[f], staged[f].kind = live[f].kind)
    BY <1>1, <2>0, <2>1 DEF VerdictInv
  <2>3. QED
    BY <1>3, <2>1, <2>2 DEF Agrees, Dirty, Here
<1>4. QED
  BY <1>2, <1>3, VerdictsFrom

(* A verdict of the mtime that a copy under way will have is of fewer       *)
(* bytes, or the bytes are clean.                                           *)
LEMMA VerdictUnderWay ==
    ASSUME Typed, VerdictInv, [Next]_vars, <<at'.file, at'.mod>> \notin blurred',
           pc' = "copy", NEW f \in Files, f = at'.file, Here(live, f)', verdicts'[f] # None,
           verdicts'[f].size # 0, verdicts'[f].mod = at'.mod
    PROVE  \/ verdicts'[f].size < live'[f].size
           \/ verdicts'[f].size = live'[f].size /\ live'[f].kind # "secret"
<1>1. Here(live, f) /\ verdicts' = verdicts /\ ~Blurred(f, at'.mod)
  BY LiveFrom, VerdictsFrom, BlurredGrows DEF Blurred
<1>2. Sized(verdicts[f]) /\ Sized(live[f])
  BY <1>1, SizedEntries DEF Typed
<1>3. CASE pc = "copy"
  <2>1. at' = at /\ at # None
    BY <1>3, StatParts DEF Next, RunStep, Begin, Visit, CopyFile, Prune, Sweep, Audit, Mark,
       WriteClock, Die, Configure, Pass, Write, Delete, Goto, vars, progress, Typed, RunInv
  <2>2. \/ verdicts[f].size < live[f].size
        \/ verdicts[f].size = live[f].size /\ live[f].kind # "secret"
    BY <1>1, <1>3, <2>1 DEF VerdictInv
  <2>3. CASE live'[f] = live[f]
    BY <1>1, <2>2, <2>3
  <2>4. CASE Write(f)
    <3>1. /\ Sized(live'[f])
          /\ live[f].size < live'[f].size \/ <<f, at.mod>> \in blurred'
      BY <1>3, <2>1, <2>4, WriteGrows
    <3>2. <<f, at.mod>> \notin blurred'
      BY <2>1
    <3>3. QED
      BY <1>1, <1>2, <2>2, <3>1, <3>2 DEF Sized
  <2>5. QED
    BY <2>3, <2>4, LiveFrom
<1>4. CASE pc # "copy"
  <2>0. PICK g \in Files : Visit(g)
    BY <1>4 DEF Next, RunStep, Begin, CopyFile, Prune, Sweep, Audit, Mark, WriteClock,
       Die, Configure, Pass, Write, Delete, Goto, vars
  <2>1. /\ live' = live /\ at'.mod = live[f].mod
    BY <1>4, <2>0 DEF Visit, Skip, world
  <2>2. Agrees(verdicts[f], live[f], live[f].kind # "secret")
    BY <1>1 DEF VerdictInv
  <2>3. QED
    BY <1>1, <1>2, <2>1, <2>2 DEF Agrees, Sized
<1>5. QED
  BY <1>3, <1>4

(* And so every step keeps what a verdict says.                             *)
LEMMA VerdictNext == Typed /\ VerdictInv /\ [Next]_vars => VerdictInv'
<1> SUFFICES ASSUME Typed, VerdictInv, [Next]_vars, NEW f \in Files
             PROVE  /\ Dirty(f)' /\ <<f, staged'[f].mod>> \notin blurred' =>
                          ~Matches(verdicts'[f], staged'[f].size, staged'[f].mod)
                    /\ Here(live, f)' /\ Here(staged, f)'
                          /\ <<f, staged'[f].mod>> \notin blurred' =>
                          Agrees(staged'[f], live'[f], staged'[f].kind = live'[f].kind)
                    /\ Here(live, f)' /\ verdicts'[f] # None
                          /\ <<f, verdicts'[f].mod>> \notin blurred' =>
                          Agrees(verdicts'[f], live'[f], live'[f].kind # "secret")
                    /\ pc' = "copy" /\ f = at'.file /\ Here(live, f)' /\ verdicts'[f] # None
                          /\ verdicts'[f].size # 0 /\ verdicts'[f].mod = at'.mod
                          /\ <<f, at'.mod>> \notin blurred' =>
                          \/ verdicts'[f].size < live'[f].size
                          \/ verdicts'[f].size = live'[f].size /\ live'[f].kind # "secret"
  BY DEF VerdictInv, Blurred
<1>0. ASSUME NEW m, <<f, m>> \notin blurred' PROVE ~Blurred(f, m)
  BY <1>0, BlurredGrows DEF Blurred
<1>1. Dirty(f)' /\ <<f, staged'[f].mod>> \notin blurred' =>
        ~Matches(verdicts'[f], staged'[f].size, staged'[f].mod)
  BY <1>0, VerdictDirty
<1>2. ASSUME Here(live, f)', Here(staged, f)', <<f, staged'[f].mod>> \notin blurred'
      PROVE  Agrees(staged'[f], live'[f], staged'[f].kind = live'[f].kind)
  <2>1. Here(live, f)
    BY <1>2, LiveFrom
  <2>2. Sized(staged'[f]) /\ Agrees(staged'[f], live[f], staged'[f].kind = live[f].kind)
    BY <1>0, <1>2, <2>1, CopyAgrees
  <2>3. QED
    BY <1>2, <2>2, AgreesStays
<1>3. QED
  BY <1>1, <1>2, VerdictSource, VerdictUnderWay
(* What is sound stays so, but for a copy that is made.                     *)
LEMMA SoundStays == ASSUME Typed, [Next]_vars, Sound, ~CopyFile PROVE Sound'
<1> SUFFICES ASSUME NEW f \in Files, Dirty(f)' PROVE <<f, staged'[f].mod>> \in blurred'
  BY DEF Sound, Blurred
<1>1. QED
  BY DirtyFrom, BlurredGrows DEF Sound, Blurred

(* An audit without findings found no dirty copy it could tell, and what    *)
(* was sound then is when the run ends.                                     *)
LEMMA PassNext == Typed /\ VerdictInv /\ PassInv /\ [Next]_vars => PassInv'
<1> SUFFICES ASSUME Typed, VerdictInv, PassInv, [Next]_vars,
                    \/ pc' \in {"mark", "clock"} /\ found' = {}
                    \/ pc' = "idle" /\ outcome' = "ok"
             PROVE  Sound'
  BY DEF PassInv
<1>2. CASE UNCHANGED <<staged, pc, found, outcome>> /\ ~CopyFile
  BY <1>2, SoundStays DEF PassInv
<1>3. CASE Audit
  <2>1. pc' = "mark" /\ found' = {}
    BY <1>3 DEF Audit, Goto
  <2>2. {f \in Files : Condemned(f)} = {}
    BY <1>3, <2>1 DEF Audit
  <2>3. Sound /\ ~CopyFile
    BY <1>3, <2>2, Judged DEF Sound, Audit, CopyFile, Goto
  <2>4. QED
    BY <2>3, SoundStays
<1>4. CASE Mark \/ WriteClock
  <2>1. \/ pc = "mark" /\ pc' = "clock" /\ found' = found
        \/ pc = "clock" /\ pc' = "idle" /\ outcome' = IF found = {} THEN "ok" ELSE "refused"
    BY <1>4 DEF Mark, WriteClock, Goto, progress
  <2>2. Sound /\ ~CopyFile
    BY <2>1 DEF PassInv, CopyFile
  <2>3. QED
    BY <2>2, SoundStays
<1>5. CASE Begin \/ CopyFile \/ Prune \/ Sweep \/ Die \/ \E f \in Files : Visit(f)
  BY <1>5 DEF Begin, Visit, Skip, CopyFile, Prune, Sweep, Die, Goto
<1>6. CASE Configure \/ Pass \/ UNCHANGED vars \/ \E f \in Files : Write(f) \/ Delete(f)
  <2>1. UNCHANGED <<staged, pc, found, outcome>>
    BY <1>6 DEF Configure, Pass, Write, Delete, vars, progress, ghosts
  <2>2. ~CopyFile
    BY <2>1 DEF CopyFile
  <2>3. QED
    BY <1>2, <2>1, <2>2
<1>7. QED
  BY <1>3, <1>4, <1>5, <1>6 DEF Next, RunStep

(* A run that finished without a refusal leaves nothing the audit would     *)
(* refuse, whatever was appended, rewritten, cut or scrubbed and wherever   *)
(* runs died: a verdict of .audit-cache is about the very bytes, for what   *)
(* is copied since has a later mtime, or the same and more bytes.  Only a   *)
(* copy under an mtime that a rewrite blurred is left out, and only while   *)
(* the copy is under that one.                                              *)
THEOREM PassedRunsAreClean == Spec => []PassedIsClean
<1>1. Init => VerdictInv /\ PassInv
  BY DEF Init, VerdictInv, PassInv, Sound, Dirty, Here
<1>2. PassInv => PassedIsClean
  BY DEF PassInv, PassedIsClean, Sound, Blurred, Dirty, Here
<1>3. QED
  BY <1>1, <1>2, TypedInit, TypedNext, VerdictNext, PassNext, PTL DEF Spec
=============================================================================
