---------------------------- MODULE StagingRun ----------------------------
(***************************************************************************)
(* internal/clauderig/engine: one machine stages the transcripts of its    *)
(* live sessions, run after run, while the sessions go on writing.         *)
(*                                                                         *)
(* A run decides from a file's mtime and size whether the staged copy is   *)
(* current.  An mtime has the file system's granularity, the copy is       *)
(* stamped with the mtime of an earlier stat, a run may be killed at any   *)
(* step, and the redaction setting changes between runs: what this module  *)
(* asks is whether a copy that is left alone is the right one.             *)
(*                                                                         *)
(* Contents are a version number, a size, and a kind: "secret" if the      *)
(* audit would find a credential in them, "scrubbed" if one was redacted   *)
(* on the way in (one shorter), "plain" otherwise.  Runs hold the sync     *)
(* lock, so there is one at a time (see ClaudeSync).  Chunked storage is   *)
(* in ChunkStore; JSON files, which are regenerated and compared by        *)
(* content on every run, and the rules by path are left out.               *)
(***************************************************************************)
EXTENDS Integers, FiniteSets

CONSTANTS Files,      \* transcripts
          Sizes,      \* of transcripts
          LargeFileBytes,     \* over it a transcript may be deferred
          ScanContentLimit,   \* up to it content is scanned before it is staged
          None,       \* no file, no clock, no verdict
          Tick,       \* granularity of the file system's mtimes
          Probe,      \* what probeMtimeTick measured
          Settle,     \* largeFileSettle
          Window,     \* retention, in units of time
          MaxTime,    \* bound on the clock
          MaxVer      \* bound on the versions of a file

Times == 0..MaxTime
Lengths == Sizes \cup {0} \cup {n - 1 : n \in Sizes}
Kinds == {"plain", "secret", "scrubbed"}
Copy == [ver : 0..MaxVer, size : Lengths, mod : Times, kind : Kinds]
Stat == [file : Files, size : Lengths, mod : Times]
Verdict == [size : Lengths, mod : Times]

ASSUME StagingAssumption ==
    /\ Sizes \subseteq Nat \ {0}
    /\ {LargeFileBytes, ScanContentLimit} \subseteq Nat
    /\ {Tick, Probe} \subseteq Nat \ {0} /\ Tick <= Probe
    /\ {Settle, Window, MaxTime} \subseteq Nat /\ MaxVer \in Nat \ {0}
    /\ None \notin Files \cup Copy \cup Stat \cup Verdict

VARIABLES now,        \* the wall clock
          live,       \* the sessions' own files
          staged,     \* the staged copies
          setting,    \* redactTranscripts, as configured
          marker,     \* .redaction-state: the setting of the last finished run
          clock,      \* .stage-clock: when the last finished run began
          verdicts,   \* .audit-cache: size and mtime of copies found clean
          pc, run,    \* where the run is; what it read when it began
          todo,       \* files its walk has still to reach
          at,         \* the file it is copying and its stat
          visited,    \* files its walk has seen
          wrote,      \* copies it made
          found,      \* files it refuses to publish
          outcome,    \* of the last finished run
          lagging,    \* copies a run left behind knowingly (see below)
          mishaps,    \* what went wrong so far (see below)
          blurred     \* mtimes that stand for two contents (see below)

world == <<now, live, setting>>
beside == <<marker, clock, verdicts>>
progress == <<todo, at, visited, wrote, found>>
ghosts == <<outcome, lagging, mishaps, blurred>>
vars == <<world, staged, beside, pc, run, progress, ghosts>>

(* lagging: why a copy may not be of the present version, until it is made  *)
(* again: its file was "held" back (deferred or refused), or it was taken   *)
(* as current before there was a clock ("clockless", as documented).        *)
(* mishaps, after which the code promises less:                             *)
(*   cut:       a run with redaction off was killed or could not leave its  *)
(*              marker                                                      *)
(*   vanished:  a file was removed between the walk and its copy            *)
(* blurred: the mtimes under which a file was rewritten to no greater       *)
(* length, within one tick or between the stat and the copy of a run: its   *)
(* size and mtime may be those of contents that are gone.                   *)
Mishaps == {"cut", "vanished"}
Labels == {"idle", "walk", "copy", "sweep", "audit", "mark", "clock"}

Stamp(t) == t - (t % Tick)

TypeOK ==
    /\ now \in Times
    /\ live \in [Files -> Copy \cup {None}]
    /\ staged \in [Files -> Copy \cup {None}]
    /\ setting \in {"on", "off"}
    /\ marker \in {"on", "off"}
    /\ clock \in Times \cup {None}
    /\ verdicts \in [Files -> Verdict \cup {None}]
    /\ pc \in Labels
    /\ run \in [scrub : {"on", "off"}, rescrub : {"yes", "no"},
                started : Times, clock : Times \cup {None}]
    /\ todo \subseteq Files /\ visited \subseteq Files
    /\ wrote \subseteq Files /\ found \subseteq Files
    /\ at \in Stat \cup {None}
    /\ outcome \in {"none", "ok", "refused"}
    /\ lagging \in [Files -> {"no", "held", "clockless"}]
    /\ mishaps \subseteq Mishaps /\ blurred \subseteq Files \X Times

NoRun == [scrub |-> "off", rescrub |-> "no", started |-> 0, clock |-> None]

Init ==
    /\ now = 0
    /\ \E n \in Sizes :
          live = [f \in Files |-> [ver |-> 1, size |-> n, mod |-> 0, kind |-> "plain"]]
    /\ staged = [f \in Files |-> None]
    /\ setting \in {"on", "off"}
    /\ marker = "off" /\ clock = None
    /\ verdicts = [f \in Files |-> None]
    /\ pc = "idle"
    /\ run = NoRun
    /\ todo = {} /\ at = None /\ visited = {} /\ wrote = {} /\ found = {}
    /\ outcome = "none" /\ lagging = [f \in Files |-> "no"]
    /\ mishaps = {} /\ blurred = {}

Goto(from, to) == pc = from /\ pc' = to
Forget ==
    /\ run' = NoRun /\ at' = None
    /\ todo' = {} /\ visited' = {} /\ wrote' = {} /\ found' = {}

Cutoff == run.started - Window
Mishap(m, happens) == mishaps' = IF happens THEN mishaps \cup {m} ELSE mishaps

-----------------------------------------------------------------------------
(* Sync reads the two records of the run before it once, at the start.      *)
Begin ==
    /\ Goto("idle", "walk")
    /\ run' = [scrub |-> setting,
               rescrub |-> IF setting = "on" /\ marker # "on" THEN "yes" ELSE "no",
               started |-> now, clock |-> clock]
    /\ todo' = {f \in Files : live[f] # None}
    /\ visited' = todo'
    /\ at' = None /\ wrote' = {} /\ found' = {}
    /\ outcome' = "none"
    /\ UNCHANGED <<world, staged, beside, lagging, mishaps, blurred>>

(* mutant: an mtime is trusted up to the moment the last run began        *)
TrustsTick(mod) == run.clock # None => mod < run.clock

(* stageClock.trusts                                                        *)
Trusts(mod) == run.clock # None => mod < run.clock - Probe

(* The incremental test: the same mtime, the same size unless the copy is a *)
(* scrubbed one, no rescrub owed, and an mtime that tells versions apart.   *)
Unchanged(f) ==
    /\ staged[f] # None
    /\ staged[f].mod = live[f].mod
    /\ run.scrub = "off" => staged[f].size = live[f].size
    /\ run.rescrub = "no"
    /\ Trusts(live[f].mod)

(* mutant: deferral does not look at the age of the copy                    *)
DefersAged(f) ==
    LET grown == live[f].size - staged[f].size IN
    /\ live[f].size > LargeFileBytes /\ run.rescrub = "no" /\ staged[f] # None
    /\ 0 < grown /\ grown < (LargeFileBytes + 1) \div 2
    /\ now - live[f].mod < Settle

(* deferLarge: a large transcript that grew by little waits until it is     *)
(* quiet, unless its copy is about to age out.                              *)
Defers(f) ==
    LET grown == live[f].size - staged[f].size IN
    /\ live[f].size > LargeFileBytes /\ run.rescrub = "no" /\ staged[f] # None
    /\ staged[f].mod >= Cutoff
    /\ 0 < grown /\ grown < (LargeFileBytes + 1) \div 2
    /\ now - live[f].mod < Settle

(* wasClean: the size and the mtime of a copy that was read and clean.      *)
WasClean(f) ==
    verdicts[f] # None /\ verdicts[f].size = staged[f].size
                       /\ verdicts[f].mod = staged[f].mod
Condemned(f) == staged[f] # None /\ staged[f].kind = "secret" /\ ~WasClean(f)

(* The walk reaches a file: gone, outside the retention window, unchanged   *)
(* (and then read again unless it was found clean), deferred, or to copy.   *)
Passes(f) == live[f] # None => live[f].mod < Cutoff
Skip(f) ==
    /\ todo' = todo \ {f}
    /\ UNCHANGED <<pc, at>>

Visit(f) ==
    /\ pc = "walk" /\ f \in todo
    /\ \/ /\ Passes(f)
          /\ Skip(f)
          /\ Mishap("vanished", live[f] = None)
          /\ UNCHANGED <<found, lagging>>
       \/ /\ ~Passes(f) /\ Unchanged(f)
          /\ Skip(f)
          /\ found' = IF Condemned(f) THEN found \cup {f} ELSE found
          /\ lagging' = IF run.clock = None THEN [lagging EXCEPT ![f] = "clockless"]
                      ELSE lagging
          /\ UNCHANGED mishaps
       \/ /\ ~Passes(f) /\ ~Unchanged(f) /\ Defers(f)
          /\ Skip(f)
          /\ lagging' = [lagging EXCEPT ![f] = "held"]
          /\ UNCHANGED <<found, mishaps>>
       \/ /\ ~Passes(f) /\ ~Unchanged(f) /\ ~Defers(f)
          /\ pc' = "copy" /\ at' = [file |-> f, size |-> live[f].size, mod |-> live[f].mod]
          /\ UNCHANGED <<todo, found, lagging, mishaps>>
    /\ UNCHANGED <<world, staged, beside, run, visited, wrote, outcome, blurred>>

(* mutant ScrubbedShort: the line end goes with the credential              *)
(* The copy reads what is there by now and stamps it with the earlier stat. *)
(* Scrubbed on the way in, or refused if the scan of a small file sees it.  *)
ScrubbedShort(c) == IF c.kind = "secret" THEN [c EXCEPT !.kind = "scrubbed", !.size = @ - 2]
                    ELSE c

Scrubbed(c) == IF c.kind = "secret" THEN [c EXCEPT !.kind = "scrubbed", !.size = @ - 1]
               ELSE c
CopyFile ==
    LET f == at.file
        taken == IF run.scrub = "on" THEN Scrubbed(live[f]) ELSE live[f] IN
    /\ pc = "copy" /\ pc' = "walk"
    /\ todo' = todo \ {f}
    /\ at' = None
    /\ \/ /\ live[f] = None
          /\ Mishap("vanished", TRUE)
          /\ UNCHANGED <<staged, wrote, found, lagging>>
       \/ /\ live[f] # None
          /\ staged' = [staged EXCEPT ![f] = [taken EXCEPT !.mod = at.mod]]
          /\ wrote' = wrote \cup {f}
          /\ lagging' = [lagging EXCEPT ![f] = "no"]
          /\ UNCHANGED <<found, mishaps>>
       \/ /\ live[f] # None /\ at.size <= ScanContentLimit /\ taken.kind = "secret"
          /\ found' = found \cup {f}
          /\ lagging' = [lagging EXCEPT ![f] = "held"]
          /\ UNCHANGED <<staged, wrote, mishaps>>
    /\ UNCHANGED <<world, beside, run, visited, outcome, blurred>>

(* pruneAgedStagedProjects: staged transcripts older than the window.       *)
Prune ==
    /\ todo = {}
    /\ Goto("walk", "sweep")
    /\ staged' = [f \in Files |-> IF staged[f] # None /\ staged[f].mod < Cutoff
                                  THEN None ELSE staged[f]]
    /\ UNCHANGED <<world, beside, run, progress, ghosts>>

(* mutant: the copies that have no source any more are not scrubbed         *)
SweepNothing ==
    /\ Goto("sweep", "audit")
    /\ UNCHANGED <<world, staged, beside, run, progress, ghosts>>

(* sweepOrphanedTranscripts, by the run that turned redaction on: the       *)
(* copies its walk did not see are scrubbed in place.                       *)
Sweep ==
    /\ Goto("sweep", "audit")
    /\ staged' = [f \in Files |->
                    IF run.rescrub = "yes" /\ f \notin visited /\ staged[f] # None
                    THEN Scrubbed(staged[f]) ELSE staged[f]]
    /\ UNCHANGED <<world, beside, run, progress, ghosts>>

(* mutant: verdicts are left behind whatever the audit found                *)
AuditForgets ==
    LET bad == {f \in Files : Condemned(f)} IN
    /\ Goto("audit", "mark")
    /\ found' = found \cup bad
    /\ staged' = [f \in Files |-> IF f \in bad \cap wrote THEN None ELSE staged[f]]
    /\ verdicts' = [f \in Files |-> IF staged[f] = None THEN None
                      ELSE [size |-> staged[f].size, mod |-> staged[f].mod]]
    /\ UNCHANGED <<world, marker, clock, run, todo, at, visited, wrote, ghosts>>

(* Audit: every copy is read that was not found clean before at this size   *)
(* and mtime.  What this run copied in and the audit condemns is taken out  *)
(* again; only an audit without findings leaves verdicts.                   *)
Audit ==
    LET bad == {f \in Files : Condemned(f)} IN
    /\ Goto("audit", "mark")
    /\ found' = found \cup bad
    /\ staged' = [f \in Files |-> IF f \in bad \cap wrote THEN None ELSE staged[f]]
    /\ verdicts' = IF bad # {} THEN verdicts
                   ELSE [f \in Files |-> IF staged[f] = None THEN None
                           ELSE [size |-> staged[f].size, mod |-> staged[f].mod]]
    /\ UNCHANGED <<world, marker, clock, run, todo, at, visited, wrote, ghosts>>

(* noteRedactionSetting, best-effort, then writeStageClock: also by a run    *)
(* that refuses.                                                            *)
Mark ==
    /\ Goto("mark", "clock")
    /\ \/ marker' = run.scrub /\ UNCHANGED mishaps
       \/ UNCHANGED marker /\ Mishap("cut", run.scrub = "off")
    /\ UNCHANGED <<world, staged, clock, verdicts, run, progress, outcome, lagging, blurred>>

WriteClock ==
    /\ Goto("clock", "idle")
    /\ clock' = run.started
    /\ outcome' = IF found = {} THEN "ok" ELSE "refused"
    /\ Forget
    /\ UNCHANGED <<world, staged, marker, verdicts, lagging, mishaps, blurred>>

(* A kill or an error return.  A small file is written in place: cut off,   *)
(* it is short and carries the time of the cut.                             *)
Die ==
    /\ pc # "idle"
    /\ pc' = "idle"
    /\ \/ UNCHANGED staged
       \/ /\ pc = "copy" /\ at.size <= ScanContentLimit /\ run.scrub = "off"
          /\ staged' = [staged EXCEPT ![at.file] =
                          [ver |-> 0, size |-> 0, mod |-> Stamp(now), kind |-> "plain"]]
    /\ outcome' = "none"
    /\ Mishap("cut", run.scrub = "off")
    /\ Forget
    /\ UNCHANGED <<world, beside, lagging, blurred>>

-----------------------------------------------------------------------------
(* The mtimes a rewrite may share with what it replaces: that of the tick,  *)
(* and the one that a copy under way will be stamped with.                  *)
Shared(f) == {m \in Times : \/ m = live[f].mod /\ m = Stamp(now)
                            \/ at # None /\ at.file = f /\ m = at.mod}

(* The session writes: it appends, or rewrites the file to any size.        *)
Write(f) ==
    /\ live[f] # None /\ live[f].ver < MaxVer
    /\ \E size \in Sizes, kind \in {"plain", "secret"} :
          /\ size > live[f].size => kind = "secret" \/ live[f].kind = "plain"
          /\ live' = [live EXCEPT ![f] = [ver |-> live[f].ver + 1, size |-> size,
                                          mod |-> Stamp(now), kind |-> kind]]
          /\ blurred' = blurred \cup IF size > live[f].size THEN {} ELSE {f} \X Shared(f)
    /\ UNCHANGED <<now, setting, staged, beside, pc, run, progress, outcome, lagging, mishaps>>

Delete(f) ==
    /\ live[f] # None
    /\ live' = [live EXCEPT ![f] = None]
    /\ UNCHANGED <<now, setting, staged, beside, pc, run, progress, ghosts>>

Configure ==
    /\ pc = "idle"
    /\ setting' = IF setting = "on" THEN "off" ELSE "on"
    /\ UNCHANGED <<now, live, staged, beside, pc, run, progress, ghosts>>

Pass ==
    /\ now < MaxTime
    /\ now' = now + 1
    /\ UNCHANGED <<live, setting, staged, beside, pc, run, progress, ghosts>>

RunStep == Begin \/ (\E f \in Files : Visit(f)) \/ CopyFile \/ Prune
             \/ Sweep \/ Audit \/ Mark \/ WriteClock

Next == RunStep \/ Die \/ Configure \/ Pass \/ \E f \in Files : Write(f) \/ Delete(f)

Spec == Init /\ [][Next]_vars

-----------------------------------------------------------------------------
(* A copy the walk takes as unchanged is a copy of what is live: two writes *)
(* within one tick, a write between stat and copy, a kill and a changed     *)
(* setting notwithstanding.  Not so for a copy that lags.                   *)
TakenAsUnchanged(f) ==
    pc = "walk" /\ pc' = "walk" /\ f \in todo \ todo' /\ ~Passes(f) /\ Unchanged(f)
SkipsAreSound ==
    [][\A f \in Files : TakenAsUnchanged(f) /\ lagging'[f] = "no" =>
          staged[f].ver = live[f].ver]_vars

(* "The first run after it is enabled restages every transcript": once the  *)
(* marker says on, no staged copy holds what redaction would have removed.  *)
MarkerIsTrue ==
    marker = "on" /\ pc = "idle" /\ mishaps \cap {"cut", "vanished"} = {} =>
        \A f \in Files : staged[f] # None => staged[f].kind # "secret"

(* A run that finished without a refusal leaves nothing the audit would     *)
(* refuse if it read it: the verdicts it relied on, of whatever run, are    *)
(* about these bytes.  A verdict goes by size and mtime, so this is not     *)
(* promised of a copy under a blurred mtime; it is again of that file's     *)
(* copies under any other.                                                  *)
PassedIsClean ==
    outcome = "ok" /\ pc = "idle" =>
        \A f \in Files : staged[f] # None /\ staged[f].kind = "secret" =>
            <<f, staged[f].mod>> \in blurred

(* Retention never takes the only copy of a session that is still written   *)
(* to, deferred or not: what it removes has no source inside the window,    *)
(* or one that was written while this run was on its way.                   *)
KeepsACopy ==
    [][\A f \in Files : Goto("walk", "sweep") /\ staged[f] # staged'[f] =>
          \/ live[f] = None \/ f \in found
          \/ live[f].mod < Cutoff \/ live[f].mod >= Stamp(run.started)]_vars
=============================================================================
