----------------------------- MODULE ChunkStore -----------------------------
(***************************************************************************)
(* internal/clauderig/transcript: one staged transcript, stored natively   *)
(* or as an index of content-addressed chunks beside it, and the steps of  *)
(* a sync that change either form, between two of which it may be killed.  *)
(*                                                                         *)
(* Syncs hold the sync lock (see ClaudeSync), so there is one writer.      *)
(* Readers (restore, search, the session lists) take no lock: they open    *)
(* the file, keep the index they found, and load its chunks one by one     *)
(* while the writer goes on.                                               *)
(*                                                                         *)
(* A chunk is its hash: reading one verifies it, so a damaged chunk is one *)
(* that fails.  A transcript is a sequence of chunks, at most SmallChunks  *)
(* of them are stored natively whatever the mode.  Native files are read   *)
(* and replaced in one step (StagingRun has the short ones that are not).  *)
(***************************************************************************)
EXTENDS Naturals, Sequences, FiniteSets

CONSTANTS Chunks,       \* pieces of ChunkSize bytes, by content
          Transcripts,  \* the versions of the transcript
          SmallChunks,  \* 2 * ChunkSize
          Readers,
          None

Modes == {"native", "chunked"}
File == [form : Modes, data : Transcripts]

ASSUME ChunkAssumption ==
    /\ Transcripts \subseteq Seq(Chunks) \ {<<>>}
    /\ SmallChunks \in Nat
    /\ None \notin Transcripts \cup File \cup Modes

VARIABLES owner,      \* the file itself: native, an index, or None
          parts,      \* the .chunks directory
          mode,       \* clauderig-storage.json
          setting,    \* chunkTranscripts, as configured; None if unset
          pc,         \* where the sync is
          enabled,    \* the storage mode this sync was started with
          new, k,     \* what it writes, and how many chunks it has done
          rd,         \* readers: the file they opened and how far they are
          got,        \* what each last returned
          failed      \* those whose last read failed

disk == <<owner, parts, mode>>
writer == <<pc, enabled, new, k>>
readers == <<rd, got, failed>>
vars == <<disk, setting, writer, readers>>

Labels == {"idle", "chunk", "convert", "gather", "clean", "mode", "prune", "drop"}
Named(f) == IF f # None /\ f.form = "chunked" THEN {f.data[i] : i \in DOMAIN f.data} ELSE {}
Big(s) == Len(s) > SmallChunks

TypeOK ==
    /\ owner \in File \cup {None}
    /\ parts \in [Chunks -> {"absent", "good", "damaged"}]
    /\ mode \in Modes /\ setting \in Modes \cup {None} /\ enabled \in Modes
    /\ pc \in Labels
    /\ new \in Transcripts \cup {None} /\ k \in Nat
    /\ rd \in [Readers -> [file : File \cup {None}, k : Nat]]
    /\ got \in [Readers -> Transcripts \cup {None}]
    /\ failed \subseteq Readers

Reading(r) == rd[r].file # None
NotReading == [file |-> None, k |-> 0]

Init ==
    /\ owner = None
    /\ parts = [c \in Chunks |-> "absent"]
    /\ mode = "native" /\ setting \in Modes \cup {None}
    /\ pc = "idle" /\ enabled = "native" /\ new = None /\ k = 0
    /\ rd = [r \in Readers |-> NotReading]
    /\ got = [r \in Readers |-> None]
    /\ failed = {}

Goto(from, to) == pc = from /\ pc' = to
Rest == new' = None /\ k' = 0

(* What a sync is started with: the setting, or what the tree records.      *)
Chosen == IF setting = None THEN mode ELSE setting

-----------------------------------------------------------------------------
(* A sync reaches the transcript: it is current, or a new version is staged.*)
Current ==
    /\ Goto("idle", "convert")
    /\ enabled' = Chosen
    /\ UNCHANGED <<disk, setting, new, k, readers>>

(* A native copy, renamed into place.                                       *)
CopyNative(s) ==
    /\ Goto("idle", "convert")
    /\ enabled' = Chosen
    /\ owner' = [form |-> "native", data |-> s]
    /\ UNCHANGED <<parts, mode, setting, new, k, readers>>

(* copyTranscriptSnapshot of a large one: transcript.Write.                 *)
CopyChunked(s) ==
    /\ Big(s) /\ Chosen = "chunked"
    /\ Goto("idle", "chunk")
    /\ enabled' = Chosen
    /\ new' = s /\ k' = 0
    /\ UNCHANGED <<disk, setting, readers>>

(* mutant: a chunk is reused by its name                                    *)
PutByName ==
    /\ pc = "chunk" /\ k < Len(new)
    /\ parts' = [parts EXCEPT ![new[k + 1]] = IF @ = "absent" THEN "good" ELSE @]
    /\ k' = k + 1
    /\ UNCHANGED <<owner, mode, setting, pc, enabled, new, readers>>

(* writeChunks: a chunk that is there and undamaged is reused.              *)
PutChunk ==
    /\ pc = "chunk" /\ k < Len(new)
    /\ parts' = [parts EXCEPT ![new[k + 1]] = "good"]
    /\ k' = k + 1
    /\ UNCHANGED <<owner, mode, setting, pc, enabled, new, readers>>

(* mutant: the index is published before the last chunk                     *)
PutIndexEarly ==
    /\ pc = "chunk" /\ k + 1 >= Len(new)
    /\ pc' = "convert"
    /\ owner' = [form |-> "chunked", data |-> new]
    /\ Rest
    /\ UNCHANGED <<parts, mode, setting, enabled, readers>>

(* The index is renamed into place when every chunk is there.               *)
PutIndex ==
    /\ pc = "chunk" /\ k = Len(new)
    /\ pc' = "convert"
    /\ owner' = [form |-> "chunked", data |-> new]
    /\ Rest
    /\ UNCHANGED <<parts, mode, setting, enabled, readers>>

-----------------------------------------------------------------------------
(* ConvertTree: a large native file becomes an index, or an index a native  *)
(* file, as this sync's mode wants it.                                      *)
Stays == owner # None =>
    IF owner.form = "native" THEN enabled = "native" \/ ~Big(owner.data)
                             ELSE enabled = "chunked"
Convert ==
    /\ pc = "convert" /\ ~Stays
    /\ pc' = IF enabled = "chunked" THEN "chunk" ELSE "gather"
    /\ new' = owner.data /\ k' = 0
    /\ UNCHANGED <<disk, setting, enabled, readers>>

Converted ==
    /\ Goto("convert", "clean")
    /\ Stays
    /\ UNCHANGED <<disk, setting, enabled, new, k, readers>>

(* Materialize(p, p): the chunks are verified into a temporary file, ...    *)
Gather ==
    /\ pc = "gather" /\ k < Len(new)
    /\ parts[new[k + 1]] = "good"
    /\ k' = k + 1
    /\ UNCHANGED <<disk, setting, pc, enabled, new, readers>>

(* ... and one that does not verify ends the sync with an error, ...        *)
GatherFails ==
    /\ pc = "gather" /\ k < Len(new)
    /\ parts[new[k + 1]] # "good"
    /\ pc' = "idle"
    /\ Rest
    /\ UNCHANGED <<disk, setting, enabled, readers>>

(* ... and the whole file replaces the index.                               *)
Replace ==
    /\ pc = "gather" /\ k = Len(new)
    /\ pc' = "clean"
    /\ owner' = [form |-> "native", data |-> new]
    /\ Rest
    /\ UNCHANGED <<parts, mode, setting, enabled, readers>>

(* Clean, one removal at a time: chunks the index does not name, or all of  *)
(* them if the file is native or gone.                                      *)
Clean ==
    /\ pc = "clean"
    /\ \E c \in Chunks \ Named(owner) :
          /\ parts[c] # "absent"
          /\ parts' = [parts EXCEPT ![c] = "absent"]
    /\ UNCHANGED <<owner, mode, setting, writer, readers>>

Cleaned ==
    /\ Goto("clean", "mode")
    /\ \A c \in Chunks \ Named(owner) : parts[c] = "absent"
    /\ UNCHANGED <<disk, setting, enabled, new, k, readers>>

(* mutant: only switching chunks on is recorded                             *)
SetModeOn ==
    /\ Goto("mode", "prune")
    /\ mode' = IF enabled = "chunked" THEN enabled ELSE mode
    /\ UNCHANGED <<owner, parts, setting, enabled, new, k, readers>>

SetMode ==
    /\ Goto("mode", "prune")
    /\ mode' = enabled
    /\ UNCHANGED <<owner, parts, setting, enabled, new, k, readers>>

(* After it retention, or an audit that condemns the copy (removeStaged),   *)
(* removes the file and then its chunks.                                    *)
Keep ==
    /\ Goto("prune", "idle")
    /\ UNCHANGED <<disk, setting, enabled, new, k, readers>>

(* mutant: the chunks go before the index                                   *)
RemoveChunksFirst ==
    /\ owner # None
    /\ Goto("prune", "drop")
    /\ parts' = [c \in Chunks |-> "absent"]
    /\ UNCHANGED <<owner, mode, setting, enabled, new, k, readers>>

Remove ==
    /\ owner # None
    /\ Goto("prune", "drop")
    /\ owner' = None
    /\ UNCHANGED <<parts, mode, setting, enabled, new, k, readers>>

RemoveChunks ==
    /\ Goto("drop", "idle")
    /\ parts' = [c \in Chunks |-> "absent"]
    /\ UNCHANGED <<owner, mode, setting, enabled, new, k, readers>>

(* A kill, or an error return, between any two steps (at "prune" it is Keep).*)
Die ==
    /\ pc \notin {"idle", "prune"}
    /\ pc' = "idle"
    /\ Rest
    /\ UNCHANGED <<disk, setting, enabled, readers>>

-----------------------------------------------------------------------------
(* Open reads the index and keeps it; a native file is read as it is.       *)
Open(r) ==
    /\ ~Reading(r) /\ owner # None
    /\ rd' = [rd EXCEPT ![r] = [file |-> owner, k |-> 0]]
    /\ failed' = failed \ {r}
    /\ UNCHANGED <<disk, setting, writer, got>>

Whole(r) == rd[r].file.form = "native" \/ rd[r].k = Len(rd[r].file.data)
Wants(r) == rd[r].file.data[rd[r].k + 1]

(* readAt: the next chunk, verified.                                        *)
Load(r) ==
    /\ Reading(r) /\ ~Whole(r) /\ parts[Wants(r)] = "good"
    /\ rd' = [rd EXCEPT ![r].k = @ + 1]
    /\ UNCHANGED <<disk, setting, writer, got, failed>>

LoadFails(r) ==
    /\ Reading(r) /\ ~Whole(r) /\ parts[Wants(r)] # "good"
    /\ rd' = [rd EXCEPT ![r] = NotReading]
    /\ failed' = failed \cup {r}
    /\ UNCHANGED <<disk, setting, writer, got>>

(* mutant: the file is opened again at the end                              *)
MaterializeCurrent(r) ==
    /\ Reading(r) /\ Whole(r) /\ owner # None
    /\ got' = [got EXCEPT ![r] = owner.data]
    /\ rd' = [rd EXCEPT ![r] = NotReading]
    /\ UNCHANGED <<disk, setting, writer, failed>>

(* Restore: only what was read to the end replaces the live file.           *)
Materialize(r) ==
    /\ Reading(r) /\ Whole(r)
    /\ got' = [got EXCEPT ![r] = rd[r].file.data]
    /\ rd' = [rd EXCEPT ![r] = NotReading]
    /\ UNCHANGED <<disk, setting, writer, failed>>

(* Between two syncs: a chunk is damaged, the setting is changed or unset.   *)
Damage(c) ==
    /\ pc = "idle" /\ parts[c] = "good"
    /\ parts' = [parts EXCEPT ![c] = "damaged"]
    /\ UNCHANGED <<owner, mode, setting, writer, readers>>

Configure ==
    /\ pc = "idle"
    /\ \E s \in (Modes \cup {None}) \ {setting} : setting' = s
    /\ UNCHANGED <<disk, writer, readers>>

SyncStep == \/ Current \/ (\E s \in Transcripts : CopyNative(s) \/ CopyChunked(s))
            \/ PutChunk \/ PutIndex
            \/ Convert \/ Converted \/ Gather \/ GatherFails \/ Replace
            \/ Clean \/ Cleaned \/ SetMode \/ Keep \/ Remove \/ RemoveChunks
Read(r) == Open(r) \/ Load(r) \/ LoadFails(r) \/ Materialize(r)

Next == \/ SyncStep \/ Die \/ Configure
        \/ (\E r \in Readers : Read(r)) \/ \E c \in Chunks : Damage(c)

Spec == Init /\ [][Next]_vars

(* Syncs go on once begun, and are begun again: hooks and timers see to it. *)
FairSpec == Spec /\ WF_vars(SyncStep)

-----------------------------------------------------------------------------
(* A kill anywhere leaves the old snapshot readable: an index never names a *)
(* chunk that is not there.                                                 *)
IndexComplete == \A c \in Named(owner) : parts[c] # "absent"

(* What replaces the transcript is whole: a new index names chunks that this *)
(* sync has read or written ("a damaged blob must not be reused by name"),  *)
(* and a conversion, either way and killed or not, leaves the value as it   *)
(* was ("without changing native transcript bytes").                        *)
Value == IF owner = None THEN None ELSE owner.data
ReplacedWhole ==
    [][/\ owner' # owner => \A c \in Named(owner') : parts[c] = "good"
       /\ pc \in {"convert", "gather", "clean", "mode"} => Value' = Value]_vars

(* Readers and the writer share no lock.  Still a reader fails only if the  *)
(* file was replaced or removed under it, or its chunk is damaged.          *)
FailureMeansChange ==
    [][\A r \in Readers : Reading(r) /\ r \in failed' =>
          owner # rd[r].file \/ parts[Wants(r)] = "damaged"]_vars

(* The store is a cell of snapshots: no reader ever gets parts of two.      *)
Cell == INSTANCE SnapshotCell WITH
            Snapshots <- Transcripts, value <- Value,
            opened <- [r \in Readers |-> IF Reading(r) THEN rd[r].file.data ELSE None]
ImplementsCell == Cell!CellSpec

(* "Rerunning completes an interrupted conversion": when kills, damage and  *)
(* changes of the setting have come to an end, syncs leave the file and the *)
(* recorded mode as configured and no chunk too many, again and again,      *)
(* unless a chunk they would have to read is damaged.                       *)
Disturbed == Die \/ Configure \/ \E c \in Chunks : Damage(c)
Settled ==
    /\ pc = "idle" /\ mode = Chosen
    /\ owner # None =>
          (owner.form = "chunked" <=> Chosen = "chunked" /\ Big(owner.data))
    /\ \A c \in Chunks : parts[c] # "absent" => c \in Named(owner)
Stuck == \E c \in Named(owner) : parts[c] = "damaged"
ConversionCompletes == <>[][~Disturbed]_vars => []<>(Settled \/ Stuck)
=============================================================================
