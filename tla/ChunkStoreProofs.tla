-------------------------- MODULE ChunkStoreProofs --------------------------
(***************************************************************************)
(* Proofs about ChunkStore, for any chunks, transcripts and readers.       *)
(***************************************************************************)
EXTENDS ChunkStore, TLAPS

(* The types, with the two cursors inside the snapshots they walk.          *)
Walking == {"chunk", "gather"}
Cursor == pc \in Walking => new \in Transcripts /\ k \in 0..Len(new)
ReaderCursor == \A r \in Readers : Reading(r) => rd[r].k \in 0..Len(rd[r].file.data)
Typed == TypeOK /\ Cursor /\ ReaderCursor

(* A snapshot is a sequence of chunks, and not empty.                       *)
LEMMA Snapshot ==
    ASSUME NEW s \in Transcripts
    PROVE  /\ Len(s) \in Nat \ {0}
           /\ DOMAIN s = 1..Len(s)
           /\ \A j \in 1..Len(s) : s[j] \in Chunks
<1>1. s \in Seq(Chunks) /\ s # <<>>
  BY ChunkAssumption DEF ChunkAssumption
<1>2. QED
  BY <1>1

(* A file has a form and holds a snapshot, and is not None.                 *)
LEMMA FileParts ==
    ASSUME NEW f \in File
    PROVE  f.form \in Modes /\ f.data \in Transcripts /\ f # None
BY ChunkAssumption DEF ChunkAssumption, File

(* What is written is a file.                                               *)
LEMMA MakeFile ==
    ASSUME NEW m \in Modes, NEW s \in Transcripts
    PROVE  /\ [form |-> m, data |-> s] \in File
           /\ [form |-> m, data |-> s] # None
           /\ [form |-> m, data |-> s].form = m
           /\ [form |-> m, data |-> s].data = s
<1>1. [form |-> m, data |-> s] \in File
  BY DEF File
<1>2. QED
  BY <1>1, FileParts

(* The first state is well typed.                                           *)
LEMMA TypeInit == Init => Typed
<1> SUFFICES ASSUME Init PROVE Typed
  OBVIOUS
<1>1. TypeOK
  BY DEF Init, TypeOK, Modes, Labels, NotReading
<1>2. Cursor /\ ReaderCursor
  BY DEF Init, Cursor, ReaderCursor, Walking, Reading, NotReading
<1>3. QED
  BY <1>1, <1>2 DEF Typed

(* A step of the sync leaves the readers where they are.                    *)
LEMMA TypeOfSync ==
    ASSUME Typed, UNCHANGED readers,
           owner' \in File \cup {None},
           parts' \in [Chunks -> {"absent", "good", "damaged"}],
           mode' \in Modes, setting' \in Modes \cup {None}, enabled' \in Modes,
           pc' \in Labels, new' \in Transcripts \cup {None}, k' \in Nat,
           Cursor'
    PROVE  Typed'
<1>1. TypeOK'
  BY DEF Typed, TypeOK, readers
<1>2. ReaderCursor'
  BY DEF Typed, ReaderCursor, Reading, readers
<1>3. QED
  BY <1>1, <1>2 DEF Typed

(* A sync is started in one of the two modes.                               *)
LEMMA ChosenIsAMode == ASSUME Typed PROVE Chosen \in Modes
BY DEF Typed, TypeOK, Chosen

(* A step that ends where nothing is walked has no cursor to check.         *)
LEMMA NoCursor == ASSUME pc' \notin Walking PROVE Cursor'
BY DEF Cursor

(* The sync's own steps preserve the types.                                 *)
LEMMA TypeSync == Typed /\ SyncStep => Typed'
<1> SUFFICES ASSUME Typed, SyncStep PROVE Typed'
  OBVIOUS
<1> USE DEF Typed, TypeOK, Labels
<1>1. CASE Current
  BY <1>1, ChosenIsAMode, NoCursor, TypeOfSync DEF Current, Goto, disk, Walking
<1>2. ASSUME NEW s \in Transcripts, CopyNative(s) PROVE Typed'
  BY <1>2, ChosenIsAMode, MakeFile, NoCursor, TypeOfSync DEF CopyNative, Goto, Modes, Walking
<1>3. ASSUME NEW s \in Transcripts, CopyChunked(s) PROVE Typed'
  <2>1. Cursor'
    BY <1>3, Snapshot DEF CopyChunked, Goto, Cursor
  <2>2. QED
    BY <1>3, <2>1, ChosenIsAMode, TypeOfSync DEF CopyChunked, Goto, disk
<1>4. CASE PutChunk
  <2>1. Cursor'
    BY <1>4, Snapshot DEF PutChunk, Cursor, Walking
  <2>2. parts' \in [Chunks -> {"absent", "good", "damaged"}]
    <3>1. new \in Transcripts /\ k + 1 \in 1..Len(new)
      BY <1>4, Snapshot DEF PutChunk, Cursor, Walking
    <3>2. new[k + 1] \in Chunks
      BY <3>1, Snapshot
    <3>3. parts' = [parts EXCEPT ![new[k + 1]] = "good"]
      BY <1>4 DEF PutChunk
    <3>4. QED
      BY <3>2, <3>3
  <2>3. k' \in Nat
    BY <1>4 DEF PutChunk
  <2>4. QED
    BY <1>4, <2>1, <2>2, <2>3, TypeOfSync DEF PutChunk
<1>5. CASE PutIndex
  <2>1. new \in Transcripts
    BY <1>5 DEF PutIndex, Cursor, Walking
  <2>2. owner' \in File
    BY <1>5, <2>1, MakeFile DEF PutIndex, Modes
  <2>3. QED
    BY <1>5, <2>2, NoCursor, TypeOfSync DEF PutIndex, Rest, Walking
<1>6. CASE Convert
  <2>1. owner \in File
    BY <1>6 DEF Convert, Stays
  <2>2. new' \in Transcripts /\ k' = 0
    BY <1>6, <2>1, FileParts DEF Convert
  <2>3. Cursor'
    BY <2>2, Snapshot DEF Cursor
  <2>4. QED
    BY <1>6, <2>2, <2>3, TypeOfSync DEF Convert, disk
<1>7. CASE Converted \/ Cleaned \/ SetMode \/ Keep
  <2>1. UNCHANGED <<owner, parts, setting, enabled, new, k, readers>>
        /\ mode' \in Modes /\ pc' \in Labels \ Walking
    BY <1>7 DEF Converted, Cleaned, SetMode, Keep, Goto, disk, Walking
  <2>2. QED
    BY <2>1, NoCursor, TypeOfSync
<1>8. CASE Gather
  <2>1. Cursor' /\ k' \in Nat
    BY <1>8, Snapshot DEF Gather, Cursor, Walking
  <2>2. QED
    BY <1>8, <2>1, TypeOfSync DEF Gather, disk
<1>9. CASE GatherFails
  BY <1>9, NoCursor, TypeOfSync DEF GatherFails, Rest, disk, Walking
<1>10. CASE Replace
  <2>1. new \in Transcripts
    BY <1>10 DEF Replace, Cursor, Walking
  <2>2. owner' \in File
    BY <1>10, <2>1, MakeFile DEF Replace, Modes
  <2>3. QED
    BY <1>10, <2>2, NoCursor, TypeOfSync DEF Replace, Rest, Walking
<1>11. CASE Clean
  <2>1. pc' \notin Walking
    BY <1>11 DEF Clean, writer, Walking
  <2>2. parts' \in [Chunks -> {"absent", "good", "damaged"}]
    BY <1>11 DEF Clean
  <2>3. QED
    BY <1>11, <2>1, <2>2, NoCursor, TypeOfSync DEF Clean, writer
<1>12. CASE Remove
  BY <1>12, NoCursor, TypeOfSync DEF Remove, Goto, Walking
<1>13. CASE RemoveChunks
  BY <1>13, NoCursor, TypeOfSync DEF RemoveChunks, Goto, Walking
<1>14. QED
  BY <1>1, <1>2, <1>3, <1>4, <1>5, <1>6, <1>7, <1>8, <1>9, <1>10, <1>11, <1>12,
     <1>13 DEF SyncStep

(* A reader that moves reads a file, within it, or stops.                   *)
LEMMA TypeOfReader ==
    ASSUME Typed, NEW r \in Readers, UNCHANGED <<disk, setting, writer>>,
           NEW e \in [file : File \cup {None}, k : Nat],
           rd' = [rd EXCEPT ![r] = e],
           e.file = None \/ e.k \in 0..Len(e.file.data),
           got' \in [Readers -> Transcripts \cup {None}], failed' \subseteq Readers
    PROVE  Typed'
<1>1. rd' \in [Readers -> [file : File \cup {None}, k : Nat]]
  BY DEF Typed, TypeOK
<1>2. TypeOK'
  BY <1>1 DEF Typed, TypeOK, disk, writer
<1>3. Cursor'
  BY DEF Typed, Cursor, writer
<1>4. ASSUME NEW q \in Readers PROVE (Reading(q) => rd[q].k \in 0..Len(rd[q].file.data))'
  <2>1. CASE q = r
    BY <2>1 DEF Typed, TypeOK, Reading
  <2>2. CASE q # r
    BY <2>2 DEF Typed, TypeOK, ReaderCursor, Reading
  <2>3. QED
    BY <2>1, <2>2
<1>5. QED
  BY <1>2, <1>3, <1>4 DEF Typed, ReaderCursor

(* The entries a reader may write.                                          *)
LEMMA ReaderEntry ==
    ASSUME NEW f \in File \cup {None}, NEW n \in Nat
    PROVE  /\ [file |-> f, k |-> n] \in [file : File \cup {None}, k : Nat]
           /\ [file |-> f, k |-> n].file = f
           /\ [file |-> f, k |-> n].k = n
OBVIOUS

(* The readers' steps preserve the types.                                   *)
LEMMA TypeRead == ASSUME Typed, NEW r \in Readers, Read(r) PROVE Typed'
<1> USE DEF Typed, TypeOK
<1>1. CASE Open(r)
  <2>1. owner \in File
    BY <1>1 DEF Open
  <2>2. 0 \in 0..Len(owner.data)
    BY <2>1, FileParts, Snapshot
  <2> DEFINE e == [file |-> owner, k |-> 0]
  <2>3. e \in [file : File \cup {None}, k : Nat] /\ e.file = owner /\ e.k = 0
    BY <2>1, ReaderEntry
  <2>4. failed' \subseteq Readers /\ UNCHANGED <<disk, setting, writer, got>>
        /\ rd' = [rd EXCEPT ![r] = e]
    BY <1>1 DEF Open
  <2> HIDE DEF e
  <2>5. QED
    BY <2>2, <2>3, <2>4, TypeOfReader
<1>2. CASE Load(r)
  <2>1. rd[r].file \in File /\ rd[r].k \in 0..Len(rd[r].file.data)
    BY <1>2 DEF Load, Reading, ReaderCursor
  <2>2. rd[r].k # Len(rd[r].file.data)
    BY <1>2 DEF Load, Whole
  <2>3. rd[r].k + 1 \in 0..Len(rd[r].file.data)
    BY <2>1, <2>2, FileParts, Snapshot
  <2> DEFINE e == [file |-> rd[r].file, k |-> rd[r].k + 1]
  <2>4. e \in [file : File \cup {None}, k : Nat] /\ e.file = rd[r].file
        /\ e.k = rd[r].k + 1
    BY <2>1, <2>3, ReaderEntry
  <2>5. [rd[r] EXCEPT !.k = @ + 1] = e
    BY <2>1
  <2>6. UNCHANGED <<disk, setting, writer, got, failed>> /\ rd' = [rd EXCEPT ![r] = e]
    BY <1>2, <2>5 DEF Load
  <2> HIDE DEF e
  <2>7. QED
    BY <2>3, <2>4, <2>6, TypeOfReader
<1>3. ASSUME rd' = [rd EXCEPT ![r] = NotReading], UNCHANGED <<disk, setting, writer>>,
             got' \in [Readers -> Transcripts \cup {None}], failed' \subseteq Readers
      PROVE  Typed'
  <2>1. NotReading \in [file : File \cup {None}, k : Nat] /\ NotReading.file = None
    BY DEF NotReading
  <2>2. QED
    BY <1>3, <2>1, TypeOfReader
<1>4. CASE LoadFails(r)
  BY <1>3, <1>4 DEF LoadFails
<1>5. CASE Materialize(r)
  <2>1. rd[r].file.data \in Transcripts
    BY <1>5, FileParts DEF Materialize, Reading
  <2>2. got' \in [Readers -> Transcripts \cup {None}]
    BY <1>5, <2>1 DEF Materialize
  <2>3. QED
    BY <1>3, <1>5, <2>2 DEF Materialize
<1>6. QED
  BY <1>1, <1>2, <1>4, <1>5 DEF Read

(* Every step preserves the types.                                          *)
LEMMA TypeStep == Typed /\ [Next]_vars => Typed'
<1> SUFFICES ASSUME Typed, [Next]_vars PROVE Typed'
  OBVIOUS
<1>1. CASE UNCHANGED vars
  BY <1>1 DEF Typed, TypeOK, Cursor, ReaderCursor, Reading, vars, disk, writer, readers
<1>2. CASE SyncStep
  BY <1>2, TypeSync
<1>3. CASE Die
  BY <1>3, NoCursor, TypeOfSync DEF Die, Rest, disk, Walking, Typed, TypeOK, Labels
<1>4. CASE Configure
  <2>1. Cursor' /\ setting' \in Modes \cup {None}
    BY <1>4 DEF Configure, writer, Typed, Cursor, Modes
  <2>2. QED
    BY <1>4, <2>1, TypeOfSync DEF Configure, disk, writer, Typed, TypeOK
<1>5. ASSUME NEW r \in Readers, Read(r) PROVE Typed'
  BY <1>5, TypeRead
<1>6. ASSUME NEW c \in Chunks, Damage(c) PROVE Typed'
  <2>1. Cursor' /\ parts' \in [Chunks -> {"absent", "good", "damaged"}]
    BY <1>6 DEF Damage, writer, Typed, TypeOK, Cursor
  <2>2. QED
    BY <1>6, <2>1, TypeOfSync DEF Damage, writer, Typed, TypeOK
<1>7. QED
  BY <1>1, <1>2, <1>3, <1>4, <1>5, <1>6 DEF Next

(* Every reachable state is well typed.                                     *)
THEOREM TypeCorrect == Spec => []TypeOK
<1>1. Typed => TypeOK
  BY DEF Typed
<1>2. QED
  BY TypeInit, TypeStep, <1>1, PTL DEF Spec

-----------------------------------------------------------------------------
(* An index never names a chunk that is not there, because the chunks come  *)
(* before the index and go after it, and a writer that is about to publish  *)
(* one has seen every chunk good while nobody could remove or damage them.  *)
Written == pc = "chunk" => \A j \in 1..k : parts[new[j]] = "good"
Gathered == pc = "gather" => owner # None /\ new = owner.data
Dropping == pc = "drop" => owner = None
StoreInv == IndexComplete /\ Written /\ Gathered /\ Dropping
Inv == Typed /\ StoreInv

(* No chunk of the file goes and no file comes: the index stays complete.   *)
LEMMA CompleteStays ==
    ASSUME Typed, IndexComplete,
           owner' = owner \/ owner' = None \/ (owner' # None /\ owner'.form = "native"),
           \A c \in Named(owner) : parts[c] # "absent" => parts'[c] # "absent"
    PROVE  IndexComplete'
<1>1. CASE owner' = owner
  BY <1>1 DEF IndexComplete, Named
<1>2. CASE owner' = None \/ (owner' # None /\ owner'.form = "native")
  BY <1>2 DEF IndexComplete, Named
<1>3. QED
  BY <1>1, <1>2

(* The chunks a file names are chunks.                                      *)
LEMMA NamedChunks == ASSUME NEW f \in File \cup {None} PROVE Named(f) \subseteq Chunks
<1>1. CASE f # None /\ f.form = "chunked"
  BY <1>1, FileParts, Snapshot DEF Named
<1>2. CASE ~(f # None /\ f.form = "chunked")
  BY <1>2 DEF Named
<1>3. QED
  BY <1>1, <1>2

(* Nothing is stored at first.                                              *)
LEMMA InvInit == Init => Inv
<1>1. Init => StoreInv
  BY DEF Init, StoreInv, IndexComplete, Named, Written, Gathered, Dropping
<1>2. QED
  BY <1>1, TypeInit DEF Inv

(* The sync's steps keep the index complete.                                *)
LEMMA InvSync == Inv /\ SyncStep => StoreInv'
<1> SUFFICES ASSUME Inv, SyncStep PROVE StoreInv'
  OBVIOUS
<1> USE DEF Inv, StoreInv, Written, Gathered, Dropping
<1>1. CASE Current \/ Converted \/ Gather \/ GatherFails \/ Cleaned \/ SetMode \/ Keep
  <2>1. UNCHANGED <<owner, parts>>
    BY <1>1 DEF Current, Converted, Gather, GatherFails, Cleaned, SetMode, Keep, disk
  <2>2. IndexComplete'
    BY <2>1 DEF IndexComplete, Named
  <2>3. pc' \notin {"chunk", "drop"} /\ (pc' = "gather" => pc = "gather" /\ new' = new)
    BY <1>1 DEF Current, Converted, Gather, GatherFails, Cleaned, SetMode, Keep, Goto
  <2>4. QED
    BY <2>1, <2>2, <2>3
<1>2. ASSUME NEW s \in Transcripts, CopyNative(s) PROVE StoreInv'
  <2>1. IndexComplete'
    BY <1>2, MakeFile, CompleteStays DEF CopyNative, Modes
  <2>2. QED
    BY <1>2, <2>1 DEF CopyNative, Goto
<1>3. ASSUME NEW s \in Transcripts, CopyChunked(s) PROVE StoreInv'
  <2>1. IndexComplete'
    BY <1>3 DEF CopyChunked, disk, IndexComplete, Named
  <2>2. QED
    BY <1>3, <2>1 DEF CopyChunked, Goto
<1>4. CASE PutChunk
  <2>1. new \in Transcripts /\ k + 1 \in 1..Len(new) /\ k \in Nat
    BY <1>4, Snapshot DEF PutChunk, Cursor, Walking, Typed
  <2>2. \A j \in 1..(k + 1) : new[j] \in Chunks
    BY <2>1, Snapshot
  <2>3. parts' = [parts EXCEPT ![new[k + 1]] = "good"] /\ owner' = owner
        /\ k' = k + 1 /\ new' = new /\ pc' = "chunk" /\ pc = "chunk"
    BY <1>4 DEF PutChunk
  <2>4. \A c \in Chunks : parts'[c] = "good" \/ parts'[c] = parts[c]
    BY <2>2, <2>3 DEF Typed, TypeOK
  <2>5. IndexComplete'
    <3>1. Named(owner) \subseteq Chunks
      BY NamedChunks DEF Typed, TypeOK
    <3>2. QED
      BY <2>3, <2>4, <3>1, CompleteStays
  <2>6. ASSUME NEW j \in 1..(k + 1) PROVE parts'[new[j]] = "good"
    <3>1. CASE j = k + 1
      BY <2>2, <2>3, <3>1 DEF Typed, TypeOK
    <3>2. CASE j # k + 1
      <4>1. parts[new[j]] = "good" /\ new[j] \in Chunks
        BY <2>1, <2>2, <2>3, <3>2
      <4>2. QED
        BY <2>4, <4>1
    <3>3. QED
      BY <3>1, <3>2
  <2>7. QED
    BY <2>3, <2>5, <2>6
<1>5. CASE PutIndex
  <2>1. new \in Transcripts /\ pc = "chunk" /\ k = Len(new) /\ parts' = parts
        /\ owner' = [form |-> "chunked", data |-> new] /\ pc' = "convert"
    BY <1>5 DEF PutIndex, Cursor, Walking, Typed
  <2>2. Named(owner') = {new[j] : j \in 1..Len(new)}
    BY <2>1, MakeFile, Snapshot DEF Named, Modes
  <2>3. \A c \in Named(owner') : parts'[c] = "good"
    BY <2>1, <2>2
  <2>4. IndexComplete'
    BY <2>3 DEF IndexComplete
  <2>5. QED
    BY <2>1, <2>4
<1>6. CASE Convert
  <2>1. UNCHANGED <<owner, parts>> /\ owner # None /\ new' = owner.data /\ k' = 0
        /\ pc' \in {"chunk", "gather"}
    BY <1>6 DEF Convert, Stays, disk
  <2>2. IndexComplete'
    BY <2>1 DEF IndexComplete, Named
  <2>3. QED
    BY <2>1, <2>2
<1>7. CASE Replace
  <2>1. new \in Transcripts
    BY <1>7 DEF Replace, Cursor, Walking, Typed
  <2>2. IndexComplete'
    BY <1>7, <2>1, MakeFile, CompleteStays DEF Replace, Modes
  <2>3. QED
    BY <1>7, <2>2 DEF Replace
<1>8. CASE Clean
  <2>1. PICK c \in Chunks \ Named(owner) : parts' = [parts EXCEPT ![c] = "absent"]
    BY <1>8 DEF Clean
  <2>2. UNCHANGED <<owner, pc>> /\ pc = "clean"
    BY <1>8 DEF Clean, writer
  <2>3. \A d \in Named(owner) : parts'[d] = parts[d]
    BY <2>1, NamedChunks DEF Typed, TypeOK
  <2>4. IndexComplete'
    BY <2>2, <2>3, CompleteStays
  <2>5. QED
    BY <2>2, <2>4
<1>9. CASE Remove \/ RemoveChunks
  <2>1. owner' = None /\ pc' \in {"drop", "idle"}
    BY <1>9 DEF Remove, RemoveChunks, Goto
  <2>2. QED
    BY <2>1 DEF IndexComplete, Named
<1>10. QED
  BY <1>1, <1>2, <1>3, <1>4, <1>5, <1>6, <1>7, <1>8, <1>9 DEF SyncStep

(* So do all the others.                                                    *)
LEMMA InvStep == Inv /\ [Next]_vars => Inv'
<1> SUFFICES ASSUME Inv, [Next]_vars PROVE Inv'
  OBVIOUS
<1>1. Typed'
  BY TypeStep DEF Inv
<1>2. StoreInv'
  <2>1. CASE SyncStep
    BY <2>1, InvSync
  <2>2. ASSUME UNCHANGED <<owner, parts>>, UNCHANGED <<pc, new, k>> \/ pc' = "idle"
        PROVE  StoreInv'
    BY <2>2 DEF Inv, StoreInv, Written, Gathered, Dropping, IndexComplete, Named
  <2>3. CASE UNCHANGED vars
    BY <2>2, <2>3 DEF vars, disk, writer
  <2>4. CASE Die
    BY <2>2, <2>4 DEF Die, disk
  <2>5. CASE Configure
    BY <2>2, <2>5 DEF Configure, disk, writer
  <2>6. ASSUME NEW r \in Readers, Read(r) PROVE StoreInv'
    BY <2>2, <2>6 DEF Read, Open, Load, LoadFails, Materialize, disk, writer
  <2>7. ASSUME NEW c \in Chunks, Damage(c) PROVE StoreInv'
    <3>1. UNCHANGED <<owner, pc>> /\ pc = "idle"
          /\ \A d \in Chunks : parts[d] # "absent" => parts'[d] # "absent"
      BY <2>7 DEF Damage, writer, Inv, Typed, TypeOK
    <3>2. IndexComplete'
      <4>1. Named(owner) \subseteq Chunks
        BY NamedChunks DEF Inv, Typed, TypeOK
      <4>2. QED
        BY <3>1, <4>1, CompleteStays DEF Inv, StoreInv
    <3>3. QED
      BY <3>1, <3>2 DEF StoreInv, Written, Gathered, Dropping
  <2>8. QED
    BY <2>1, <2>3, <2>4, <2>5, <2>6, <2>7 DEF Next
<1>3. QED
  BY <1>1, <1>2 DEF Inv

(* A kill anywhere leaves the transcript readable.                          *)
THEOREM IndexStaysComplete == Spec => []IndexComplete
<1>1. Inv => IndexComplete
  BY DEF Inv, StoreInv
<1>2. QED
  BY InvInit, InvStep, <1>1, PTL DEF Spec

(* What one step puts in the file's place.                                  *)
Replacement ==
    /\ owner' # owner => \A c \in Named(owner') : parts[c] = "good"
    /\ pc \in {"convert", "gather", "clean", "mode"} => Value' = Value

(* A native file, or none, names no chunk.                                  *)
LEMMA ReplacedByStep == Inv /\ [Next]_vars => Replacement
<1> SUFFICES ASSUME Inv, [Next]_vars PROVE Replacement
  OBVIOUS
<1>1. ASSUME owner' = owner PROVE Replacement
  BY <1>1 DEF Replacement, Value
<1>2. ASSUME Named(owner') = {}, pc \in {"idle", "prune", "drop"} PROVE Replacement
  BY <1>2 DEF Replacement
<1>3. CASE SyncStep
  <2>1. CASE Current \/ PutChunk \/ Convert \/ Converted \/ Gather \/ GatherFails \/ Clean
            \/ Cleaned \/ SetMode \/ Keep
    <3>1. owner' = owner
      BY <2>1 DEF Current, PutChunk, Convert, Converted, Gather, GatherFails, Clean,
         Cleaned, SetMode, Keep, disk
    <3>2. QED
      BY <1>1, <3>1
  <2>2. ASSUME NEW s \in Transcripts, CopyNative(s) PROVE Replacement
    <3>1. Named(owner') = {}
      BY <2>2, MakeFile DEF CopyNative, Named, Modes
    <3>2. QED
      BY <1>2, <2>2, <3>1 DEF CopyNative, Goto
  <2>3. ASSUME NEW s \in Transcripts, CopyChunked(s) PROVE Replacement
    BY <1>1, <2>3 DEF CopyChunked, disk
  <2>4. CASE PutIndex
    <3>1. new \in Transcripts /\ pc = "chunk" /\ k = Len(new)
          /\ owner' = [form |-> "chunked", data |-> new]
      BY <2>4 DEF PutIndex, Inv, Typed, Cursor, Walking
    <3>2. Named(owner') = {new[j] : j \in 1..Len(new)}
      BY <3>1, MakeFile, Snapshot DEF Named, Modes
    <3>3. \A c \in Named(owner') : parts[c] = "good"
      BY <3>1, <3>2 DEF Inv, StoreInv, Written
    <3>4. QED
      BY <3>1, <3>3 DEF Replacement
  <2>5. CASE Replace
    <3>1. new \in Transcripts /\ owner # None /\ new = owner.data
          /\ owner' = [form |-> "native", data |-> new]
      BY <2>5 DEF Replace, Inv, Typed, Cursor, Walking, StoreInv, Gathered
    <3>2. Named(owner') = {} /\ owner' # None /\ owner'.data = new
      BY <3>1, MakeFile DEF Named, Modes
    <3>3. QED
      BY <3>1, <3>2 DEF Replacement, Value
  <2>6. CASE Remove \/ RemoveChunks
    <3>1. pc \in {"prune", "drop"} /\ owner' \in {None, owner}
      BY <2>6 DEF Remove, RemoveChunks, Goto
    <3>2. CASE owner' = owner
      BY <1>1, <3>2
    <3>3. CASE owner' = None
      <4>1. Named(owner') = {}
        BY <3>3 DEF Named
      <4>2. QED
        BY <1>2, <3>1, <4>1
    <3>4. QED
      BY <3>1, <3>2, <3>3
  <2>7. QED
    BY <1>3, <2>1, <2>2, <2>3, <2>4, <2>5, <2>6 DEF SyncStep
<1>4. CASE UNCHANGED vars
  BY <1>1, <1>4 DEF vars, disk
<1>5. CASE Die \/ Configure
  BY <1>1, <1>5 DEF Die, Configure, disk
<1>6. ASSUME NEW r \in Readers, Read(r) PROVE Replacement
  BY <1>1, <1>6 DEF Read, Open, Load, LoadFails, Materialize, disk
<1>7. ASSUME NEW c \in Chunks, Damage(c) PROVE Replacement
  BY <1>1, <1>7 DEF Damage
<1>8. QED
  BY <1>3, <1>4, <1>5, <1>6, <1>7 DEF Next

(* A new index names good chunks only, and a conversion keeps the value.    *)
THEOREM NeverReplacedByParts == Spec => ReplacedWhole
<1>1. Inv /\ [Next]_vars => [Replacement]_vars
  BY ReplacedByStep
<1>2. QED
  BY InvInit, InvStep, <1>1, PTL DEF Spec, ReplacedWhole, Replacement

-----------------------------------------------------------------------------
(* A reader is not reading and failed at once.                              *)
NotBoth == \A r \in Readers : Reading(r) => r \notin failed
ReadInv == Inv /\ NotBoth

(* Opening clears the failure, failing ends the reading.                    *)
LEMMA ReadInvStep == ReadInv /\ [Next]_vars => ReadInv'
<1> SUFFICES ASSUME ReadInv, [Next]_vars PROVE NotBoth'
  BY InvStep DEF ReadInv
<1> USE DEF ReadInv, NotBoth, Reading
<1>1. ASSUME UNCHANGED readers PROVE NotBoth'
  BY <1>1 DEF readers
<1>2. CASE SyncStep
  <2>1. UNCHANGED readers
    BY <1>2 DEF SyncStep, Current, CopyNative, CopyChunked, PutChunk, PutIndex, Convert,
       Converted, Gather, GatherFails, Replace, Clean, Cleaned, SetMode, Keep, Remove,
       RemoveChunks
  <2>2. QED
    BY <1>1, <2>1
<1>3. CASE Die \/ Configure \/ (\E c \in Chunks : Damage(c)) \/ UNCHANGED vars
  BY <1>1, <1>3 DEF Die, Configure, Damage, vars
<1>4. ASSUME NEW r \in Readers, Read(r) PROVE NotBoth'
  <2>1. rd \in [Readers -> [file : File \cup {None}, k : Nat]]
    BY DEF Inv, Typed, TypeOK
  <2>2. CASE Open(r)
    BY <2>1, <2>2 DEF Open
  <2>3. CASE Load(r)
    <3>1. \A q \in Readers : rd'[q].file = rd[q].file
      BY <2>1, <2>3 DEF Load
    <3>2. QED
      BY <2>3, <3>1 DEF Load
  <2>4. CASE LoadFails(r)
    BY <2>1, <2>4 DEF LoadFails, NotReading
  <2>5. CASE Materialize(r)
    BY <2>1, <2>5 DEF Materialize, NotReading
  <2>6. QED
    BY <1>4, <2>2, <2>3, <2>4, <2>5 DEF Read
<1>5. QED
  BY <1>2, <1>3, <1>4 DEF Next

(* Nobody reads at first.                                                   *)
LEMMA ReadInvInit == Init => ReadInv
<1>1. Init => NotBoth
  BY DEF Init, NotBoth
<1>2. QED
  BY <1>1, InvInit DEF ReadInv

(* Why a read may fail.                                                     *)
Excused == \A r \in Readers : Reading(r) /\ r \in failed' =>
              owner # rd[r].file \/ parts[Wants(r)] = "damaged"

(* The chunk a reader wants is one its index names, so while that index is  *)
(* still in place the chunk is there.                                       *)
LEMMA ExcusedStep == ReadInv /\ [Next]_vars => [Excused]_vars
<1> SUFFICES ASSUME ReadInv, [Next]_vars,
                    NEW r \in Readers, Reading(r), r \in failed', owner = rd[r].file
             PROVE  parts[Wants(r)] = "damaged"
  BY DEF Excused
<1>1. r \notin failed
  BY DEF ReadInv, NotBoth
<1>2. LoadFails(r)
  <2>1. CASE SyncStep
    BY <1>1, <2>1 DEF SyncStep, Current, CopyNative, CopyChunked, PutChunk, PutIndex,
       Convert, Converted, Gather, GatherFails, Replace, Clean, Cleaned, SetMode, Keep,
       Remove, RemoveChunks, readers
  <2>2. CASE Die \/ Configure \/ (\E c \in Chunks : Damage(c)) \/ UNCHANGED vars
    BY <1>1, <2>2 DEF Die, Configure, Damage, vars, readers
  <2>3. ASSUME NEW q \in Readers, Read(q) PROVE q = r /\ LoadFails(q)
    BY <1>1, <2>3 DEF Read, Open, Load, LoadFails, Materialize
  <2>4. QED
    BY <2>1, <2>2, <2>3 DEF Next
<1>3. rd[r].file \in File /\ rd[r].k \in 0..Len(rd[r].file.data)
  BY DEF ReadInv, Inv, Typed, TypeOK, Reading, ReaderCursor
<1>4. rd[r].file.form = "chunked" /\ rd[r].k # Len(rd[r].file.data)
  BY <1>2, <1>3, FileParts DEF LoadFails, Whole, Modes
<1>5. rd[r].k + 1 \in DOMAIN rd[r].file.data
  BY <1>3, <1>4, FileParts, Snapshot
<1>6. Wants(r) \in Named(owner)
  BY <1>3, <1>4, <1>5, FileParts DEF Named, Wants
<1>7. parts[Wants(r)] # "absent" /\ Wants(r) \in Chunks
  BY <1>3, <1>6, NamedChunks DEF ReadInv, Inv, StoreInv, IndexComplete
<1>8. parts[Wants(r)] # "good" /\ parts[Wants(r)] \in {"absent", "good", "damaged"}
  BY <1>2, <1>7 DEF LoadFails, ReadInv, Inv, Typed, TypeOK
<1>9. QED
  BY <1>7, <1>8

(* A reader fails only if its file went, or its chunk is damaged.           *)
THEOREM ReadersFailForAReason == Spec => FailureMeansChange
BY ReadInvInit, ReadInvStep, ExcusedStep, PTL DEF Spec, FailureMeansChange, Excused

-----------------------------------------------------------------------------
(* The store implements the cell.                                           *)
Looked == [r \in Readers |-> IF Reading(r) THEN rd[r].file.data ELSE None]

(* At first the cell is empty and nobody looks.                             *)
LEMMA CellInitially == Init => Cell!CellInit
BY DEF Init, Cell!CellInit, Reading, NotReading, Value

(* A step of the sync puts one snapshot, drops it, or changes nothing.      *)
LEMMA CellSync == Inv /\ SyncStep => [Cell!CellNext]_(Cell!cellVars)
<1> SUFFICES ASSUME Inv, SyncStep PROVE [Cell!CellNext]_(Cell!cellVars)
  OBVIOUS
<1>1. UNCHANGED readers
  BY DEF SyncStep, Current, CopyNative, CopyChunked, PutChunk, PutIndex, Convert,
     Converted, Gather, GatherFails, Replace, Clean, Cleaned, SetMode, Keep, Remove,
     RemoveChunks
<1>2. UNCHANGED <<Looked, got>>
  BY <1>1 DEF readers, Looked, Reading
<1>3. ASSUME NEW s \in Transcripts, Value' = s PROVE Cell!Put
  BY <1>2, <1>3 DEF Cell!Put, Looked
<1>4. ASSUME Value' = None PROVE Cell!Drop
  BY <1>2, <1>4 DEF Cell!Drop, Looked
<1>5. ASSUME owner' = owner PROVE UNCHANGED Cell!cellVars
  BY <1>2, <1>5 DEF Cell!cellVars, Looked, Value
<1>6. CASE Current \/ PutChunk \/ Convert \/ Converted \/ Gather \/ GatherFails \/ Clean
          \/ Cleaned \/ SetMode \/ Keep \/ RemoveChunks
  <2>1. owner' = owner
    BY <1>6 DEF Current, PutChunk, Convert, Converted, Gather, GatherFails, Clean,
       Cleaned, SetMode, Keep, RemoveChunks, disk
  <2>2. QED
    BY <1>5, <2>1
<1>7. ASSUME NEW s \in Transcripts, CopyNative(s) PROVE Cell!Put
  <2>1. Value' = s
    BY <1>7, MakeFile DEF CopyNative, Value, Modes
  <2>2. QED
    BY <1>3, <2>1
<1>8. ASSUME NEW s \in Transcripts, CopyChunked(s) PROVE UNCHANGED Cell!cellVars
  BY <1>5, <1>8 DEF CopyChunked, disk
<1>9. CASE PutIndex \/ Replace
  <2>1. new \in Transcripts
    BY <1>9 DEF PutIndex, Replace, Inv, Typed, Cursor, Walking
  <2>2. Value' = new
    BY <1>9, <2>1, MakeFile DEF PutIndex, Replace, Value, Modes
  <2>3. QED
    BY <1>3, <2>1, <2>2 DEF Cell!CellNext
<1>10. CASE Remove
  <2>1. Value' = None
    BY <1>10 DEF Remove, Value
  <2>2. QED
    BY <1>4, <2>1 DEF Cell!CellNext
<1>11. QED
  BY <1>6, <1>7, <1>8, <1>9, <1>10 DEF SyncStep, Cell!CellNext

(* What a reader has looked at, when only its own entry moves.              *)
LEMMA LookedMoves ==
    ASSUME Typed, NEW r \in Readers, NEW e \in [file : File \cup {None}, k : Nat],
           rd' = [rd EXCEPT ![r] = e]
    PROVE  Looked' = [Looked EXCEPT ![r] = IF e.file # None THEN e.file.data ELSE None]
<1>1. rd'[r] = e /\ \A q \in Readers \ {r} : rd'[q] = rd[q]
  BY DEF Typed, TypeOK
<1> DEFINE v == IF e.file # None THEN e.file.data ELSE None
<1>2. \A q \in Readers : Looked'[q] = IF rd'[q].file # None THEN rd'[q].file.data ELSE None
  BY DEF Looked, Reading
<1>3. Looked'[r] = v
  BY <1>1, <1>2
<1>4. \A q \in Readers \ {r} : Looked'[q] = Looked[q]
  BY <1>1, <1>2 DEF Looked, Reading
<1> HIDE DEF v
<1>5. Looked' = [q \in Readers |-> Looked'[q]] /\ Looked = [q \in Readers |-> Looked[q]]
  BY DEF Looked
<1>6. Looked' = [Looked EXCEPT ![r] = v]
  BY <1>3, <1>4, <1>5
<1>7. QED
  BY <1>6 DEF v

(* A reader looks, returns what it looked at, or fails.                     *)
LEMMA CellRead ==
    ASSUME Inv, NEW r \in Readers, Read(r) PROVE [Cell!CellNext]_(Cell!cellVars)
<1> USE DEF Inv, Typed, TypeOK
<1>1. Value' = Value
  BY DEF Read, Open, Load, LoadFails, Materialize, disk, Value
<1>2. NotReading \in [file : File \cup {None}, k : Nat] /\ NotReading.file = None
  BY DEF NotReading
<1>3. CASE Open(r)
  <2>1. owner \in File /\ owner.data \in Transcripts /\ owner.data # None
    BY <1>3, FileParts, ChunkAssumption DEF Open, ChunkAssumption
  <2> DEFINE e == [file |-> owner, k |-> 0]
  <2>2. e \in [file : File \cup {None}, k : Nat] /\ e.file = owner
    BY <2>1, ReaderEntry
  <2>3. rd' = [rd EXCEPT ![r] = e] /\ got' = got /\ owner # None
    BY <1>3 DEF Open
  <2> HIDE DEF e
  <2>4. Looked' = [Looked EXCEPT ![r] = Value]
    BY <2>2, <2>3, LookedMoves DEF Value
  <2>5. Looked[r] = None /\ Value # None
    BY <1>3, <2>1 DEF Open, Looked, Value
  <2>6. Cell!Look(r)
    BY <1>1, <2>3, <2>4, <2>5 DEF Cell!Look, Looked
  <2>7. QED
    BY <2>6 DEF Cell!CellNext
<1>4. CASE Load(r)
  <2>1. \A q \in Readers : rd'[q].file = rd[q].file
    BY <1>4 DEF Load
  <2>2. Looked' = Looked /\ got' = got
    BY <1>4, <2>1 DEF Load, Looked, Reading
  <2>3. QED
    BY <1>1, <2>2 DEF Cell!cellVars, Looked
<1>5. CASE LoadFails(r)
  <2>1. Looked' = [Looked EXCEPT ![r] = None] /\ got' = got
    BY <1>2, <1>5, LookedMoves DEF LoadFails
  <2>2. Cell!Fail(r)
    BY <1>1, <2>1 DEF Cell!Fail, Looked
  <2>3. QED
    BY <2>2 DEF Cell!CellNext
<1>6. CASE Materialize(r)
  <2>1. Looked' = [Looked EXCEPT ![r] = None]
    BY <1>2, <1>6, LookedMoves DEF Materialize
  <2>2. rd[r].file \in File /\ rd[r].file.data \in Transcripts
    BY <1>6, FileParts DEF Materialize, Reading
  <2>3. Looked[r] = rd[r].file.data /\ Looked[r] # None
    BY <1>6, <2>2, ChunkAssumption DEF Materialize, Looked, ChunkAssumption
  <2>4. got' = [got EXCEPT ![r] = Looked[r]]
    BY <1>6, <2>3 DEF Materialize
  <2>5. Cell!Return(r)
    BY <1>1, <2>1, <2>3, <2>4 DEF Cell!Return, Looked
  <2>6. QED
    BY <2>5 DEF Cell!CellNext
<1>7. QED
  BY <1>3, <1>4, <1>5, <1>6 DEF Read

(* Every step of the store is a step of the cell, or none.                  *)
LEMMA CellStep == Inv /\ [Next]_vars => [Cell!CellNext]_(Cell!cellVars)
<1> SUFFICES ASSUME Inv, [Next]_vars PROVE [Cell!CellNext]_(Cell!cellVars)
  OBVIOUS
<1>1. CASE SyncStep
  BY <1>1, CellSync
<1>2. ASSUME NEW r \in Readers, Read(r) PROVE [Cell!CellNext]_(Cell!cellVars)
  BY <1>2, CellRead
<1>3. CASE Die \/ Configure \/ (\E c \in Chunks : Damage(c)) \/ UNCHANGED vars
  <2>1. owner' = owner /\ rd' = rd /\ got' = got
    BY <1>3 DEF Die, Configure, Damage, vars, disk, readers
  <2>2. QED
    BY <2>1 DEF Cell!cellVars, Value, Reading
<1>4. QED
  BY <1>1, <1>2, <1>3 DEF Next

(* No reader ever gets parts of two snapshots, whatever is killed and when. *)
THEOREM ImplementsTheCell == Spec => ImplementsCell
BY InvInit, InvStep, CellInitially, CellStep, PTL
   DEF Spec, ImplementsCell, Cell!CellSpec
=============================================================================
