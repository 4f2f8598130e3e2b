---------------------------- MODULE SnapshotCell ----------------------------
(***************************************************************************)
(* What internal/clauderig/transcript promises for one staged transcript:  *)
(* a cell that holds one snapshot or nothing.  Its value changes in one    *)
(* step, and a reader gets the snapshot that was there when it opened the  *)
(* cell, or fails; it never gets a mixture.                                *)
(***************************************************************************)
CONSTANTS Snapshots, Readers, None

VARIABLES value,      \* the snapshot, or None
          opened,     \* what each reader found, None while it reads nothing
          got         \* what each reader last returned

cellVars == <<value, opened, got>>

CellInit ==
    /\ value = None
    /\ opened = [r \in Readers |-> None]
    /\ got = [r \in Readers |-> None]

Put == \E s \in Snapshots : value' = s /\ UNCHANGED <<opened, got>>
Drop == value' = None /\ UNCHANGED <<opened, got>>
Look(r) ==
    /\ opened[r] = None /\ value # None
    /\ opened' = [opened EXCEPT ![r] = value]
    /\ UNCHANGED <<value, got>>
Return(r) ==
    /\ opened[r] # None
    /\ got' = [got EXCEPT ![r] = opened[r]]
    /\ opened' = [opened EXCEPT ![r] = None]
    /\ UNCHANGED value
Fail(r) ==
    /\ opened' = [opened EXCEPT ![r] = None]
    /\ UNCHANGED <<value, got>>

CellNext == Put \/ Drop \/ \E r \in Readers : Look(r) \/ Return(r) \/ Fail(r)
CellSpec == CellInit /\ [][CellNext]_cellVars
=============================================================================
