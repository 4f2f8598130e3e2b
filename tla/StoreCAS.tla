------------------------------ MODULE StoreCAS ------------------------------
(***************************************************************************)
(* What internal/brewrig/store's Write promises the processes that share a *)
(* clone: an atomic compare-and-replace.  A process remembers a content it *)
(* saw in the file, and replaces the file only while it still holds that   *)
(* content; otherwise the file is left alone.                              *)
(***************************************************************************)
CONSTANTS Procs, Absent

VARIABLES file,   \* the contents of the file
          view,   \* the content each process last saw there
          saved   \* facts whose replacement was reported as done

vars == <<file, view, saved>>

FactsOf(c) == c \ Absent   \* Absent: a set no content shares an element with

Init ==
    /\ file = Absent
    /\ view = [p \in Procs |-> Absent]
    /\ saved = {}

Look(p) ==
    /\ view' = [view EXCEPT ![p] = file]
    /\ UNCHANGED <<file, saved>>

Replace(p) ==
    /\ file = view[p]
    /\ file' = FactsOf(file) \cup {p}
    /\ view' = [view EXCEPT ![p] = file']
    /\ saved' = saved \cup {p}

Next == \E p \in Procs : Look(p) \/ Replace(p)

Spec == Init /\ [][Next]_vars

(* No replacement that was reported as done is ever undone.                *)
NothingLost == saved \subseteq FactsOf(file)
=============================================================================
