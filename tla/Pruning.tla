------------------------------- MODULE Pruning -------------------------------
(***************************************************************************)
(* What dirsync's delete engine and dirpruner promise: entries are removed *)
(* from a directory, never one that must stay; a run that ends well has    *)
(* removed all it was meant to, one that fails tells an error, and one     *)
(* that a cancellation cut short may have left entries without an error.   *)
(***************************************************************************)
VARIABLES
    meant,     \* the entries to remove
    reach,     \* all that a run may remove
    left,      \* the entries there are
    outcome    \* "running", "ok", "failed" or "cut"

pruningVars == <<meant, reach, left, outcome>>

PruningInit == outcome = "running"

RemoveSome ==
    /\ outcome = "running" /\ left' \subseteq left /\ left \ left' \subseteq reach
    /\ UNCHANGED <<meant, reach, outcome>>
EndWell == outcome = "running" /\ left \cap meant = {} /\ outcome' = "ok" /\ UNCHANGED <<meant, reach, left>>
EndBadly == outcome = "running" /\ outcome' = "failed" /\ UNCHANGED <<meant, reach, left>>
EndCut == outcome = "running" /\ outcome' = "cut" /\ UNCHANGED <<meant, reach, left>>

PruningNext == RemoveSome \/ EndWell \/ EndBadly \/ EndCut
PruningSpec == PruningInit /\ [][PruningNext]_pruningVars
=============================================================================
