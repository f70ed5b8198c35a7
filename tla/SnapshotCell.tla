---------------------------- MODULE SnapshotCell ----------------------------
(***************************************************************************)
(* What replacing a snapshot promises: the stored snapshot changes at one  *)
(* instant from the old one to the new one, or not at all, and a call that *)
(* reports success has made that change.                                   *)
(***************************************************************************)
CONSTANTS
    Snapshots,   \* what may be stored
    None

VARIABLES
    value,       \* the stored snapshot, or None before the first
    offered,     \* the snapshot of the call in progress, or None
    result       \* how the last call ended

vars == <<value, offered, result>>

Init == value = None /\ offered = None /\ result = "none"

Begin ==
    /\ offered = None
    /\ offered' \in Snapshots
    /\ UNCHANGED <<value, result>>

Install ==
    /\ offered # None
    /\ value' = offered
    /\ UNCHANGED <<offered, result>>

Succeed ==
    /\ offered # None /\ value = offered
    /\ offered' = None /\ result' = "ok"
    /\ UNCHANGED value

\* An error, or a crash.
Fail ==
    /\ offered # None
    /\ offered' = None /\ result' = "err"
    /\ UNCHANGED value

Next == Begin \/ Install \/ Succeed \/ Fail

Spec == Init /\ [][Next]_vars
=============================================================================
