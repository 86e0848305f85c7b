----------------------------- MODULE IsoContext -----------------------------
(***************************************************************************)
(* What an isochronous context promises the hardware: a context starts     *)
(* only on a mapped buffer, and it is stopped before the buffer is         *)
(* unmapped, unmapped before the device is closed.                         *)
(***************************************************************************)
VARIABLE phase

Init == phase = "released"

From(before, after) == phase = before /\ phase' = after

Allocate == From("released", "allocated")
MapBuffer == From("allocated", "mapped")
Start == From("mapped", "running")
Stop == From("running", "mapped")
UnmapBuffer == From("mapped", "allocated")
Release == \E before \in {"allocated", "mapped"} : From(before, "released")

Next == Allocate \/ MapBuffer \/ Start \/ Stop \/ UnmapBuffer \/ Release

Spec == Init /\ [][Next]_phase
=============================================================================
