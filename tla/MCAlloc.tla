------------------------------ MODULE MCAlloc ------------------------------
(* Alloc for TLC: ALIGN and HDR keep their ratio, an extent holds a few blocks. *)
EXTENDS AllocCalls, TLC

Symmetry == Permutations(Slots)
=============================================================================
