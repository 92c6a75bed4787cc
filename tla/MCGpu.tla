------------------------------- MODULE MCGpu --------------------------------
(* A small instance of GpuAccess for TLC. *)
EXTENDS GpuAccess, TLC

(* The processes are interchangeable. *)
Symmetry == Permutations(Procs)

(* Two words of one line, one of another; the fourth is no word of it. *)
TwoLines == {1, 2}
TwoOffsets == {1, 2}
ThreeWords == <<<<1, 1>>, <<1, 2>>, <<2, 1>>>>
=============================================================================
