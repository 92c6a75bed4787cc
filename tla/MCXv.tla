-------------------------------- MODULE MCXv --------------------------------
(* Small instances of XvVideo for TLC. *)
EXTENDS XvVideo, TLC

(* The images and the contexts are interchangeable. *)
Symmetry == Permutations(Images) \cup Permutations(Contexts)

(* Source widths in whole groups of 16 pixels, which the port does not round; *)
(* lines of U and V of a width of 16 do not all start on 16 bytes.          *)
Aligned == {32}
TwoSizes == {16, 32}

(* Places drawn apart, and one on which an image of 32 pixels is not scaled. *)
Apart == [p \in Places |-> p]
OneUnscaled == {<<32, CHOOSE p \in Places : TRUE>>}
=============================================================================
