------------------------------ MODULE MCXvPort ------------------------------
(* The port with all its calls, for TLC. *)
EXTENDS MCXv, FiniteSets

(* The two things a port can be busy with at a time: a scaler that is still *)
(* ending while the next one works, with images of the greater width; and  *)
(* images of two widths, with one scaler.  Only a call of the X server     *)
(* leads out of this scope, and none is promised, so no call and no scaler *)
(* under way is cut short.                                                 *)
Narrow(x) == x # Unset /\ x.srcW = 16

InScope ==
  \/ Cardinality({c \in Contexts : iargs[c] # Unset}) <= 1
  \/ ~Narrow(put) /\ \A c \in Contexts : ~Narrow(iargs[c])
=============================================================================
