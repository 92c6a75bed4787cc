----------------------------- MODULE MCServices -----------------------------
(***************************************************************************)
(* The smaller services and examples of the SPUs, and the row filter, in   *)
(* one state space: they share nothing, and a behaviour is one of them.    *)
(***************************************************************************)
EXTENDS RowFilter, RectDraw, Yuv2Rgb, SpeLoader

VARIABLE which \* the component that runs

allVars == <<filterVars, rectVars, cscVars, loaderVars, which>>

SomeSizes == {1, 3, 5}
SomeHeights == {4, 6, 8}
TwoCounts == {1, 3}
TwoWidths == {1, 2}

(* The components that do not run stay at one of their initial states.     *)
(* Bound: csc_init_yuv2rgb has one of the widths.                          *)
ServicesInit ==
  /\ FilterInit /\ RectInit /\ CscInit /\ LoaderInit
  /\ which \in {"filter", "rect", "csc", "loader"}
  /\ which # "filter" => srcH = 4 /\ dstH = 4
  /\ which # "csc" => height = 1
  /\ width = 1

ServicesStep ==
  /\ UNCHANGED which
  /\ \/ /\ which = "rect" /\ ServiceStep
        /\ UNCHANGED <<filterVars, cscVars, loaderVars>>
     \/ /\ which = "csc" /\ CscService
        /\ UNCHANGED <<filterVars, rectVars, loaderVars>>
     \/ /\ which = "loader" /\ LoaderNext
        /\ UNCHANGED <<filterVars, rectVars, cscVars>>

(* Bound: the operations fill, the second a rectangle of another height;  *)
(* or the only one is a copy, of 3 rows.  STOP repeats the last one.       *)
FewOperations ==
  args' # args => /\ args.op = "FILL" /\ args'.height # args.height
                  /\ args'.op = "COPY" <=> args'.height = 3
                  /\ args'.op = "COPY" => args'.no = 1

(* Bound: UPDATE changes both heights.                                     *)
OtherHeights == Complete => srcH' # srcH /\ dstH' # dstH

ServicesNext ==
  \/ ServicesStep
  \/ /\ UNCHANGED which
     /\ \/ /\ which = "rect" /\ CallerStep /\ FewOperations
           /\ UNCHANGED <<filterVars, cscVars, loaderVars>>
        \/ /\ which = "csc" /\ CscCaller
           /\ UNCHANGED <<filterVars, rectVars, loaderVars>>
        \/ /\ which = "filter" /\ FilterNext /\ OtherHeights
           /\ UNCHANGED <<rectVars, cscVars, loaderVars>>

ServicesSpec ==
  ServicesInit /\ [][ServicesNext]_allVars /\ WF_allVars(ServicesStep)

-----------------------------------------------------------------------------
(* Every variable of every component keeps its type.                       *)
ServicesTypeOK == FilterTypeOK /\ RectTypeOK /\ CscTypeOK

(* A caller that waits is                                                  *)
Waits ==
  \/ host = "join"                    \* in draw_rect_destroy,
  \/ cscHost \in {"receive", "join"}  \* in the calls of yuv2rgb.c,
  \/ main = "greeting"                \* or main of loader.c.

(* It has what it waited for, unless the program could not be loaded; main *)
(* of loader.c has the greeting as the first message and what the loaded   *)
(* program returned as the second.                                         *)
Done ==
  /\ host # "join"
  /\ cscHost = "receive" => cscThread = "ended" /\ cscPc = "none"
  /\ cscHost # "join"
  /\ main \in {"greeting", "result", "free", "done"} =>
       \/ main = "done" /\ greeted = Greeting /\ sentBack = Argument
       \/ loaderThread = "ended" /\ spe = "none"

(* draw_rect_destroy returns to a caller that receives before each         *)
(* operation, with the last answer unread or still owed; every frame of    *)
(* yuv2rgb is answered, and csc_yuv2rgb_destroy returns, also after a STOP *)
(* sent before; the loader ends with the result of the program, which the  *)
(* SPU had fetched before the buffer was freed.                            *)
CallsReturn == Waits ~> Done
=============================================================================
