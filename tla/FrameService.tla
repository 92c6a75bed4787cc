---------------------------- MODULE FrameService ----------------------------
(***************************************************************************)
(* What a caller of the SPU converters is promised: the caller hands over  *)
(* a frame, the frame is on the screen when the call returns, and nothing  *)
(* else ever changes the screen.                                           *)
(***************************************************************************)
CONSTANTS
  Requests, \* the frames that can be asked for
  Nothing   \* no frame

VARIABLES
  asked,    \* the frame of the call under way, or Nothing
  screen    \* the frame on the screen

vars == <<asked, screen>>

Init == asked = Nothing /\ screen = Nothing

Ask(f) ==
  /\ asked = Nothing
  /\ asked' = f
  /\ UNCHANGED screen

Convert ==
  /\ asked # Nothing
  /\ screen' = asked
  /\ UNCHANGED asked

Return ==
  /\ asked # Nothing
  /\ screen = asked
  /\ asked' = Nothing
  /\ UNCHANGED screen

Next == (\E f \in Requests : Ask(f)) \/ Convert \/ Return

Spec == Init /\ [][Next]_vars /\ WF_vars(Convert \/ Return)
=============================================================================
