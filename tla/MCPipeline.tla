----------------------------- MODULE MCPipeline -----------------------------
(***************************************************************************)
(* Two small instances of ScalerPipeline in one state space, of which a    *)
(* behaviour is one: commands complete in the order of their issue, over   *)
(* frames that change between scaling and not; or in any order, but all    *)
(* before the next RUN.                                                    *)
(***************************************************************************)
EXTENDS ScalerPipeline

VARIABLE anyOrder \* is this a behaviour of the second instance?

Both == {TRUE, FALSE}

(* A tag no other buffer has, the tag of a V line, the tag of an output row. *)
SomeTags == {0, 11, 4}

AnyOrder == INSTANCE ScalerPipeline
              WITH Pairs <- 3, Frames <- 2, Modes <- {FALSE}, StrayTags <- {0},
                   InOrder <- FALSE, Drained <- TRUE

BothInit ==
  \/ anyOrder = FALSE /\ Init
  \/ anyOrder = TRUE /\ AnyOrder!Init

BothNext ==
  /\ UNCHANGED anyOrder
  /\ \/ ~anyOrder /\ Next
     \/ anyOrder /\ AnyOrder!Next

BothSpec == BothInit /\ [][BothNext]_<<vars, anyOrder>>

-----------------------------------------------------------------------------
(* The types of the pipeline, with the bounds of the instance at work.     *)
TypesOK == IF anyOrder THEN AnyOrder!PipelineTypeOK ELSE PipelineTypeOK

(* If commands complete in the order of their issue, U is scaled from its  *)
(* own lines too, although it is waited for under the tags its refill is   *)
(* not issued with (spu_yuv2argb_scaler.c, the wait for tgiu0 and tgiu1).  *)
UReadyInOrder == ~anyOrder => UReady

(* If commands complete in the order of their issue, RDY is sent when all  *)
(* rows of the frame are in main memory and made from its own lines, over  *)
(* every change of noscale from frame to frame.                            *)
FrameCompleteInOrder == ~anyOrder => FrameComplete
=============================================================================
