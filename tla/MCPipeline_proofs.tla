------------------------- MODULE MCPipeline_proofs --------------------------
(***************************************************************************)
(* Theorems about the two instances of the pipeline side by side, the      *)
(* system that is checked: they are those of ScalerPipeline_proofs, taken  *)
(* once as they are and once for the values of the second instance.        *)
(***************************************************************************)
EXTENDS MCPipeline, ScalerPipeline_proofs

Drains == INSTANCE ScalerPipeline_proofs
            WITH Pairs <- 3, Frames <- 2, Modes <- {FALSE}, StrayTags <- {0},
                 InOrder <- FALSE, Drained <- TRUE

(* The second instance is what its theorems are about.                     *)
LEMMA InstanceAssumption == Drains!PipelineAssumption
BY DEF Drains!PipelineAssumption

LEMMA SameTypes == AnyOrder!PipelineTypeOK <=> Drains!PipelineTypeOK
BY DEF AnyOrder!PipelineTypeOK, Drains!PipelineTypeOK, AnyOrder!PCs, Drains!PCs,
       AnyOrder!Buffers, Drains!Buffers, AnyOrder!Planes, Drains!Planes,
       AnyOrder!Rows, Drains!Rows, AnyOrder!Data, Drains!Data,
       AnyOrder!Commands, Drains!Commands

LEMMA SameInit == AnyOrder!Init <=> Drains!Init
BY DEF AnyOrder!Init, Drains!Init, AnyOrder!Buffers, Drains!Buffers,
       AnyOrder!Planes, Drains!Planes, AnyOrder!Rows, Drains!Rows

LEMMA SameNext == AnyOrder!Next <=> Drains!Next
BY DEF AnyOrder!Next, Drains!Next, AnyOrder!BeginFrame, Drains!BeginFrame,
       AnyOrder!Await, Drains!Await, AnyOrder!ScaleY, Drains!ScaleY,
       AnyOrder!ScaleU, Drains!ScaleU, AnyOrder!ScaleV, Drains!ScaleV,
       AnyOrder!Convert, Drains!Convert, AnyOrder!NextFrame, Drains!NextFrame,
       AnyOrder!Complete, Drains!Complete, AnyOrder!Issue, Drains!Issue,
       AnyOrder!Command, Drains!Command, AnyOrder!Tag, Drains!Tag,
       AnyOrder!Flip, Drains!Flip, AnyOrder!Waited, Drains!Waited,
       AnyOrder!BothReady, Drains!BothReady, AnyOrder!Ready, Drains!Ready

(* What a row is made from does not depend on the values of an instance.   *)
LEMMA SameReady ==
  /\ LumaReady <=> Drains!LumaReady
  /\ VReady <=> Drains!VReady
  /\ OutputFree <=> Drains!OutputFree
BY DEF LumaReady, VReady, OutputFree, BothReady, Ready,
       Drains!LumaReady, Drains!VReady, Drains!OutputFree, Drains!BothReady,
       Drains!Ready

(* A behaviour of the two is a behaviour of one of them.                   *)
LEMMA OneOfBoth ==
  BothSpec => \/ Spec /\ []~anyOrder
              \/ Drains!Spec /\ []anyOrder
<1>1. BothInit => \/ ~anyOrder /\ Init
                  \/ anyOrder /\ Drains!Init
  BY SameInit DEF BothInit
<1>2. ~anyOrder /\ [BothNext]_<<vars, anyOrder>> => ~anyOrder' /\ [Next]_vars
  BY DEF BothNext
<1>3. anyOrder /\ [BothNext]_<<vars, anyOrder>> =>
        anyOrder' /\ [Drains!Next]_(Drains!vars)
  BY SameNext DEF BothNext, vars, Drains!vars
<1>4. QED  BY <1>1, <1>2, <1>3, PTL DEF BothSpec, Spec, Drains!Spec

-----------------------------------------------------------------------------
(* Every variable keeps its type and the bounds of the instance at work.   *)
THEOREM TypesHold == BothSpec => []TypesOK
<1>1. ~anyOrder /\ PipelineTypeOK => TypesOK
  BY DEF TypesOK
<1>2. anyOrder /\ Drains!PipelineTypeOK => TypesOK
  BY SameTypes DEF TypesOK
<1>3. Drains!Spec => []Drains!PipelineTypeOK
  BY Drains!PipelineTypes
<1>4. QED  BY <1>1, <1>2, <1>3, OneOfBoth, PipelineTypes, PTL

(* In both, Y and V rows are scaled only from their own lines, completely  *)
(* arrived, and output buffers filled only when their puts have completed. *)
THEOREM InputsAndOutputs ==
  ASSUME InOrder \/ Drained
  PROVE  BothSpec => [](LumaReady /\ VReady /\ OutputFree)
(* The condition of the two, InOrder \/ Drained, in the second instance.   *)
<1>1. FALSE \/ TRUE
  OBVIOUS
<1>2. Drains!Spec => []Drains!LumaReady
  BY <1>1, Drains!LumaFromItsLines
<1>3. Drains!Spec => []Drains!VReady
  BY <1>1, Drains!VFromItsLines
<1>4. Drains!Spec => []Drains!OutputFree
  BY Drains!OutputNeverOverwritten
<1>5. Spec => [](LumaReady /\ VReady /\ OutputFree)
  BY LumaFromItsLines, VFromItsLines, OutputNeverOverwritten, PTL
<1>6. QED  BY <1>2, <1>3, <1>4, <1>5, SameReady, OneOfBoth, PTL

(* U is scaled from its own lines when commands complete in order.         *)
THEOREM UFromItsLinesInOrder == ASSUME InOrder PROVE BothSpec => []UReadyInOrder
<1>1. UReady \/ anyOrder => UReadyInOrder
  BY DEF UReadyInOrder
<1>2. QED  BY <1>1, OneOfBoth, UFromItsLines, PTL

(* And whole frames are in main memory when RDY is sent.                   *)
THEOREM WholeFramesInOrder == ASSUME InOrder PROVE BothSpec => []FrameCompleteInOrder
<1>1. FrameComplete \/ anyOrder => FrameCompleteInOrder
  BY DEF FrameCompleteInOrder
<1>2. QED  BY <1>1, OneOfBoth, WholeFrames, PTL
=============================================================================
