------------------------ MODULE ScalerPipeline_proofs -----------------------
(***************************************************************************)
(* Theorems about the frame loop of the scaler, for every size of frame    *)
(* and every value of the tag that is never initialised.  That of the      *)
(* output buffers holds in every order in which DMA commands complete,     *)
(* those of Y and V in every order in which a frame's are over before the  *)
(* next RUN, and all of them, with those of U and of whole frames, in the  *)
(* order of issue.                                                         *)
(***************************************************************************)
EXTENDS ScalerPipeline, TLAPS

(* Every command for an output buffer is in that buffer's tag group.       *)
OutputTagged ==
  \A d \in dma : d.buf[1] \in {"O0", "O1"} => d.tag = Tag(d.buf[1], d.buf[2])

(* Between the wait and the conversion the buffer stays free.              *)
OutputWaited == pc = "convert" => Waited("O0", "O1", lineOut)

OInv == OutputTagged /\ OutputWaited

(* What Issue adds is what it was given.                                   *)
LEMMA IssueAdds ==
  ASSUME NEW commands, Issue(commands), NEW d \in dma'
  PROVE  \/ d \in dma
         \/ \E i \in DOMAIN commands :
              d.buf = commands[i].buf /\ d.tag = commands[i].tag
BY DEF Issue

(* Commands for the input buffers leave the output buffers' alone.         *)
LEMMA IssueInputs ==
  ASSUME OutputTagged, NEW commands, Issue(commands),
         \A i \in DOMAIN commands : commands[i].buf[1] \notin {"O0", "O1"}
  PROVE  OutputTagged'
<1>1. ASSUME NEW d \in dma', d.buf[1] \in {"O0", "O1"}
      PROVE  d.tag = Tag(d.buf[1], d.buf[2])'
  <2>1. d \in dma
    BY <1>1, IssueAdds
  <2>2. d.tag = Tag(d.buf[1], d.buf[2])
    BY <1>1, <2>1 DEF OutputTagged
  <2>3. QED  BY <1>1, <2>2 DEF Tag
<1>2. QED  BY <1>1 DEF OutputTagged

LEMMA StepOInv ==
  ASSUME OInv, [Next]_vars
  PROVE  OInv'
<1> USE DEF OInv
<1>1. ASSUME NEW d \in dma, Complete(d)  PROVE  OInv'
  BY <1>1 DEF Complete, OutputTagged, OutputWaited, Waited, Tag
<1>2. CASE BeginFrame
  <2>1. OutputTagged'
    BY <1>2, IssueInputs DEF BeginFrame, Command
  <2>2. QED  BY <1>2, <2>1 DEF BeginFrame, OutputWaited
<1>3. CASE ScaleY
  <2>1. OutputTagged'
    BY <1>3, IssueInputs DEF ScaleY, Command
  <2>2. QED  BY <1>3, <2>1 DEF ScaleY, OutputWaited
<1>4. CASE ScaleV
  <2>1. OutputTagged'
    BY <1>4, IssueInputs DEF ScaleV, Command
  <2>2. QED  BY <1>4, <2>1 DEF ScaleV, OutputWaited
<1>5. CASE Convert
  <2>1. ASSUME NEW d \in dma', d.buf[1] \in {"O0", "O1"}
        PROVE  d.tag = Tag(d.buf[1], d.buf[2])'
    <3> DEFINE puts == <<Command("put", "O0", lineOut, Tag("O0", lineOut), 2 * h),
                         Command("put", "O1", lineOut, Tag("O1", lineOut), 2 * h + 1)>>
    <3>1. Issue(puts)
      BY <1>5 DEF Convert
    <3>2. \A i \in DOMAIN puts : puts[i].tag = Tag(puts[i].buf[1], puts[i].buf[2])
      BY DEF Command
    <3> HIDE DEF puts
    <3>3. d \in dma \/ \E i \in DOMAIN puts : d.buf = puts[i].buf /\ d.tag = puts[i].tag
      BY <3>1, IssueAdds
    <3>4. d.tag = Tag(d.buf[1], d.buf[2])
      BY <2>1, <3>2, <3>3 DEF OutputTagged
    <3>5. QED  BY <2>1, <3>4 DEF Tag
  <2>2. OutputTagged'
    BY <2>1 DEF OutputTagged
  <2>3. QED  BY <1>5, <2>2 DEF Convert, OutputWaited
<1>6. ASSUME NEW at, NEW p, NEW q, NEW i, NEW then, Await(at, p, q, i, then)
      PROVE  /\ OutputTagged'
             /\ then # "convert" => OutputWaited'
  BY <1>6 DEF Await, OutputTagged, OutputWaited, Tag
<1>7. CASE Await("waitOut", "O0", "O1", lineOut, "convert")
  <2>1. OutputWaited'
    BY <1>7 DEF Await, OutputWaited, Waited, Tag
  <2>2. QED  BY <1>6, <1>7, <2>1
<1>8. CASE ScaleU \/ NextFrame \/ UNCHANGED vars
  BY <1>8 DEF ScaleU, NextFrame, vars, OutputTagged, OutputWaited, Waited, Tag
<1>9. QED
  BY <1>1, <1>2, <1>3, <1>4, <1>5, <1>6, <1>7, <1>8 DEF Next

(* No output buffer is filled while one of its rows is on its way to main  *)
(* memory: rows are never mixed up, whatever the MFC's order and timing.   *)
THEOREM OutputNeverOverwritten == Spec => []OutputFree
<1>1. Init => OInv
  BY DEF Init, OInv, OutputTagged, OutputWaited
<1>2. OInv /\ [Next]_vars => OInv'
  BY StepOInv
<1>3. OInv => OutputFree
  BY DEF OInv, OutputTagged, OutputWaited, OutputFree, Waited
<1>4. QED  BY <1>1, <1>2, <1>3, PTL DEF Spec

-----------------------------------------------------------------------------
(* Types.                                                                  *)

LEMMA IssueFacts ==
  ASSUME NEW commands, Issue(commands)
  PROVE  /\ dma \subseteq dma'
         /\ \A d \in dma' \ dma : \E k \in DOMAIN commands :
              /\ d.kind = commands[k].kind /\ d.buf = commands[k].buf
              /\ d.tag = commands[k].tag /\ d.row = commands[k].row
              /\ d.frame = frame
         /\ \A k \in DOMAIN commands : \E d \in dma' : d.buf = commands[k].buf
<1> DEFINE new(k) == [kind |-> commands[k].kind, buf |-> commands[k].buf,
                      tag |-> commands[k].tag, row |-> commands[k].row,
                      frame |-> frame, no |-> issued + k]
<1>1. dma' = dma \cup {new(k) : k \in DOMAIN commands}
  BY DEF Issue
<1>2. \A k : /\ new(k).kind = commands[k].kind /\ new(k).buf = commands[k].buf
             /\ new(k).tag = commands[k].tag /\ new(k).row = commands[k].row
             /\ new(k).frame = frame
  OBVIOUS
<1> HIDE DEF new
<1>3. QED  BY <1>1, <1>2

LEMMA IssueType ==
  ASSUME NEW commands, Issue(commands), NEW n \in 0 .. 12, DOMAIN commands = 1 .. n,
         dma \subseteq Commands, issued \in Nat, frame \in Nat,
         \A k \in DOMAIN commands :
           /\ commands[k].kind \in {"get", "put"} /\ commands[k].buf \in Buffers
           /\ commands[k].tag \in 0 .. 31 /\ commands[k].row \in Nat
  PROVE  dma' \subseteq Commands /\ issued' \in Nat
<1>1. issued' = issued + (CHOOSE m \in 0 .. 12 : DOMAIN commands = 1 .. m)
  BY DEF Issue
<1>2. (CHOOSE m \in 0 .. 12 : DOMAIN commands = 1 .. m) \in 0 .. 12
  OBVIOUS
<1>3. \A k \in DOMAIN commands :
        [kind |-> commands[k].kind, buf |-> commands[k].buf, tag |-> commands[k].tag,
         row |-> commands[k].row, frame |-> frame, no |-> issued + k] \in Commands
  BY DEF Commands
<1>4. QED  BY <1>1, <1>2, <1>3 DEF Issue

LEMMA TagType ==
  ASSUME PipelineTypeOK, NEW p \in Planes, NEW i \in {0, 1}
  PROVE  Tag(p, i) \in 0 .. 31 /\ <<p, i>> \in Buffers
BY PipelineAssumption DEF Tag, Planes, Buffers, PipelineTypeOK

Inputs == {"Y0", "Y1", "U0", "U1", "V0", "V1"}

(* The commands of BeginFrame.                                             *)
FirstGets == <<Command("get", "Y0", 0, Tag("Y0", 0), 0),
               Command("get", "Y1", 0, Tag("Y1", 0), 0),
               Command("get", "Y0", 1, Tag("Y0", 1), 1),
               Command("get", "Y1", 1, Tag("Y1", 1), 1),
               Command("get", "U0", 0, Tag("U0", 0), 0),
               Command("get", "U0", 1, Tag("U0", 1), 1),
               Command("get", "U1", 0, Tag("U1", 0), 0),
               Command("get", "U1", 1, Tag("U1", 1), 1),
               Command("get", "V0", 0, Tag("V0", 0), 0),
               Command("get", "V0", 1, Tag("V0", 1), 1),
               Command("get", "V1", 0, Tag("V1", 0), 0),
               Command("get", "V1", 1, Tag("V1", 1), 1)>>

LEMMA FirstCommands ==
  /\ BeginFrame => Issue(FirstGets)
  /\ DOMAIN FirstGets = 1 .. 12
  /\ \A k \in DOMAIN FirstGets : \E p \in Planes, i \in {0, 1} :
       FirstGets[k] = Command("get", p, i, Tag(p, i), i)
  /\ \A p \in Inputs, i \in {0, 1} : \E k \in DOMAIN FirstGets : FirstGets[k].buf = <<p, i>>
<1>1. BeginFrame => Issue(FirstGets)
  BY DEF BeginFrame, FirstGets
<1>2. DOMAIN FirstGets = 1 .. 12
  BY DEF FirstGets
<1>3. \A k \in 1 .. 12 : \E p \in Planes, i \in {0, 1} :
        FirstGets[k] = Command("get", p, i, Tag(p, i), i)
  BY DEF Planes, FirstGets
<1>4. /\ FirstGets[1].buf = <<"Y0", 0>> /\ FirstGets[3].buf = <<"Y0", 1>>
      /\ FirstGets[2].buf = <<"Y1", 0>> /\ FirstGets[4].buf = <<"Y1", 1>>
      /\ FirstGets[5].buf = <<"U0", 0>> /\ FirstGets[6].buf = <<"U0", 1>>
      /\ FirstGets[7].buf = <<"U1", 0>> /\ FirstGets[8].buf = <<"U1", 1>>
      /\ FirstGets[9].buf = <<"V0", 0>> /\ FirstGets[10].buf = <<"V0", 1>>
      /\ FirstGets[11].buf = <<"V1", 0>> /\ FirstGets[12].buf = <<"V1", 1>>
  BY DEF FirstGets, Command
<1>5. {1, 2, 3, 4, 5, 6, 7, 8, 9, 10, 11, 12} \subseteq 1 .. 12
  OBVIOUS
<1>6. QED  BY <1>1, <1>2, <1>3, <1>4, <1>5 DEF Inputs

LEMMA BeginType ==
  ASSUME PipelineTypeOK, BeginFrame
  PROVE  PipelineTypeOK'
<1>1. Issue(FirstGets) /\ UNCHANGED <<frame, noscale, stray, ls, mem>>
  BY FirstCommands DEF BeginFrame
<1>2. \A p \in Planes, i \in {0, 1} :
        LET c == Command("get", p, i, Tag(p, i), i)
        IN /\ c.kind \in {"get", "put"} /\ c.buf \in Buffers
           /\ c.tag \in 0 .. 31 /\ c.row \in Nat
  <2>1. SUFFICES ASSUME NEW p \in Planes, NEW i \in {0, 1}
                 PROVE  Tag(p, i) \in 0 .. 31 /\ <<p, i>> \in Buffers /\ i \in Nat
    BY DEF Command
  <2>2. Tag(p, i) \in 0 .. 31 /\ <<p, i>> \in Buffers
    BY TagType, Zenon
  <2>3. QED  BY <2>2
<1>3. \A k \in DOMAIN FirstGets :
        /\ FirstGets[k].kind \in {"get", "put"} /\ FirstGets[k].buf \in Buffers
        /\ FirstGets[k].tag \in 0 .. 31 /\ FirstGets[k].row \in Nat
  BY <1>2, FirstCommands
<1>4. dma \subseteq Commands /\ issued \in Nat /\ frame \in Nat /\ 12 \in 0 .. 12
  BY PipelineAssumption DEF PipelineTypeOK
<1>5. dma' \subseteq Commands /\ issued' \in Nat
  BY <1>1, <1>3, <1>4, FirstCommands, IssueType
<1>6. QED
  BY <1>1, <1>5, PipelineAssumption DEF BeginFrame, PipelineTypeOK, PCs

(* The commands of ScaleY, ScaleV and Convert.                             *)
YGets == LET row == 2 * h + line + 2
         IN IF noscale
            THEN <<Command("get", "Y0", selY, Tag("Y0", selY), row)>>
            ELSE <<Command("get", "Y0", selY, Tag("Y0", selY), row),
                   Command("get", "Y1", selY, Tag("Y1", selY), row)>>

VGets == IF noscale
         THEN <<Command("get", "V0", selCr, Tag("U0", selCr), h + 2),
                Command("get", "U0", selCr, Tag("V0", selCr), h + 2)>>
         ELSE <<Command("get", "V0", selCr, Tag("U0", selCr), h + 2),
                Command("get", "U0", selCr, Tag("V0", selCr), h + 2),
                Command("get", "V1", selCr, Tag("U1", selCr), h + 2),
                Command("get", "U1", selCr, Tag("V1", selCr), h + 2)>>

Puts == <<Command("put", "O0", lineOut, Tag("O0", lineOut), 2 * h),
          Command("put", "O1", lineOut, Tag("O1", lineOut), 2 * h + 1)>>

LEMMA CommandSets ==
  /\ ScaleY => Issue(YGets)
  /\ ScaleV => Issue(VGets)
  /\ Convert => Issue(Puts)
  /\ DOMAIN YGets = 1 .. (IF noscale THEN 1 ELSE 2)
  /\ DOMAIN VGets = 1 .. (IF noscale THEN 2 ELSE 4)
  /\ DOMAIN Puts = 1 .. 2
<1>1. ScaleY => Issue(YGets)
  BY DEF ScaleY, YGets
<1>2. ScaleV => Issue(VGets)
  BY DEF ScaleV, VGets
<1>3. Convert => Issue(Puts)
  BY DEF Convert, Puts
<1>4. DOMAIN YGets = 1 .. (IF noscale THEN 1 ELSE 2)
  BY DEF YGets
<1>5. DOMAIN VGets = 1 .. (IF noscale THEN 2 ELSE 4)
  <2>1. CASE noscale
    BY <2>1 DEF VGets
  <2>2. CASE ~noscale
    BY <2>2 DEF VGets
  <2>3. QED  BY <2>1, <2>2
<1>6. DOMAIN Puts = 1 .. 2
  BY DEF Puts
<1>7. QED  BY <1>1, <1>2, <1>3, <1>4, <1>5, <1>6

LEMMA CommandTypes ==
  ASSUME PipelineTypeOK, NEW commands \in {YGets, VGets, Puts}, NEW k \in DOMAIN commands
  PROVE  /\ commands[k].kind \in {"get", "put"} /\ commands[k].buf \in Buffers
         /\ commands[k].tag \in 0 .. 31 /\ commands[k].row \in Nat
<1>1. h \in Nat /\ line \in {0, 1} /\ selY \in {0, 1} /\ selCr \in {0, 1} /\ lineOut \in {0, 1}
  BY PipelineAssumption DEF PipelineTypeOK
<1>2. \A p \in Planes, i \in {0, 1} : Tag(p, i) \in 0 .. 31 /\ <<p, i>> \in Buffers
  BY TagType
<1>3. CASE commands = YGets
  <2>1. PICK p \in Planes, i \in {0, 1}, t \in 0 .. 31, row \in Nat :
          commands[k] = Command("get", p, i, t, row)
    <3>1. commands[k] \in {Command("get", "Y0", selY, Tag("Y0", selY), 2 * h + line + 2),
                           Command("get", "Y1", selY, Tag("Y1", selY), 2 * h + line + 2)}
      BY <1>3 DEF YGets
    <3>2. 2 * h + line + 2 \in Nat /\ {"Y0", "Y1"} \subseteq Planes
      BY <1>1 DEF Planes
    <3>3. QED  BY <1>1, <1>2, <3>1, <3>2
  <2>2. /\ commands[k].kind \in {"get", "put"} /\ commands[k].buf = <<p, i>>
        /\ commands[k].tag = t /\ commands[k].row = row
    BY <2>1 DEF Command
  <2>3. <<p, i>> \in Buffers
    BY <1>2, Zenon
  <2>4. QED  BY <2>2, <2>3
<1>4. CASE commands = VGets
  <2>1. PICK p \in Planes, i \in {0, 1}, t \in 0 .. 31, row \in Nat :
          commands[k] = Command("get", p, i, t, row)
    <3>1. commands[k] \in {Command("get", "V0", selCr, Tag("U0", selCr), h + 2),
                           Command("get", "U0", selCr, Tag("V0", selCr), h + 2),
                           Command("get", "V1", selCr, Tag("U1", selCr), h + 2),
                           Command("get", "U1", selCr, Tag("V1", selCr), h + 2)}
      BY <1>4 DEF VGets
    <3>2. h + 2 \in Nat /\ {"U0", "U1", "V0", "V1"} \subseteq Planes
      BY <1>1 DEF Planes
    <3>3. QED  BY <1>1, <1>2, <3>1, <3>2
  <2>2. /\ commands[k].kind \in {"get", "put"} /\ commands[k].buf = <<p, i>>
        /\ commands[k].tag = t /\ commands[k].row = row
    BY <2>1 DEF Command
  <2>3. <<p, i>> \in Buffers
    BY <1>2, Zenon
  <2>4. QED  BY <2>2, <2>3
<1>5. CASE commands = Puts
  <2>1. PICK p \in Planes, i \in {0, 1}, t \in 0 .. 31, row \in Nat :
          commands[k] = Command("put", p, i, t, row)
    <3>1. commands[k] \in {Command("put", "O0", lineOut, Tag("O0", lineOut), 2 * h),
                           Command("put", "O1", lineOut, Tag("O1", lineOut), 2 * h + 1)}
      BY <1>5 DEF Puts
    <3>2. 2 * h \in Nat /\ 2 * h + 1 \in Nat /\ {"O0", "O1"} \subseteq Planes
      BY <1>1 DEF Planes
    <3>3. QED  BY <1>1, <1>2, <3>1, <3>2
  <2>2. /\ commands[k].kind \in {"get", "put"} /\ commands[k].buf = <<p, i>>
        /\ commands[k].tag = t /\ commands[k].row = row
    BY <2>1 DEF Command
  <2>3. <<p, i>> \in Buffers
    BY <1>2, Zenon
  <2>4. QED  BY <2>2, <2>3
<1>6. QED  BY <1>3, <1>4, <1>5

LEMMA StepType ==
  ASSUME PipelineTypeOK, InLoop => h < Pairs, [Next]_vars
  PROVE  PipelineTypeOK' /\ (InLoop => h < Pairs)'
<1> USE DEF PipelineTypeOK, PCs, InLoop
<1>1. dma \subseteq Commands /\ issued \in Nat /\ frame \in Nat /\ h \in Nat
  BY PipelineAssumption
<1>2. CASE BeginFrame
  BY <1>2, BeginType, PipelineAssumption DEF BeginFrame
<1>3. ASSUME NEW d \in dma, Complete(d)  PROVE  PipelineTypeOK' /\ (InLoop => h < Pairs)'
  <2>1. d.buf \in Buffers /\ [frame |-> d.frame, row |-> d.row] \in Data /\ ls[d.buf] \in Data
    BY <1>3 DEF Commands, Data
  <2>2. ls' \in [Buffers -> Data] /\ mem' \in [{0, 1} \X Rows -> Data]
    BY <1>3, <2>1 DEF Complete
  <2>3. QED  BY <1>3, <2>2 DEF Complete
<1>4. CASE ScaleY
  <2>1. dma' \subseteq Commands /\ issued' \in Nat
    <3>1. PICK n \in 0 .. 12 : DOMAIN YGets = 1 .. n
      <4>1. 1 \in 0 .. 12 /\ 2 \in 0 .. 12
        OBVIOUS
      <4>2. DOMAIN YGets = 1 .. 1 \/ DOMAIN YGets = 1 .. 2
        BY CommandSets
      <4>3. QED  BY <4>1, <4>2
    <3>2. \A k \in DOMAIN YGets :
            /\ YGets[k].kind \in {"get", "put"} /\ YGets[k].buf \in Buffers
            /\ YGets[k].tag \in 0 .. 31 /\ YGets[k].row \in Nat
      BY CommandTypes
    <3>3. QED  BY <1>1, <1>4, <3>1, <3>2, CommandSets, IssueType
  <2>2. QED  BY <1>4, <2>1 DEF ScaleY, Flip
<1>5. CASE ScaleV
  <2>1. dma' \subseteq Commands /\ issued' \in Nat
    <3>1. PICK n \in 0 .. 12 : DOMAIN VGets = 1 .. n
      <4>1. 2 \in 0 .. 12 /\ 4 \in 0 .. 12
        OBVIOUS
      <4>2. DOMAIN VGets = 1 .. 2 \/ DOMAIN VGets = 1 .. 4
        BY CommandSets
      <4>3. QED  BY <4>1, <4>2
    <3>2. \A k \in DOMAIN VGets :
            /\ VGets[k].kind \in {"get", "put"} /\ VGets[k].buf \in Buffers
            /\ VGets[k].tag \in 0 .. 31 /\ VGets[k].row \in Nat
      BY CommandTypes
    <3>3. QED  BY <1>1, <1>5, <3>1, <3>2, CommandSets, IssueType
  <2>2. QED  BY <1>5, <2>1 DEF ScaleV, Flip
<1>6. CASE Convert
  <2>1. dma' \subseteq Commands /\ issued' \in Nat
    BY <1>1, <1>6, CommandSets, CommandTypes, IssueType
  <2>2. ls' \in [Buffers -> Data]
    <3> DEFINE result(row) == IF clean THEN [frame |-> frame, row |-> row] ELSE None
    <3>1. ls' = [ls EXCEPT ![<<"O0", lineOut>>] = result(2 * h),
                           ![<<"O1", lineOut>>] = result(2 * h + 1)]
      BY <1>6 DEF Convert
    <3>2. result(2 * h) \in Data /\ result(2 * h + 1) \in Data
      BY <1>1 DEF Data
    <3> HIDE DEF result
    <3>3. QED  BY <3>1, <3>2
  <2>3. h + 1 \in 0 .. Pairs
    BY <1>6, PipelineAssumption DEF Convert
  <2>4. QED  BY <1>6, <2>1, <2>2, <2>3, PipelineAssumption DEF Convert, Flip
<1>7. CASE \/ Await("waitY", "Y0", "Y1", selY, "scaleY")
           \/ Await("waitU", "U0", "U1", selCr, "scaleU")
           \/ Await("waitV", "V0", "V1", selCr, "scaleV")
           \/ Await("waitOut", "O0", "O1", lineOut, "convert")
           \/ Await("waitLast", "O0", "O1", Flip(lineOut), "ready")
  BY <1>7 DEF Await
<1>8. CASE ScaleU \/ NextFrame \/ UNCHANGED vars
  <2>1. CASE ScaleU
    BY <2>1 DEF ScaleU
  <2>2. CASE NextFrame
    BY <2>2, PipelineAssumption DEF NextFrame
  <2>3. CASE UNCHANGED vars
    BY <2>3 DEF vars
  <2>4. QED  BY <1>8, <2>1, <2>2, <2>3
<1> HIDE DEF PipelineTypeOK, PCs, InLoop
<1>9. CASE \E d \in dma : Complete(d)
  BY <1>3, <1>9
<1>10. QED
  BY <1>2, <1>4, <1>5, <1>6, <1>7, <1>8, <1>9 DEF Next

-----------------------------------------------------------------------------
(* The commands in the order of their issue.  The last of a frame is the   *)
(* put of its last row, and it is waited for: when they complete in that   *)
(* order, all have completed when the frame has.                           *)
Ordered ==
  /\ \A d, e \in dma : d.no = e.no => d = e
  /\ \A d \in dma : d.no <= issued
  /\ pc = "waitLast" /\ dma # {} =>
       \E e \in dma : e.no = issued /\ e.tag = Tag("O1", Flip(lineOut))
  /\ pc \in {"ready", "begin"} => dma = {}

LEMMA IssueOrder ==
  ASSUME Ordered, PipelineTypeOK,
         NEW commands, Issue(commands), NEW n \in 0 .. 12, DOMAIN commands = 1 .. n
  PROVE  /\ issued' = issued + n
         /\ \A d, e \in dma' : d.no = e.no => d = e
         /\ \A d \in dma' : d.no <= issued'
         /\ \A d \in dma' \ dma : issued < d.no
         /\ \A k \in 1 .. n : \E d \in dma' :
              d.no = issued + k /\ d.buf = commands[k].buf /\ d.tag = commands[k].tag
<1> DEFINE new(k) == [kind |-> commands[k].kind, buf |-> commands[k].buf,
                      tag |-> commands[k].tag, row |-> commands[k].row,
                      frame |-> frame, no |-> issued + k]
<1>1. dma' = dma \cup {new(k) : k \in 1 .. n}
  BY DEF Issue
<1>2. \A k : new(k).no = issued + k /\ new(k).buf = commands[k].buf
             /\ new(k).tag = commands[k].tag
  OBVIOUS
<1>3. issued' = issued + n
  <2>1. \A m \in 0 .. 12 : 1 .. m = 1 .. n => m = n
    <3>1. ASSUME NEW m \in 0 .. 12, 1 .. m = 1 .. n, m # n  PROVE  FALSE
      <4>1. (n \in 1 .. m /\ n > m) \/ (m \in 1 .. n /\ m > n)
        BY <3>1
      <4>2. QED  BY <3>1, <4>1
    <3>2. QED  BY <3>1
  <2>2. (CHOOSE m \in 0 .. 12 : DOMAIN commands = 1 .. m) = n
    BY <2>1
  <2>3. QED  BY <2>2 DEF Issue
<1> HIDE DEF new
<1>4. issued \in Nat /\ \A d \in dma : d.no \in Nat /\ d.no <= issued
  BY DEF PipelineTypeOK, Commands, Ordered
<1>5. \A d \in dma' : d \in dma \/ (\E k \in 1 .. n : d = new(k) /\ d.no = issued + k)
  BY <1>1, <1>2
<1>6. \A d, e \in dma' : d.no = e.no => d = e
  <2>1. ASSUME NEW d \in dma', NEW e \in dma', d.no = e.no  PROVE  d = e
    <3>1. CASE d \in dma /\ e \in dma
      BY <2>1, <3>1 DEF Ordered
    <3>2. CASE d \in dma /\ e \notin dma
      BY <1>4, <1>5, <2>1, <3>2
    <3>3. CASE d \notin dma /\ e \in dma
      BY <1>4, <1>5, <2>1, <3>3
    <3>4. CASE d \notin dma /\ e \notin dma
      <4>1. PICK k \in 1 .. n, m \in 1 .. n :
              d = new(k) /\ d.no = issued + k /\ e = new(m) /\ e.no = issued + m
        BY <1>5, <3>4
      <4>2. k = m
        BY <1>4, <2>1, <4>1
      <4>3. QED  BY <4>1, <4>2
    <3>5. QED  BY <3>1, <3>2, <3>3, <3>4
  <2>2. QED  BY <2>1
<1>7. \A d \in dma' : d.no <= issued'
  BY <1>3, <1>4, <1>5
<1>8. \A d \in dma' \ dma : issued < d.no
  BY <1>4, <1>5
<1>9. QED  BY <1>1, <1>2, <1>3, <1>6, <1>7, <1>8

LEMMA StepOrder ==
  ASSUME InOrder, PipelineTypeOK, Ordered, [Next]_vars
  PROVE  Ordered'
<1> USE DEF Ordered
<1>1. CASE BeginFrame
  BY <1>1, FirstCommands, IssueOrder DEF BeginFrame
<1>2. CASE ScaleY
  <2>1. PICK n \in 0 .. 12 : DOMAIN YGets = 1 .. n
    <3>1. DOMAIN YGets = 1 .. 1 \/ DOMAIN YGets = 1 .. 2
      BY CommandSets
    <3>2. 1 \in 0 .. 12 /\ 2 \in 0 .. 12
      OBVIOUS
    <3>3. QED  BY <3>1, <3>2
  <2>2. Issue(YGets)
    BY <1>2, CommandSets
  <2>3. /\ \A d, e \in dma' : d.no = e.no => d = e
        /\ \A d \in dma' : d.no <= issued'
    BY <2>1, <2>2, IssueOrder
  <2>4. QED  BY <1>2, <2>3 DEF ScaleY
<1>3. CASE ScaleV
  <2>1. PICK n \in 0 .. 12 : DOMAIN VGets = 1 .. n
    <3>1. DOMAIN VGets = 1 .. 2 \/ DOMAIN VGets = 1 .. 4
      BY CommandSets
    <3>2. 2 \in 0 .. 12 /\ 4 \in 0 .. 12
      OBVIOUS
    <3>3. QED  BY <3>1, <3>2
  <2>2. Issue(VGets)
    BY <1>3, CommandSets
  <2>3. /\ \A d, e \in dma' : d.no = e.no => d = e
        /\ \A d \in dma' : d.no <= issued'
    BY <2>1, <2>2, IssueOrder
  <2>4. QED  BY <1>3, <2>3 DEF ScaleV
<1>4. CASE Convert
  <2>1. DOMAIN Puts = 1 .. 2 /\ 2 \in 0 .. 12 /\ Issue(Puts)
    BY <1>4, CommandSets
  <2>2. /\ issued' = issued + 2
        /\ \A d, e \in dma' : d.no = e.no => d = e
        /\ \A d \in dma' : d.no <= issued'
        /\ \E d \in dma' : d.no = issued + 2 /\ d.tag = Puts[2].tag
    BY <2>1, IssueOrder
  <2>3. Puts[2].tag = Tag("O1", Flip(lineOut))'
    BY <1>4 DEF Convert, PipelineTypeOK, Puts, Command, Tag, Flip
  <2>4. QED  BY <1>4, <2>2, <2>3 DEF Convert
<1>5. ASSUME NEW d \in dma, Complete(d)  PROVE  Ordered'
  <2>1. /\ dma' = dma \ {d} /\ \A e \in dma : d.no <= e.no
        /\ UNCHANGED <<pc, lineOut, stray, issued>>
    BY <1>5 DEF Complete
  <2>2. \A e \in dma : e.no \in Nat /\ e.no <= issued
    BY DEF PipelineTypeOK, Commands
  <2>3. ASSUME pc = "waitLast", dma' # {}
        PROVE  \E e \in dma' : e.no = issued /\ e.tag = Tag("O1", Flip(lineOut))
    <3>1. PICK e \in dma : e.no = issued /\ e.tag = Tag("O1", Flip(lineOut))
      BY <2>1, <2>3
    <3>2. e # d
      BY <2>1, <2>2, <2>3, <3>1
    <3>3. QED  BY <2>1, <3>1, <3>2
  <2>4. Tag("O1", Flip(lineOut))' = Tag("O1", Flip(lineOut))
    BY <2>1 DEF Tag, Flip
  <2>5. QED  BY <2>1, <2>3, <2>4
<1>6. CASE Await("waitLast", "O0", "O1", Flip(lineOut), "ready")
  <2>1. dma = {}
    BY <1>6 DEF Await, Waited
  <2>2. QED  BY <1>6, <2>1 DEF Await
<1>7. CASE \/ Await("waitY", "Y0", "Y1", selY, "scaleY")
           \/ Await("waitU", "U0", "U1", selCr, "scaleU")
           \/ Await("waitV", "V0", "V1", selCr, "scaleV")
           \/ Await("waitOut", "O0", "O1", lineOut, "convert")
  BY <1>7 DEF Await
<1>8. CASE ScaleU \/ NextFrame
  BY <1>8 DEF ScaleU, NextFrame
<1>9. CASE UNCHANGED vars
  BY <1>9 DEF vars, Tag, Flip
<1>10. QED
  BY <1>1, <1>2, <1>3, <1>4, <1>5, <1>6, <1>7, <1>8, <1>9 DEF Next

LEMMA InitOrder == Init => Ordered
BY DEF Init, Ordered

-----------------------------------------------------------------------------
(* The lines of one buffer over a step.                                    *)

LEMMA LineKept ==
  ASSUME NEW p, NEW i, Coming(p, i, Want(p, i)), Want(p, i)' = Want(p, i), frame' = frame,
         ls'[<<p, i>>] = ls[<<p, i>>], dma \subseteq dma',
         \A d \in dma' \ dma : d.buf # <<p, i>>
  PROVE  Coming(p, i, Want(p, i))'
BY DEF Coming

LEMMA LineFetched ==
  ASSUME NEW p, NEW i, \A d \in dma : d.buf # <<p, i>>,
         \A d \in dma' \ dma :
           d.buf = <<p, i>> => d.kind = "get" /\ d.frame = frame' /\ d.row = Want(p, i)',
         \E d \in dma' : d.buf = <<p, i>>
  PROVE  Coming(p, i, Want(p, i))'
BY DEF Coming

LEMMA LineArrives ==
  ASSUME NEW p, NEW i, Coming(p, i, Want(p, i)), Want(p, i)' = Want(p, i), <<p, i>> \in Buffers,
         ls \in [Buffers -> Data], NEW d \in dma, Complete(d)
  PROVE  Coming(p, i, Want(p, i))'
<1>1. CASE d.buf = <<p, i>>
  BY <1>1 DEF Coming, Complete
<1>2. CASE d.buf # <<p, i>>
  <2>1. ls'[<<p, i>>] = ls[<<p, i>>] /\ frame' = frame /\ dma' = dma \ {d}
    BY <1>2 DEF Complete
  <2>2. QED  BY <1>2, <2>1 DEF Coming
<1>3. QED  BY <1>1, <1>2

(* What has been waited for has arrived.                                   *)
LEMMA WaitedArrived ==
  ASSUME PipelineTypeOK, InputTagged, InputWaited
  PROVE  /\ pc = "scaleY" => \A d \in dma : d.buf \notin {<<"Y0", selY>>, <<"Y1", selY>>}
         /\ pc = "scaleV" => \A d \in dma : d.buf \notin {<<"V0", selCr>>, <<"V1", selCr>>}
BY DEF PipelineTypeOK, InputTagged, InputWaited, Waited

-----------------------------------------------------------------------------
(* The tags and the waits over a step.                                     *)

LEMMA TagsKept ==
  ASSUME InputTagged, NEW commands, Issue(commands), UNCHANGED stray,
         \A k \in DOMAIN commands : \A i \in {0, 1} :
           /\ commands[k].buf = <<"Y0", i>> => commands[k].tag = Tag("Y0", i)
           /\ commands[k].buf = <<"Y1", i>> => commands[k].tag = Tag("Y1", i)
           /\ commands[k].buf = <<"V0", i>> => commands[k].tag \in {Tag("V0", i), Tag("U0", i)}
           /\ commands[k].buf = <<"V1", i>> => commands[k].tag \in {Tag("V1", i), Tag("U1", i)}
  PROVE  InputTagged'
<1>1. \A p, i : Tag(p, i)' = Tag(p, i)
  BY DEF Tag
<1>2. \A d \in dma' : d \in dma \/ \E k \in DOMAIN commands :
        d.buf = commands[k].buf /\ d.tag = commands[k].tag
  BY IssueAdds
<1>3. ASSUME NEW d \in dma', NEW i \in {0, 1}
      PROVE  /\ d.buf = <<"Y0", i>> => d.tag = Tag("Y0", i)
             /\ d.buf = <<"Y1", i>> => d.tag = Tag("Y1", i)
             /\ d.buf = <<"V0", i>> => d.tag \in {Tag("V0", i), Tag("U0", i)}
             /\ d.buf = <<"V1", i>> => d.tag \in {Tag("V1", i), Tag("U1", i)}
  <2>1. CASE d \in dma
    BY <1>3, <2>1 DEF InputTagged
  <2>2. CASE d \notin dma
    BY <1>2, <1>3, <2>2
  <2>3. QED  BY <2>1, <2>2
<1>4. QED  BY <1>1, <1>3 DEF InputTagged

LEMMA StepTagged ==
  ASSUME InputTagged, PipelineTypeOK, [Next]_vars
  PROVE  InputTagged'
<1>1. CASE BeginFrame
  <2>1. Issue(FirstGets) /\ UNCHANGED stray
    BY <1>1, FirstCommands DEF BeginFrame
  <2>2. \A k \in DOMAIN FirstGets : \E p \in Planes, i \in {0, 1} :
          FirstGets[k].buf = <<p, i>> /\ FirstGets[k].tag = Tag(p, i)
    BY FirstCommands DEF Command
  <2>3. QED  BY <2>1, <2>2, TagsKept
<1>2. CASE ScaleY
  <2>1. \A k \in DOMAIN YGets : \E p \in {"Y0", "Y1"} :
          YGets[k].buf = <<p, selY>> /\ YGets[k].tag = Tag(p, selY)
    BY DEF YGets, Command
  <2>2. QED  BY <1>2, <2>1, CommandSets, TagsKept DEF ScaleY
<1>3. CASE ScaleV
  <2>1. \A k \in DOMAIN VGets :
          \/ VGets[k].buf = <<"V0", selCr>> /\ VGets[k].tag = Tag("U0", selCr)
          \/ VGets[k].buf = <<"V1", selCr>> /\ VGets[k].tag = Tag("U1", selCr)
          \/ VGets[k].buf \in {<<"U0", selCr>>, <<"U1", selCr>>}
    BY DEF VGets, Command
  <2>2. QED  BY <1>3, <2>1, CommandSets, TagsKept DEF ScaleV
<1>4. CASE Convert
  <2>1. \A k \in DOMAIN Puts : Puts[k].buf \in {<<"O0", lineOut>>, <<"O1", lineOut>>}
    BY DEF Puts, Command
  <2>2. QED  BY <1>4, <2>1, CommandSets, TagsKept DEF Convert
<1>5. ASSUME dma' \subseteq dma, UNCHANGED stray  PROVE  InputTagged'
  BY <1>5 DEF InputTagged, Tag
<1>6. CASE \E d \in dma : Complete(d)
  BY <1>5, <1>6 DEF Complete
<1>7. CASE \/ Await("waitY", "Y0", "Y1", selY, "scaleY")
           \/ Await("waitU", "U0", "U1", selCr, "scaleU")
           \/ Await("waitV", "V0", "V1", selCr, "scaleV")
           \/ Await("waitOut", "O0", "O1", lineOut, "convert")
           \/ Await("waitLast", "O0", "O1", Flip(lineOut), "ready")
           \/ ScaleU \/ NextFrame \/ UNCHANGED vars
  BY <1>5, <1>7 DEF Await, ScaleU, NextFrame, vars
<1>8. QED  BY <1>1, <1>2, <1>3, <1>4, <1>6, <1>7 DEF Next

LEMMA StepWaited ==
  ASSUME InputWaited, [Next]_vars
  PROVE  InputWaited'
<1>1. CASE BeginFrame \/ ScaleY \/ ScaleV \/ Convert \/ NextFrame
  BY <1>1 DEF BeginFrame, ScaleY, ScaleV, Convert, NextFrame, InputWaited
<1>2. CASE \E d \in dma : Complete(d)
  BY <1>2 DEF Complete, InputWaited, Waited, Tag
<1>3. CASE \/ Await("waitY", "Y0", "Y1", selY, "scaleY")
           \/ Await("waitOut", "O0", "O1", lineOut, "convert")
           \/ Await("waitLast", "O0", "O1", Flip(lineOut), "ready")
  BY <1>3 DEF Await, InputWaited, Waited, Tag
<1>4. CASE \/ Await("waitU", "U0", "U1", selCr, "scaleU")
           \/ Await("waitV", "V0", "V1", selCr, "scaleV")
  BY <1>4 DEF Await, InputWaited, Waited, Tag
<1>5. CASE ScaleU \/ UNCHANGED vars
  BY <1>5 DEF ScaleU, vars, InputWaited, Waited, Tag
<1>6. QED  BY <1>1, <1>2, <1>3, <1>4, <1>5 DEF Next

-----------------------------------------------------------------------------
(* The expected lines over a step.                                         *)

LEMMA StepLines ==
  ASSUME RInv, [Next]_vars, NEW p \in Inputs, NEW i \in {0, 1},
         InLoop', p \in {"Y0", "U0", "V0"} \/ ~noscale',
         InLoop /\ (p \in {"Y0", "U0", "V0"} \/ ~noscale) => Coming(p, i, Want(p, i)),
         pc = "scaleV" /\ p \notin {"Y0", "Y1"} => \A d \in dma : d.buf # <<p, selCr>>
  PROVE  Coming(p, i, Want(p, i))'
<1> USE DEF RInv
<1>1. /\ h \in Nat /\ line \in {0, 1} /\ selY \in {0, 1} /\ selCr \in {0, 1}
      /\ lineOut \in {0, 1} /\ ls \in [Buffers -> Data]
      /\ p \in {"Y0", "Y1", "U0", "U1", "V0", "V1"} /\ <<p, i>> \in Buffers
  BY PipelineAssumption DEF PipelineTypeOK, Inputs, Buffers, Planes
<1>2. pc # "begin" /\ ~NextFrame => Coming(p, i, Want(p, i))
  <2>1. SUFFICES ASSUME pc # "begin", ~NextFrame  PROVE  InLoop /\ noscale' = noscale
    OBVIOUS
  <2>2. QED
    BY <2>1 DEF Next, Complete, BeginFrame, Await, ScaleY, ScaleU, ScaleV, Convert, vars, InLoop,
                PCs
<1>3. CASE BeginFrame
  <2>1. dma = {} /\ frame' = frame /\ Issue(FirstGets)
    BY <1>3, FirstCommands DEF BeginFrame
  <2>2. Want(p, i)' = i
    BY <1>1, <1>3 DEF BeginFrame, Want, RowY, PairV
  <2>3. \A d \in dma' \ dma :
          d.buf = <<p, i>> => d.kind = "get" /\ d.frame = frame' /\ d.row = i
    <3>1. SUFFICES ASSUME NEW d \in dma' \ dma, d.buf = <<p, i>>
                   PROVE  d.kind = "get" /\ d.frame = frame' /\ d.row = i
      OBVIOUS
    <3>2. PICK k \in DOMAIN FirstGets :
            /\ d.kind = FirstGets[k].kind /\ d.buf = FirstGets[k].buf
            /\ d.row = FirstGets[k].row /\ d.frame = frame
      BY <2>1, IssueFacts
    <3>3. PICK q \in Planes, j \in {0, 1} : FirstGets[k] = Command("get", q, j, Tag(q, j), j)
      BY FirstCommands
    <3>4. QED  BY <2>1, <3>1, <3>2, <3>3 DEF Command
  <2>4. \E d \in dma' : d.buf = <<p, i>>
    <3>1. PICK k \in DOMAIN FirstGets : FirstGets[k].buf = <<p, i>>
      BY FirstCommands
    <3>2. QED  BY <2>1, <3>1, IssueFacts
  <2>5. QED  BY <2>1, <2>2, <2>3, <2>4, LineFetched
<1>4. CASE ScaleY
  <2>1. /\ pc = "scaleY" /\ pc' = (IF line = 0 THEN "waitY" ELSE "waitU")
        /\ selY' = 1 - selY /\ line' = 1 - line /\ Issue(YGets)
        /\ UNCHANGED <<frame, h, selCr, noscale, ls>>
    BY <1>4, CommandSets DEF ScaleY, Flip
  <2>2. \A k \in DOMAIN YGets :
          /\ YGets[k].buf \in {<<"Y0", selY>>, <<"Y1", selY>>}
          /\ YGets[k].kind = "get" /\ YGets[k].row = 2 * h + line + 2
    BY DEF YGets, Command
  <2>3. CASE p \in {"Y0", "Y1"} /\ i = selY
    <3>1. Want(p, i)' = 2 * h + line + 2
      BY <1>1, <2>1, <2>3 DEF Want, RowY
    <3>2. \A d \in dma : d.buf # <<p, i>>
      BY <2>1, <2>3, WaitedArrived
    <3>3. \E k \in DOMAIN YGets : YGets[k].buf = <<p, i>>
      BY <2>1, <2>3 DEF YGets, Command
    <3>4. \A d \in dma' \ dma : d.kind = "get" /\ d.frame = frame' /\ d.row = Want(p, i)'
      BY <2>1, <2>2, <3>1, IssueFacts
    <3>5. \E d \in dma' : d.buf = <<p, i>>
      BY <2>1, <3>3, IssueFacts
    <3>6. QED  BY <3>2, <3>4, <3>5, LineFetched
  <2>4. CASE ~(p \in {"Y0", "Y1"} /\ i = selY)
    <3>1. Want(p, i)' = Want(p, i)
      BY <1>1, <2>1, <2>4 DEF Want, RowY, PairV
    <3>2. dma \subseteq dma' /\ \A d \in dma' \ dma : d.buf # <<p, i>>
      BY <2>1, <2>2, <2>4, IssueFacts
    <3>3. Coming(p, i, Want(p, i))
      BY <1>2, <2>1 DEF NextFrame
    <3>4. QED  BY <2>1, <3>1, <3>2, <3>3, LineKept
  <2>5. QED  BY <2>3, <2>4
<1>5. CASE ScaleV
  <2>1. /\ pc = "scaleV" /\ pc' = "waitOut" /\ selCr' = 1 - selCr /\ Issue(VGets)
        /\ UNCHANGED <<frame, h, line, selY, noscale, ls>>
    BY <1>5, CommandSets DEF ScaleV, Flip
  <2>2. \A k \in DOMAIN VGets :
          /\ VGets[k].buf \in {<<"V0", selCr>>, <<"V1", selCr>>, <<"U0", selCr>>, <<"U1", selCr>>}
          /\ VGets[k].kind = "get" /\ VGets[k].row = h + 2
    BY DEF VGets, Command
  <2>3. CASE p \notin {"Y0", "Y1"} /\ i = selCr
    <3>1. Want(p, i)' = h + 2
      BY <1>1, <2>1, <2>3 DEF Want, PairV
    <3>2. \A d \in dma : d.buf # <<p, i>>
      BY <2>1, <2>3
    <3>3. \E k \in DOMAIN VGets : VGets[k].buf = <<p, i>>
      <4>1. /\ VGets[1].buf = <<"V0", selCr>> /\ 1 \in DOMAIN VGets
            /\ VGets[2].buf = <<"U0", selCr>> /\ 2 \in DOMAIN VGets
        BY DEF VGets, Command
      <4>2. ~noscale => /\ VGets[3].buf = <<"V1", selCr>> /\ 3 \in DOMAIN VGets
                        /\ VGets[4].buf = <<"U1", selCr>> /\ 4 \in DOMAIN VGets
        BY DEF VGets, Command
      <4>3. QED  BY <1>1, <2>1, <2>3, <4>1, <4>2
    <3>4. \A d \in dma' \ dma : d.kind = "get" /\ d.frame = frame' /\ d.row = Want(p, i)'
      BY <2>1, <2>2, <3>1, IssueFacts
    <3>5. \E d \in dma' : d.buf = <<p, i>>
      BY <2>1, <3>3, IssueFacts
    <3>6. QED  BY <3>2, <3>4, <3>5, LineFetched
  <2>4. CASE ~(p \notin {"Y0", "Y1"} /\ i = selCr)
    <3>1. Want(p, i)' = Want(p, i)
      BY <1>1, <2>1, <2>4 DEF Want, RowY, PairV
    <3>2. dma \subseteq dma' /\ \A d \in dma' \ dma : d.buf # <<p, i>>
      BY <1>1, <2>1, <2>2, <2>4, IssueFacts
    <3>3. Coming(p, i, Want(p, i))
      BY <1>2, <2>1 DEF NextFrame
    <3>4. QED  BY <2>1, <3>1, <3>2, <3>3, LineKept
  <2>5. QED  BY <2>3, <2>4
<1>6. CASE Convert
  <2>1. /\ pc = "convert" /\ pc' = "waitY" /\ h' = h + 1 /\ Issue(Puts)
        /\ UNCHANGED <<frame, line, selY, selCr, noscale>>
        /\ ls'[<<p, i>>] = ls[<<p, i>>]
    BY <1>1, <1>6, CommandSets DEF Convert, InLoop
  <2>2. \A k \in DOMAIN Puts : Puts[k].buf # <<p, i>>
    BY <1>1 DEF Puts, Command
  <2>3. Want(p, i)' = Want(p, i)
    BY <1>1, <2>1 DEF Want, RowY, PairV
  <2>4. dma \subseteq dma' /\ \A d \in dma' \ dma : d.buf # <<p, i>>
    BY <2>1, <2>2, IssueFacts
  <2>5. Coming(p, i, Want(p, i))
    BY <1>2, <2>1 DEF NextFrame
  <2>6. QED  BY <2>1, <2>3, <2>4, <2>5, LineKept
<1>7. ASSUME UNCHANGED <<frame, h, line, selY, selCr, ls, dma>>,
             pc' = pc \/ <<pc, pc'>> \in {<<"waitY", "scaleY">>, <<"waitU", "scaleU">>,
                                         <<"scaleU", "waitV">>, <<"waitV", "scaleV">>,
                                         <<"waitOut", "convert">>}
      PROVE  Coming(p, i, Want(p, i))'
  <2>1. Want(p, i)' = Want(p, i) /\ pc # "begin" /\ ~NextFrame
    BY <1>7 DEF Want, RowY, PairV, NextFrame, InLoop
  <2>2. QED  BY <1>2, <1>7, <2>1, LineKept
<1>8. CASE \/ Await("waitY", "Y0", "Y1", selY, "scaleY")
           \/ Await("waitU", "U0", "U1", selCr, "scaleU")
           \/ Await("waitV", "V0", "V1", selCr, "scaleV")
           \/ Await("waitOut", "O0", "O1", lineOut, "convert")
           \/ ScaleU \/ UNCHANGED vars
  BY <1>7, <1>8 DEF Await, ScaleU, vars
<1>9. ASSUME NEW d \in dma, Complete(d)  PROVE  Coming(p, i, Want(p, i))'
  <2>1. Want(p, i)' = Want(p, i) /\ pc # "begin" /\ ~NextFrame
    BY <1>9 DEF Want, RowY, PairV, NextFrame, Complete
  <2>2. QED  BY <1>1, <1>2, <1>9, <2>1, LineArrives
<1>10. CASE NextFrame \/ Await("waitLast", "O0", "O1", Flip(lineOut), "ready")
  BY <1>10 DEF NextFrame, Await, InLoop
<1>11. QED  BY <1>3, <1>4, <1>5, <1>6, <1>8, <1>9, <1>10 DEF Next

LEMMA StepRInv ==
  ASSUME (InOrder /\ Ordered) \/ Drained, RInv, [Next]_vars
  PROVE  RInv'
<1>1. PipelineTypeOK' /\ (InLoop => h < Pairs)'
  BY StepType DEF RInv
<1>2. InputTagged' /\ InputWaited'
  BY StepTagged, StepWaited DEF RInv
<1>3. LinesComing'
  <2>1. \A p \in Lines : /\ p \in Inputs
                         /\ p \in {"Y0", "U0", "V0"} <=> p \in {"Y0", "V0"}
                         /\ p \notin {"Y0", "Y1"} => p \in {"V0", "V1"}
    BY DEF Lines, Inputs
  <2>2. pc = "scaleV" => \A p \in {"V0", "V1"} : \A d \in dma : d.buf # <<p, selCr>>
    BY WaitedArrived DEF RInv
  <2>3. \A p \in Lines, i \in {0, 1} :
          InLoop /\ (p \in {"Y0", "V0"} \/ ~noscale) => Coming(p, i, Want(p, i))
    BY DEF RInv, LinesComing
  <2>4. SUFFICES ASSUME NEW p \in Lines, NEW i \in {0, 1},
                        InLoop', p \in {"Y0", "V0"} \/ ~noscale'
                 PROVE  Coming(p, i, Want(p, i))'
    BY DEF LinesComing
  <2>5. QED  BY <2>1, <2>2, <2>3, <2>4, StepLines
<1>4. (pc = "begin" => dma = {})'
  <2>1. CASE \E d \in dma : Complete(d)
    BY <2>1 DEF RInv, Complete
  <2>2. CASE NextFrame
    BY <2>2 DEF NextFrame, Ordered
  <2>3. CASE BeginFrame \/ ScaleY \/ ScaleU \/ ScaleV \/ Convert
    BY <2>3 DEF BeginFrame, ScaleY, ScaleU, ScaleV, Convert
  <2>4. CASE \/ Await("waitY", "Y0", "Y1", selY, "scaleY")
             \/ Await("waitU", "U0", "U1", selCr, "scaleU")
             \/ Await("waitV", "V0", "V1", selCr, "scaleV")
             \/ Await("waitOut", "O0", "O1", lineOut, "convert")
             \/ Await("waitLast", "O0", "O1", Flip(lineOut), "ready")
    BY <2>4 DEF Await
  <2>5. CASE UNCHANGED vars
    BY <2>5 DEF RInv, vars
  <2>6. QED  BY <2>1, <2>2, <2>3, <2>4, <2>5 DEF Next
<1>5. QED  BY <1>1, <1>2, <1>3, <1>4 DEF RInv

LEMMA InitRInv == Init => RInv
<1>1. Init => PipelineTypeOK
  <2>1. Init => ls \in [Buffers -> Data] /\ mem \in [{0, 1} \X Rows -> Data]
    BY DEF Init, Data
  <2>2. QED  BY <2>1, PipelineAssumption DEF Init, PipelineTypeOK, PCs
<1>2. QED
  BY <1>1 DEF Init, RInv, InLoop, LinesComing, InputTagged, InputWaited

(* Every input buffer of Y and V holds, or is about to be sent, the line   *)
(* it is next scaled from and no other, for every size of frame: if the    *)
(* transfers complete in the order of their issue, and in every order if   *)
(* those of a frame are over before the next RUN.                          *)
THEOREM LinesAsExpected == ASSUME InOrder \/ Drained PROVE Spec => []RInv
<1>1. CASE Drained
  <2>1. RInv /\ [Next]_vars => RInv'
    BY <1>1, StepRInv
  <2>2. QED  BY InitRInv, <2>1, PTL DEF Spec
<1>2. CASE InOrder
  <2>1. RInv /\ Ordered /\ [Next]_vars => RInv' /\ Ordered'
    BY <1>2, StepRInv, StepOrder DEF RInv
  <2>2. QED  BY InitRInv, InitOrder, <2>1, PTL DEF Spec
<1>3. QED  BY <1>1, <1>2

LEMMA LumaFromInv ==
  ASSUME RInv
  PROVE  LumaReady
<1>1. SUFFICES ASSUME pc = "scaleY"
               PROVE  BothReady("Y0", "Y1", selY, 2 * h + line)
  BY DEF LumaReady
<1>2. selY \in {0, 1} /\ InLoop /\ {"Y0", "Y1"} \subseteq Lines
  BY <1>1 DEF RInv, PipelineTypeOK, InLoop, PCs, Lines
<1>3. \A d \in dma : d.buf \notin {<<"Y0", selY>>, <<"Y1", selY>>}
  BY <1>1, WaitedArrived DEF RInv
<1>4. ASSUME NEW p \in {"Y0", "Y1"}, p = "Y0" \/ ~noscale
      PROVE  Ready(p, selY, 2 * h + line)
  <2>1. Want(p, selY) = 2 * h + line
    BY <1>1, <1>2, PipelineAssumption DEF Want, RowY, RInv, PipelineTypeOK
  <2>2. Coming(p, selY, Want(p, selY))
    BY <1>1, <1>2, <1>4 DEF RInv, LinesComing
  <2>3. QED  BY <1>3, <2>1, <2>2 DEF Coming, Ready
<1>5. QED  BY <1>4 DEF BothReady

LEMMA VFromInv ==
  ASSUME RInv
  PROVE  VReady
<1>1. SUFFICES ASSUME pc = "scaleV"
               PROVE  BothReady("V0", "V1", selCr, h)
  BY DEF VReady
<1>2. selCr \in {0, 1} /\ InLoop /\ {"V0", "V1"} \subseteq Lines
  BY <1>1 DEF RInv, PipelineTypeOK, InLoop, PCs, Lines
<1>3. \A d \in dma : d.buf \notin {<<"V0", selCr>>, <<"V1", selCr>>}
  BY <1>1, WaitedArrived DEF RInv
<1>4. ASSUME NEW p \in {"V0", "V1"}, p = "V0" \/ ~noscale
      PROVE  Ready(p, selCr, h)
  <2>1. Want(p, selCr) = h
    BY <1>1, <1>2, <1>4, PipelineAssumption DEF Want, PairV, RInv, PipelineTypeOK
  <2>2. Coming(p, selCr, Want(p, selCr))
    BY <1>1, <1>2, <1>4 DEF RInv, LinesComing
  <2>3. QED  BY <1>3, <2>1, <2>2 DEF Coming, Ready
<1>5. QED  BY <1>4 DEF BothReady

(* Luma is scaled only from the lines of its own row, completely arrived.  *)
THEOREM LumaFromItsLines == ASSUME InOrder \/ Drained PROVE Spec => []LumaReady
<1>1. RInv => LumaReady
  BY LumaFromInv
<1>2. QED  BY <1>1, LinesAsExpected, PTL

(* V is scaled only from the lines of its own pair, completely arrived,    *)
(* although its refills are issued under the tags of U.                    *)
THEOREM VFromItsLines == ASSUME InOrder \/ Drained PROVE Spec => []VReady
<1>1. RInv => VReady
  BY VFromInv
<1>2. QED  BY <1>1, LinesAsExpected, PTL

-----------------------------------------------------------------------------
(* U, when commands complete in the order of their issue.                  *)

(* A U command is in its own tag group or in that of V.                    *)
UTagged ==
  \A d \in dma : \A i \in {0, 1} :
    /\ d.buf = <<"U0", i>> => d.tag \in {Tag("U0", i), Tag("V0", i)}
    /\ d.buf = <<"U1", i>> => d.tag \in {Tag("U1", i), Tag("V1", i)}

Astray(d, i) ==
  \/ d.buf = <<"U0", i>> /\ d.tag # Tag("U0", i)
  \/ d.buf = <<"U1", i>> /\ d.tag # Tag("U1", i)

(* One in that of V is followed by the get of a Y line.                    *)
Followed(i) ==
  \A d \in dma : Astray(d, i) =>
    \E e \in dma : e.buf = <<"Y0", 0>> /\ d.no < e.no

FirstRow == pc \in {"waitY", "scaleY"} /\ line = 0
ChromaNext == \/ pc \in {"waitY", "scaleY"} /\ line = 1
              \/ pc \in {"waitU", "scaleU", "waitV", "scaleV"}

(* The Y line is waited for before U is, so that none is left then.        *)
UInTime ==
  /\ InLoop => selY = line /\ (pc \in {"waitY", "scaleY"} \/ line = 0)
  /\ FirstRow \/ pc \in {"waitOut", "convert"} => Followed(selCr)
  /\ ChromaNext => Followed(Flip(selCr)) /\ \A d \in dma : ~Astray(d, selCr)

UComing ==
  \A p \in {"U0", "U1"}, i \in {0, 1} :
    InLoop /\ (p = "U0" \/ ~noscale) => Coming(p, i, Want(p, i))

UInv == UTagged /\ UInTime /\ UComing

LEMMA StepUTagged ==
  ASSUME UTagged, PipelineTypeOK, [Next]_vars
  PROVE  UTagged'
<1>1. ASSUME NEW commands, Issue(commands), UNCHANGED stray,
             \A k \in DOMAIN commands : \A i \in {0, 1} :
               /\ commands[k].buf = <<"U0", i>> => commands[k].tag \in {Tag("U0", i), Tag("V0", i)}
               /\ commands[k].buf = <<"U1", i>> => commands[k].tag \in {Tag("U1", i), Tag("V1", i)}
      PROVE  UTagged'
  <2>1. \A p, i : Tag(p, i)' = Tag(p, i)
    BY <1>1 DEF Tag
  <2>2. \A d \in dma' : \/ d \in dma
                        \/ \E k \in DOMAIN commands :
                             d.buf = commands[k].buf /\ d.tag = commands[k].tag
    BY <1>1, IssueAdds
  <2>3. ASSUME NEW d \in dma', NEW i \in {0, 1}
        PROVE  /\ d.buf = <<"U0", i>> => d.tag \in {Tag("U0", i), Tag("V0", i)}
               /\ d.buf = <<"U1", i>> => d.tag \in {Tag("U1", i), Tag("V1", i)}
    <3>1. CASE d \in dma
      BY <2>3, <3>1 DEF UTagged
    <3>2. CASE d \notin dma
      BY <1>1, <2>2, <2>3, <3>2
    <3>3. QED  BY <3>1, <3>2
  <2>4. QED  BY <2>1, <2>3 DEF UTagged
<1>2. CASE BeginFrame
  <2>1. Issue(FirstGets) /\ UNCHANGED stray
    BY <1>2, FirstCommands DEF BeginFrame
  <2>2. \A k \in DOMAIN FirstGets : \E p \in Planes, i \in {0, 1} :
          FirstGets[k].buf = <<p, i>> /\ FirstGets[k].tag = Tag(p, i)
    BY FirstCommands DEF Command
  <2>3. QED  BY <1>1, <2>1, <2>2
<1>3. CASE ScaleY
  <2>1. \A k \in DOMAIN YGets : YGets[k].buf \in {<<"Y0", selY>>, <<"Y1", selY>>}
    BY DEF YGets, Command
  <2>2. QED  BY <1>1, <1>3, <2>1, CommandSets DEF ScaleY
<1>4. CASE ScaleV
  <2>1. \A k \in DOMAIN VGets :
          \/ VGets[k].buf \in {<<"V0", selCr>>, <<"V1", selCr>>}
          \/ VGets[k].buf = <<"U0", selCr>> /\ VGets[k].tag = Tag("V0", selCr)
          \/ VGets[k].buf = <<"U1", selCr>> /\ VGets[k].tag = Tag("V1", selCr)
    BY DEF VGets, Command
  <2>2. QED  BY <1>1, <1>4, <2>1, CommandSets DEF ScaleV
<1>5. CASE Convert
  <2>1. \A k \in DOMAIN Puts : Puts[k].buf \in {<<"O0", lineOut>>, <<"O1", lineOut>>}
    BY DEF Puts, Command
  <2>2. QED  BY <1>1, <1>5, <2>1, CommandSets DEF Convert
<1>6. ASSUME dma' \subseteq dma, UNCHANGED stray  PROVE  UTagged'
  BY <1>6 DEF UTagged, Tag
<1>7. CASE \E d \in dma : Complete(d)
  BY <1>6, <1>7 DEF Complete
<1>8. CASE \/ Await("waitY", "Y0", "Y1", selY, "scaleY")
           \/ Await("waitU", "U0", "U1", selCr, "scaleU")
           \/ Await("waitV", "V0", "V1", selCr, "scaleV")
           \/ Await("waitOut", "O0", "O1", lineOut, "convert")
           \/ Await("waitLast", "O0", "O1", Flip(lineOut), "ready")
           \/ ScaleU \/ NextFrame \/ UNCHANGED vars
  BY <1>6, <1>8 DEF Await, ScaleU, NextFrame, vars
<1>9. QED  BY <1>2, <1>3, <1>4, <1>5, <1>7, <1>8 DEF Next

(* When U is waited for, none of it is left in the tag group of V.         *)
LEMMA UArrived ==
  ASSUME PipelineTypeOK, InputWaited, UInTime, pc \in {"scaleU", "waitV", "scaleV"}
  PROVE  \A d \in dma : d.buf \notin {<<"U0", selCr>>, <<"U1", selCr>>}
BY DEF PipelineTypeOK, InputWaited, Waited, UInTime, ChromaNext, Astray

LEMMA FollowedKept ==
  ASSUME NEW i \in {0, 1}, Followed(i), dma \subseteq dma',
         \A d \in dma' \ dma : ~Astray(d, i)
  PROVE  Followed(i)'
<1>1. \A d : Astray(d, i)' <=> Astray(d, i)
  BY DEF Astray, Tag
<1>2. QED  BY <1>1 DEF Followed

(* Only the refill of chroma issues U under other tags.                    *)
LEMMA NoneAstray ==
  ASSUME NEW commands, Issue(commands), NEW i \in {0, 1},
         \A k \in DOMAIN commands :
           /\ commands[k].buf = <<"U0", i>> => commands[k].tag = Tag("U0", i)
           /\ commands[k].buf = <<"U1", i>> => commands[k].tag = Tag("U1", i)
  PROVE  dma \subseteq dma' /\ \A d \in dma' \ dma : ~Astray(d, i)
BY IssueFacts DEF Astray

(* Commands that complete in order are followed as long as they are there. *)
LEMMA FollowedOn ==
  ASSUME InOrder, PipelineTypeOK, NEW i \in {0, 1}, Followed(i), NEW d \in dma, Complete(d)
  PROVE  Followed(i)'
<1>1. dma' = dma \ {d} /\ \A e \in dma : d.no <= e.no
  BY DEF Complete
<1>2. \A e : Astray(e, i)' <=> Astray(e, i)
  BY DEF Astray, Tag
<1>3. ASSUME NEW c \in dma', Astray(c, i)
      PROVE  \E e \in dma' : e.buf = <<"Y0", 0>> /\ c.no < e.no
  <2>1. PICK e \in dma : e.buf = <<"Y0", 0>> /\ c.no < e.no
    BY <1>1, <1>3 DEF Followed
  <2>2. c \in dma /\ c.no \in Nat /\ d.no \in Nat /\ d.no <= c.no
    BY <1>1 DEF PipelineTypeOK, Commands
  <2>3. e # d
    BY <2>1, <2>2
  <2>4. QED  BY <1>1, <2>1, <2>3
<1>4. QED  BY <1>2, <1>3 DEF Followed

LEMMA StepInTime ==
  ASSUME InOrder, RInv, Ordered, UInTime, [Next]_vars
  PROVE  UInTime'
<1>1. /\ PipelineTypeOK /\ line \in {0, 1} /\ selY \in {0, 1} /\ selCr \in {0, 1}
      /\ Flip(selCr) \in {0, 1} /\ Flip(Flip(selCr)) = selCr
  BY DEF RInv, PipelineTypeOK, Flip
<1>2. CASE BeginFrame
  <2>1. Issue(FirstGets) /\ dma = {} /\ selCr' = 0 /\ pc' = "waitY" /\ line' = 0 /\ selY' = 0
    BY <1>2, FirstCommands DEF BeginFrame, RInv
  <2>2. \A k \in DOMAIN FirstGets : \E p \in Planes, i \in {0, 1} :
          FirstGets[k].buf = <<p, i>> /\ FirstGets[k].tag = Tag(p, i)
    BY FirstCommands DEF Command
  <2>3. Followed(0)'
    <3>1. Followed(0)
      BY <2>1 DEF Followed
    <3>2. dma \subseteq dma' /\ \A d \in dma' \ dma : ~Astray(d, 0)
      BY <2>1, <2>2, NoneAstray
    <3>3. QED  BY <3>1, <3>2, FollowedKept
  <2>4. Followed(selCr)'
    BY <2>1, <2>3 DEF Followed, Astray, Tag
  <2>5. QED  BY <2>1, <2>4 DEF UInTime, FirstRow, ChromaNext, InLoop
<1>3. CASE ScaleY
  <2>1. /\ pc = "scaleY" /\ pc' = (IF line = 0 THEN "waitY" ELSE "waitU")
        /\ selY' = 1 - selY /\ line' = 1 - line /\ selCr' = selCr /\ Issue(YGets)
        /\ selY = line /\ stray' = stray
    BY <1>3, CommandSets DEF ScaleY, Flip, UInTime, InLoop, PCs
  <2>2. \A i \in {0, 1} : dma \subseteq dma' /\ \A d \in dma' \ dma : ~Astray(d, i)
    <3>1. \A k \in DOMAIN YGets : YGets[k].buf \in {<<"Y0", selY>>, <<"Y1", selY>>}
      BY DEF YGets, Command
    <3>2. QED  BY <2>1, <3>1, NoneAstray
  <2>3. \A d \in dma' : ~Astray(d, selCr)
    <3>1. CASE line = 1
      <4>1. \A d \in dma : ~Astray(d, selCr)
        BY <2>1, <3>1 DEF UInTime, ChromaNext
      <4>2. QED  BY <1>1, <2>2, <4>1
    <3>2. CASE line = 0
      <4>1. Followed(selCr)
        BY <2>1, <3>2 DEF UInTime, FirstRow
      <4>2. \A d \in dma : d.buf # <<"Y0", 0>>
        BY <1>1, <2>1, <3>2, WaitedArrived DEF RInv
      <4>3. QED  BY <1>1, <2>2, <4>1, <4>2 DEF Followed
    <3>3. QED  BY <1>1, <3>1, <3>2
  <2>4. Followed(Flip(selCr))'
    <3>1. CASE line = 1
      <4>1. Followed(Flip(selCr))
        BY <2>1, <3>1 DEF UInTime, ChromaNext
      <4>2. PICK i \in {0, 1} : i = Flip(selCr)
        BY <1>1
      <4>3. Followed(i)'
        BY <2>2, <4>1, <4>2, FollowedKept
      <4>4. Flip(selCr)' = i
        BY <2>1, <4>2 DEF Flip
      <4>5. QED  BY <4>3, <4>4 DEF Followed, Astray, Tag
    <3>2. CASE line = 0
      <4>1. PICK n \in 0 .. 12 : DOMAIN YGets = 1 .. n /\ 1 \in 1 .. n
        <5>1. DOMAIN YGets = 1 .. 1 \/ DOMAIN YGets = 1 .. 2
          BY CommandSets
        <5>2. 1 \in 0 .. 12 /\ 2 \in 0 .. 12
          OBVIOUS
        <5>3. QED  BY <5>1, <5>2
      <4>2. YGets[1].buf = <<"Y0", 0>>
        BY <2>1, <3>2 DEF YGets, Command
      <4>3. PICK e \in dma' : e.no = issued + 1 /\ e.buf = <<"Y0", 0>>
        <5>1. \A k \in 1 .. n : \E d \in dma' :
                d.no = issued + k /\ d.buf = YGets[k].buf /\ d.tag = YGets[k].tag
          BY <1>1, <2>1, <4>1, IssueOrder
        <5>2. QED  BY <4>1, <4>2, <5>1
      <4>4. \A d \in dma : d.no \in Nat /\ d.no <= issued /\ issued \in Nat
        BY <1>1 DEF PipelineTypeOK, Commands, Ordered
      <4>5. \A i \in {0, 1} : \A d \in dma' : Astray(d, i) => d.no < e.no
        BY <2>2, <4>3, <4>4
      <4>6. \A i \in {0, 1} : Followed(i)'
        BY <4>3, <4>5 DEF Followed, Astray, Tag
      <4>7. PICK i \in {0, 1} : i = Flip(selCr)'
        BY <1>1, <2>1 DEF Flip
      <4>8. QED  BY <4>6, <4>7 DEF Followed, Astray, Tag
    <3>3. QED  BY <1>1, <3>1, <3>2
  <2>5. (\A d \in dma : ~Astray(d, selCr))'
    BY <2>1, <2>3 DEF Astray, Tag
  <2>6. QED  BY <1>1, <2>1, <2>4, <2>5 DEF UInTime, FirstRow, InLoop
<1>4. CASE ScaleV
  <2>1. /\ pc = "scaleV" /\ pc' = "waitOut" /\ selCr' = Flip(selCr) /\ Issue(VGets)
        /\ UNCHANGED <<selY, line, stray>> /\ selY = line /\ line = 0
    BY <1>4, CommandSets DEF ScaleV, UInTime, InLoop, PCs
  <2>2. PICK i \in {0, 1} : i = Flip(selCr) /\ i # selCr
    BY <1>1 DEF Flip
  <2>3. Followed(i)
    BY <2>1, <2>2 DEF UInTime, ChromaNext
  <2>4. \A k \in DOMAIN VGets : VGets[k].buf \notin {<<"U0", i>>, <<"U1", i>>}
    BY <2>2 DEF VGets, Command
  <2>5. dma \subseteq dma' /\ \A d \in dma' \ dma : ~Astray(d, i)
    BY <2>1, <2>2, <2>4, NoneAstray
  <2>6. Followed(i)'
    BY <2>3, <2>5, FollowedKept
  <2>7. Followed(selCr)'
    BY <2>1, <2>2, <2>6 DEF Followed, Astray, Tag
  <2>8. QED  BY <2>1, <2>7 DEF UInTime, FirstRow, ChromaNext, InLoop
<1>5. CASE Convert
  <2>1. /\ pc = "convert" /\ pc' \in {"waitY", "waitLast"} /\ Issue(Puts)
        /\ UNCHANGED <<selY, selCr, line, stray>> /\ selY = line /\ line = 0
    BY <1>5, CommandSets DEF Convert, UInTime, InLoop, PCs
  <2>2. Followed(selCr)
    BY <2>1 DEF UInTime
  <2>3. \A k \in DOMAIN Puts : Puts[k].buf \in {<<"O0", lineOut>>, <<"O1", lineOut>>}
    BY DEF Puts, Command
  <2>4. dma \subseteq dma' /\ \A d \in dma' \ dma : ~Astray(d, selCr)
    BY <1>1, <2>1, <2>3, NoneAstray
  <2>5. PICK i \in {0, 1} : i = selCr
    BY <1>1
  <2>6. Followed(i)'
    BY <2>2, <2>4, <2>5, FollowedKept
  <2>7. Followed(selCr)'
    BY <2>1, <2>5, <2>6 DEF Followed, Astray, Tag
  <2>8. QED  BY <2>1, <2>7 DEF UInTime, FirstRow, ChromaNext, InLoop
<1>6. ASSUME NEW d \in dma, Complete(d)  PROVE  UInTime'
  <2>1. UNCHANGED <<pc, line, selY, selCr>> /\ dma' \subseteq dma
    BY <1>6 DEF Complete
  <2>2. Followed(selCr) => Followed(selCr)'
    <3>1. PICK i \in {0, 1} : i = selCr
      BY <1>1
    <3>2. Followed(i) => Followed(i)'
      BY <1>1, <1>6, FollowedOn
    <3>3. QED  BY <2>1, <3>1, <3>2 DEF Followed, Astray, Tag
  <2>3. Followed(Flip(selCr)) => Followed(Flip(selCr))'
    <3>1. PICK i \in {0, 1} : i = Flip(selCr) /\ i = Flip(selCr)'
      BY <1>1, <2>1 DEF Flip
    <3>2. Followed(i) => Followed(i)'
      BY <1>1, <1>6, FollowedOn
    <3>3. QED  BY <2>1, <3>1, <3>2 DEF Followed, Astray, Tag
  <2>4. (\A e \in dma : ~Astray(e, selCr)) => (\A e \in dma : ~Astray(e, selCr))'
    BY <2>1 DEF Astray, Tag
  <2>5. QED
    BY <2>1, <2>2, <2>3, <2>4 DEF UInTime, FirstRow, ChromaNext, InLoop
<1>7. ASSUME UNCHANGED <<line, selY, selCr, dma>>,
             <<pc, pc'>> \in {<<"waitY", "scaleY">>, <<"waitU", "scaleU">>, <<"scaleU", "waitV">>,
                              <<"waitV", "scaleV">>, <<"waitOut", "convert">>}
      PROVE  UInTime'
  <2>1. \A i : Followed(i)' <=> Followed(i)
    BY <1>7 DEF Followed, Astray, Tag
  <2>2. Flip(selCr)' = Flip(selCr)
    BY <1>7 DEF Flip
  <2>3. (Followed(selCr) => Followed(selCr)') /\ (Followed(Flip(selCr)) => Followed(Flip(selCr))')
    BY <1>7, <2>1, <2>2 DEF Followed, Astray, Tag
  <2>4. (\A e \in dma : ~Astray(e, selCr)) => (\A e \in dma : ~Astray(e, selCr))'
    BY <1>7 DEF Astray, Tag
  <2>5. QED
    BY <1>7, <2>3, <2>4 DEF UInTime, FirstRow, ChromaNext, InLoop, PCs
<1>8. CASE \/ Await("waitY", "Y0", "Y1", selY, "scaleY")
           \/ Await("waitU", "U0", "U1", selCr, "scaleU")
           \/ Await("waitV", "V0", "V1", selCr, "scaleV")
           \/ Await("waitOut", "O0", "O1", lineOut, "convert")
           \/ ScaleU
  BY <1>7, <1>8 DEF Await, ScaleU
<1>9. CASE NextFrame \/ Await("waitLast", "O0", "O1", Flip(lineOut), "ready")
  BY <1>9 DEF NextFrame, Await, UInTime, InLoop, FirstRow, ChromaNext
<1>10. CASE UNCHANGED vars
  BY <1>10 DEF vars, UInTime, InLoop, FirstRow, ChromaNext, Followed, Astray, Tag, Flip
<1>11. QED
  BY <1>2, <1>3, <1>4, <1>5, <1>6, <1>8, <1>9, <1>10 DEF Next

LEMMA StepUInv ==
  ASSUME InOrder, RInv, Ordered, UInv, [Next]_vars
  PROVE  UInv'
<1>1. UTagged' /\ UInTime'
  BY StepUTagged, StepInTime DEF UInv, RInv
<1>2. UComing'
  <2>1. \A p \in {"U0", "U1"} : /\ p \in Inputs
                                /\ p \in {"Y0", "U0", "V0"} <=> p = "U0"
    BY DEF Inputs
  <2>2. pc = "scaleV" => \A p \in {"U0", "U1"} : \A d \in dma : d.buf # <<p, selCr>>
    BY UArrived DEF RInv, UInv
  <2>3. \A p \in {"U0", "U1"}, i \in {0, 1} :
          InLoop /\ (p = "U0" \/ ~noscale) => Coming(p, i, Want(p, i))
    BY DEF UInv, UComing
  <2>4. SUFFICES ASSUME NEW p \in {"U0", "U1"}, NEW i \in {0, 1},
                        InLoop', p = "U0" \/ ~noscale'
                 PROVE  Coming(p, i, Want(p, i))'
    BY DEF UComing
  <2>5. p \in Inputs /\ (p \in {"Y0", "U0", "V0"} \/ ~noscale')
    BY <2>1, <2>4
  <2>6. InLoop /\ (p \in {"Y0", "U0", "V0"} \/ ~noscale) => Coming(p, i, Want(p, i))
    BY <2>1, <2>3, <2>4
  <2>7. pc = "scaleV" => \A d \in dma : d.buf # <<p, selCr>>
    BY <2>2, <2>4
  <2>8. QED  BY <2>4, <2>5, <2>6, <2>7, StepLines
<1>3. QED  BY <1>1, <1>2 DEF UInv

LEMMA InitUInv == Init => UInv
BY DEF Init, UInv, UTagged, UInTime, UComing, InLoop, FirstRow, ChromaNext

LEMMA UFromInv ==
  ASSUME RInv, UInv
  PROVE  UReady
<1>1. SUFFICES ASSUME pc = "scaleU"  PROVE  BothReady("U0", "U1", selCr, h)
  BY DEF UReady
<1>2. selCr \in {0, 1} /\ InLoop
  BY <1>1 DEF RInv, PipelineTypeOK, InLoop, PCs
<1>3. \A d \in dma : d.buf \notin {<<"U0", selCr>>, <<"U1", selCr>>}
  BY <1>1, UArrived DEF RInv, UInv
<1>4. ASSUME NEW p \in {"U0", "U1"}, p = "U0" \/ ~noscale
      PROVE  Ready(p, selCr, h)
  <2>1. Want(p, selCr) = h
    BY <1>1, <1>2, <1>4, PipelineAssumption DEF Want, PairV, RInv, PipelineTypeOK
  <2>2. Coming(p, selCr, Want(p, selCr))
    BY <1>2, <1>4 DEF UInv, UComing
  <2>3. QED  BY <1>3, <2>1, <2>2 DEF Coming, Ready
<1>5. QED  BY <1>4 DEF BothReady

(* U is scaled only from the lines of its own pair, completely arrived,    *)
(* for every size of frame and every value of the tag that is never        *)
(* initialised, although its refill is not in the tag groups waited for:   *)
(* commands that complete in order have it arrive before the Y line that   *)
(* was asked for after it.                                                 *)
THEOREM UFromItsLines == ASSUME InOrder PROVE Spec => []UReady
<1>1. Init => RInv /\ Ordered /\ UInv
  BY InitRInv, InitOrder, InitUInv
<1>2. RInv /\ Ordered /\ UInv /\ [Next]_vars => RInv' /\ Ordered' /\ UInv'
  BY StepRInv, StepOrder, StepUInv DEF RInv
<1>3. RInv /\ UInv => UReady
  BY UFromInv
<1>4. QED  BY <1>1, <1>2, <1>3, PTL DEF Spec

-----------------------------------------------------------------------------
(* Whole frames, when commands complete in the order of their issue.       *)

(* The rows converted so far are in main memory or on their way there, and *)
(* the buffers they go from hold them until they have gone.                *)
RowsComing ==
  /\ clean
  /\ \A d \in dma : d.kind = "put" =>
       /\ d.buf[1] \in {"O0", "O1"} /\ d.frame = frame /\ d.row \in 0 .. 2 * h - 1
       /\ ls[d.buf] = [frame |-> frame, row |-> d.row]
  /\ \A d \in dma : d.kind = "get" => d.buf[1] \notin {"O0", "O1"}
  /\ pc \in {"waitLast", "ready"} => h = Pairs
  /\ pc # "begin" => \A row \in 0 .. 2 * h - 1 :
       \/ mem[<<frame % 2, row>>] = [frame |-> frame, row |-> row]
       \/ \E d \in dma : d.kind = "put" /\ d.row = row

(* Gets do not disturb the rows.                                           *)
LEMMA RowsFetching ==
  ASSUME RowsComing, pc # "begin", pc' \notin {"waitLast", "ready"}, clean',
         UNCHANGED <<frame, h, ls, mem>>, NEW commands, Issue(commands),
         \A k \in DOMAIN commands :
           commands[k].kind = "get" /\ commands[k].buf[1] \notin {"O0", "O1"}
  PROVE  RowsComing'
<1>1. dma \subseteq dma'
  BY IssueFacts
<1>2. \A d \in dma' \ dma : d.kind = "get" /\ d.buf[1] \notin {"O0", "O1"}
  BY IssueFacts
<1>3. (\A d \in dma : d.kind = "put" =>
         /\ d.buf[1] \in {"O0", "O1"} /\ d.frame = frame /\ d.row \in 0 .. 2 * h - 1
         /\ ls[d.buf] = [frame |-> frame, row |-> d.row])'
  BY <1>1, <1>2 DEF RowsComing
<1>4. (\A d \in dma : d.kind = "get" => d.buf[1] \notin {"O0", "O1"})'
  BY <1>1, <1>2 DEF RowsComing
<1>5. (\A row \in 0 .. 2 * h - 1 :
         \/ mem[<<frame % 2, row>>] = [frame |-> frame, row |-> row]
         \/ \E d \in dma : d.kind = "put" /\ d.row = row)'
  BY <1>1 DEF RowsComing
<1>6. QED  BY <1>3, <1>4, <1>5 DEF RowsComing

(* The row of the buffer that was put is in main memory.                   *)
LEMMA RowsArrive ==
  ASSUME PipelineTypeOK, RowsComing, NEW d \in dma, Complete(d)
  PROVE  RowsComing'
<1>1. /\ dma' = dma \ {d} /\ UNCHANGED <<pc, clean, frame, h>>
      /\ d \in Commands /\ dma \subseteq Commands
      /\ h \in 0 .. Pairs /\ frame \in Nat
      /\ ls \in [Buffers -> Data] /\ mem \in [{0, 1} \X Rows -> Data]
  BY PipelineAssumption DEF Complete, PipelineTypeOK
<1>2. \A e \in dma : e.kind \in {"get", "put"} /\ e.buf \in Buffers
  BY <1>1 DEF Commands
<1>3. \A e \in dma' : e.kind = "put" => ls'[e.buf] = ls[e.buf]
  <2>1. CASE d.kind = "get"
    <3>1. ls' = [ls EXCEPT ![d.buf] = [frame |-> d.frame, row |-> d.row]]
      BY <2>1 DEF Complete
    <3>2. \A e \in dma : e.kind = "put" => e.buf # d.buf
      BY <2>1 DEF RowsComing
    <3>3. QED  BY <1>1, <1>2, <3>1, <3>2
  <2>2. CASE d.kind = "put"
    BY <2>2 DEF Complete
  <2>3. QED  BY <1>2, <2>1, <2>2
<1>4. ASSUME pc # "begin", NEW row \in 0 .. 2 * h - 1
      PROVE  \/ mem'[<<frame % 2, row>>] = [frame |-> frame, row |-> row]
             \/ \E e \in dma' : e.kind = "put" /\ e.row = row
  <2>1. \/ mem[<<frame % 2, row>>] = [frame |-> frame, row |-> row]
        \/ \E e \in dma : e.kind = "put" /\ e.row = row
    BY <1>4 DEF RowsComing
  <2>2. CASE d.kind = "get"
    BY <1>1, <2>1, <2>2 DEF Complete
  <2>3. CASE d.kind = "put"
    <3>1. /\ mem' = [mem EXCEPT ![<<d.frame % 2, d.row>>] = ls[d.buf]]
          /\ d.frame = frame /\ ls[d.buf] = [frame |-> frame, row |-> d.row]
      BY <2>3 DEF Complete, RowsComing
    <3>2. <<frame % 2, row>> \in {0, 1} \X Rows
      <4>1. frame % 2 \in {0, 1}
        BY <1>1
      <4>2. row \in Rows
        BY <1>1, PipelineAssumption DEF Rows
      <4>3. QED  BY <4>1, <4>2
    <3>3. CASE row = d.row
      BY <1>1, <3>1, <3>2, <3>3
    <3>4. CASE row # d.row
      <4>1. mem'[<<frame % 2, row>>] = mem[<<frame % 2, row>>]
        BY <1>1, <3>1, <3>2, <3>4
      <4>2. QED  BY <1>1, <2>1, <3>4, <4>1
    <3>5. QED  BY <3>3, <3>4
  <2>4. QED  BY <1>2, <2>2, <2>3
<1>5. (\A e \in dma : e.kind = "put" =>
         /\ e.buf[1] \in {"O0", "O1"} /\ e.frame = frame /\ e.row \in 0 .. 2 * h - 1
         /\ ls[e.buf] = [frame |-> frame, row |-> e.row])'
  BY <1>1, <1>3 DEF RowsComing
<1>6. (pc # "begin" => \A row \in 0 .. 2 * h - 1 :
         \/ mem[<<frame % 2, row>>] = [frame |-> frame, row |-> row]
         \/ \E e \in dma : e.kind = "put" /\ e.row = row)'
  BY <1>1, <1>4
<1>7. QED  BY <1>1, <1>5, <1>6 DEF RowsComing

(* Two rows are put from buffers no row is still to go from.               *)
LEMMA RowsConverted ==
  ASSUME RInv, OInv, RowsComing, Convert
  PROVE  RowsComing'
<1>1. /\ clean /\ clean' /\ pc # "begin" /\ h' = h + 1 /\ UNCHANGED <<frame, mem>>
      /\ pc' = (IF h + 1 < Pairs THEN "waitY" ELSE "waitLast")
      /\ Issue(Puts)
      /\ ls' = [ls EXCEPT ![<<"O0", lineOut>>] = [frame |-> frame, row |-> 2 * h],
                          ![<<"O1", lineOut>>] = [frame |-> frame, row |-> 2 * h + 1]]
  BY CommandSets DEF Convert, RowsComing
<1>2. /\ h \in Nat /\ h < Pairs /\ Pairs \in Nat /\ ls \in [Buffers -> Data] /\ lineOut \in {0, 1}
      /\ \A d \in dma : d.buf \in Buffers
  BY PipelineAssumption DEF RInv, PipelineTypeOK, Convert, InLoop, PCs, Commands
<1>3. <<"O0", lineOut>> \in Buffers /\ <<"O1", lineOut>> \in Buffers
  BY <1>2 DEF Buffers, Planes
<1>4. /\ ls'[<<"O0", lineOut>>] = [frame |-> frame, row |-> 2 * h]
      /\ ls'[<<"O1", lineOut>>] = [frame |-> frame, row |-> 2 * h + 1]
      /\ \A b \in Buffers \ {<<"O0", lineOut>>, <<"O1", lineOut>>} : ls'[b] = ls[b]
  BY <1>1, <1>2, <1>3
<1>5. \A d \in dma : d.buf \notin {<<"O0", lineOut>>, <<"O1", lineOut>>}
  BY DEF Convert, OInv, OutputTagged, OutputWaited, Waited
<1>6. /\ DOMAIN Puts = {1, 2}
      /\ Puts[1].kind = "put" /\ Puts[1].buf = <<"O0", lineOut>> /\ Puts[1].row = 2 * h
      /\ Puts[2].kind = "put" /\ Puts[2].buf = <<"O1", lineOut>> /\ Puts[2].row = 2 * h + 1
  BY DEF Puts, Command
<1>7. ASSUME NEW d \in dma'
      PROVE  \/ d \in dma
             \/ /\ d.kind = "put" /\ d.frame = frame
                /\ \/ d.buf = <<"O0", lineOut>> /\ d.row = 2 * h
                   \/ d.buf = <<"O1", lineOut>> /\ d.row = 2 * h + 1
  BY <1>1, <1>6, IssueFacts
<1>8. \A d \in dma' : d.kind = "put" =>
        /\ d.buf[1] \in {"O0", "O1"} /\ d.frame = frame' /\ d.row \in 0 .. 2 * h' - 1
        /\ ls'[d.buf] = [frame |-> frame', row |-> d.row]
  <2>1. SUFFICES ASSUME NEW d \in dma', d.kind = "put"
                 PROVE  /\ d.buf[1] \in {"O0", "O1"} /\ d.frame = frame /\ d.row \in 0 .. 2 * h + 1
                        /\ ls'[d.buf] = [frame |-> frame, row |-> d.row]
    <3>1. 2 * h' - 1 = 2 * h + 1 /\ frame' = frame
      BY <1>1, <1>2
    <3>2. QED  BY <3>1
  <2>2. CASE d \in dma
    <3>1. /\ d.buf[1] \in {"O0", "O1"} /\ d.frame = frame /\ d.row \in 0 .. 2 * h - 1
          /\ ls[d.buf] = [frame |-> frame, row |-> d.row]
      BY <2>1, <2>2 DEF RowsComing
    <3>2. ls'[d.buf] = ls[d.buf]
      BY <1>2, <1>4, <1>5, <2>2
    <3>3. QED  BY <1>2, <3>1, <3>2
  <2>3. CASE d \notin dma
    BY <1>2, <1>4, <1>7, <2>1, <2>3
  <2>4. QED  BY <2>2, <2>3
<1>9. \A d \in dma' : d.kind = "get" => d.buf[1] \notin {"O0", "O1"}
  BY <1>7 DEF RowsComing
<1>10. ASSUME NEW row \in 0 .. 2 * h' - 1
       PROVE  \/ mem'[<<frame' % 2, row>>] = [frame |-> frame', row |-> row]
              \/ \E d \in dma' : d.kind = "put" /\ d.row = row
  <2>1. row \in 0 .. 2 * h - 1 \/ row = 2 * h \/ row = 2 * h + 1
    BY <1>1, <1>2
  <2>2. CASE row \in 0 .. 2 * h - 1
    BY <1>1, <2>2, IssueFacts DEF RowsComing
  <2>3. \A k \in {1, 2} : \E d \in dma' : d.buf = Puts[k].buf
    BY <1>1, <1>6, IssueFacts
  <2>4. <<"O0", lineOut>> # <<"O1", lineOut>>
    OBVIOUS
  <2>5. CASE row = 2 * h
    <3>1. PICK d \in dma' : d.buf = <<"O0", lineOut>>
      BY <1>6, <2>3
    <3>2. d \notin dma
      BY <1>5, <3>1
    <3>3. d.kind = "put" /\ d.row = row
      BY <1>7, <2>5, <2>4, <3>1, <3>2
    <3>4. QED  BY <3>3
  <2>6. CASE row = 2 * h + 1
    <3>1. PICK d \in dma' : d.buf = <<"O1", lineOut>>
      BY <1>6, <2>3
    <3>2. d \notin dma
      BY <1>5, <3>1
    <3>3. d.kind = "put" /\ d.row = row
      BY <1>7, <2>6, <2>4, <3>1, <3>2
    <3>4. QED  BY <3>3
  <2>7. QED  BY <2>1, <2>2, <2>5, <2>6
<1>11. pc' \in {"waitLast", "ready"} => h' = Pairs
  BY <1>1, <1>2
<1>12. QED  BY <1>1, <1>8, <1>9, <1>10, <1>11 DEF RowsComing

LEMMA StepRows ==
  ASSUME InOrder, RInv, Ordered, UInv, OInv, RowsComing, [Next]_vars
  PROVE  RowsComing'
<1>1. CASE BeginFrame
  <2>1. /\ dma = {} /\ Issue(FirstGets) /\ h' = 0 /\ clean' /\ pc' = "waitY"
    BY <1>1, FirstCommands DEF BeginFrame, RInv
  <2>2. \A k \in DOMAIN FirstGets :
          FirstGets[k].kind = "get" /\ FirstGets[k].buf[1] \notin {"O0", "O1"}
    BY DEF FirstGets, Command
  <2>3. \A d \in dma' : d.kind = "get" /\ d.buf[1] \notin {"O0", "O1"}
    BY <2>1, <2>2, IssueFacts
  <2>4. QED  BY <2>1, <2>3 DEF RowsComing
<1>2. CASE ScaleY
  <2>1. clean'
    BY <1>2, LumaFromInv DEF ScaleY, LumaReady, RowsComing
  <2>2. \A k \in DOMAIN YGets :
          YGets[k].kind = "get" /\ YGets[k].buf[1] \notin {"O0", "O1"}
    BY DEF YGets, Command
  <2>3. QED  BY <1>2, <2>1, <2>2, CommandSets, RowsFetching DEF ScaleY
<1>3. CASE ScaleU
  <2>1. clean'
    BY <1>3, UFromInv DEF ScaleU, UReady, RowsComing
  <2>2. QED  BY <1>3, <2>1 DEF ScaleU, RowsComing
<1>4. CASE ScaleV
  <2>1. clean'
    BY <1>4, VFromInv DEF ScaleV, VReady, RowsComing
  <2>2. \A k \in DOMAIN VGets :
          VGets[k].kind = "get" /\ VGets[k].buf[1] \notin {"O0", "O1"}
    BY DEF VGets, Command
  <2>3. QED  BY <1>4, <2>1, <2>2, CommandSets, RowsFetching DEF ScaleV
<1>5. CASE Convert
  BY <1>5, RowsConverted
<1>6. CASE \E d \in dma : Complete(d)
  BY <1>6, RowsArrive DEF RInv
<1>7. CASE \/ Await("waitY", "Y0", "Y1", selY, "scaleY")
           \/ Await("waitU", "U0", "U1", selCr, "scaleU")
           \/ Await("waitV", "V0", "V1", selCr, "scaleV")
           \/ Await("waitOut", "O0", "O1", lineOut, "convert")
           \/ Await("waitLast", "O0", "O1", Flip(lineOut), "ready")
           \/ UNCHANGED vars
  BY <1>7 DEF Await, vars, RowsComing
<1>8. CASE NextFrame
  BY <1>8 DEF NextFrame, Ordered, RowsComing
<1>9. QED
  BY <1>1, <1>2, <1>3, <1>4, <1>5, <1>6, <1>7, <1>8 DEF Next

LEMMA InitRows == Init => RInv /\ Ordered /\ UInv /\ OInv /\ RowsComing
<1>1. Init => OInv /\ RowsComing
  BY DEF Init, OInv, OutputTagged, OutputWaited, RowsComing
<1>2. QED  BY <1>1, InitRInv, InitOrder, InitUInv

LEMMA FramesFromInv ==
  ASSUME Ordered, RowsComing
  PROVE  FrameComplete
BY DEF Ordered, RowsComing, FrameComplete, Rows

(* When RDY is sent, all rows of the frame are in main memory and made     *)
(* from its own lines, for every size of frame, every number of frames and *)
(* every change between scaling and not.                                   *)
THEOREM WholeFrames == ASSUME InOrder PROVE Spec => []FrameComplete
<1>1. Init => RInv /\ Ordered /\ UInv /\ OInv /\ RowsComing
  BY InitRows
<1>2. RInv /\ Ordered /\ UInv /\ OInv /\ RowsComing /\ [Next]_vars =>
        RInv' /\ Ordered' /\ UInv' /\ OInv' /\ RowsComing'
  BY StepRInv, StepOrder, StepUInv, StepOInv, StepRows DEF RInv
<1>3. Ordered /\ RowsComing => FrameComplete
  BY FramesFromInv
<1>4. QED  BY <1>1, <1>2, <1>3, PTL DEF Spec

-----------------------------------------------------------------------------
(* Whole frames but for one pair, in any order of completion.              *)

(* What a row converted for a place is: that row, or None if its lines     *)
(* were not all there.                                                     *)
Made(f, row) == {[frame |-> f, row |-> row], None}

(* A put is of one of the last two pairs that were converted, or of the    *)
(* last but one of the frame before, while its buffers were not used since. *)
Leaving(d) ==
  \E k \in 0 .. Pairs - 1 :
    /\ d.row \in {2 * k, 2 * k + 1}
    /\ d.buf \in {<<"O0", k % 2>>, <<"O1", k % 2>>}
    /\ ls[d.buf] \in Made(d.frame, d.row)
    /\ \/ d.frame = frame /\ pc # "begin" /\ k \in {h - 1, h - 2}
       \/ d.frame = frame - 1 /\ k = Pairs - 2 /\ (pc = "begin" \/ h <= k % 2)

(* A put of the last pair but one: the last wait is for the last pair.     *)
Late(d) ==
  d.kind = "put" /\ d.frame = frame /\ d.row \in {2 * Pairs - 4, 2 * Pairs - 3}

(* The row is in main memory or on its way there.                          *)
Given(row) == \/ mem[<<frame % 2, row>>] \in Made(frame, row)
              \/ \E d \in dma : d.kind = "put" /\ d.frame = frame /\ d.row = row

RowsLate ==
  /\ \A d \in dma : IF d.kind = "put" THEN Leaving(d) ELSE d.buf[1] \notin {"O0", "O1"}
  /\ InLoop \/ pc = "waitLast" => lineOut = h % 2
  /\ pc \in {"waitLast", "ready"} => h = Pairs
  /\ pc = "ready" => \A d \in dma : d.kind = "put" => Late(d)
  /\ pc # "begin" => \A row \in 0 .. 2 * h - 1 : Given(row)

LateInv == PipelineTypeOK /\ (InLoop => h < Pairs) /\ OInv /\ RowsLate

(* When RDY is sent, every row is in main memory or on its way from a      *)
(* buffer that holds it, and those on their way are of the last pair but   *)
(* one.                                                                    *)
FrameButOnePair ==
  pc = "ready" =>
    /\ \A d \in dma : d.kind = "put" => Late(d) /\ ls[d.buf] \in Made(frame, d.row)
    /\ \A row \in Rows :
         \/ mem[<<frame % 2, row>>] \in Made(frame, row)
         \/ \E d \in dma : Late(d) /\ d.row = row

LEMMA Parity ==
  ASSUME NEW n \in Nat
  PROVE  n % 2 \in {0, 1} /\ (n + 1) % 2 = Flip(n % 2) /\ (n + 1) % 2 # n % 2
BY DEF Flip

(* Steps that leave the output buffers, the pair and the frame alone.      *)
LEMMA LateFetching ==
  ASSUME RowsLate, InLoop, InLoop', UNCHANGED <<frame, h, lineOut, ls, mem>>,
         dma \subseteq dma',
         \A d \in dma' \ dma : d.kind = "get" /\ d.buf[1] \notin {"O0", "O1"}
  PROVE  RowsLate'
<1>1. ASSUME NEW d \in dma'
      PROVE  (IF d.kind = "put" THEN Leaving(d) ELSE d.buf[1] \notin {"O0", "O1"})'
  <2>1. CASE d \in dma
    BY <2>1 DEF RowsLate, Leaving, InLoop
  <2>2. CASE d \notin dma
    BY <2>2
  <2>3. QED  BY <2>1, <2>2
<1>2. (\A row \in 0 .. 2 * h - 1 : Given(row))'
  BY DEF RowsLate, Given, InLoop
<1>3. QED  BY <1>1, <1>2 DEF RowsLate, InLoop

(* The row of the buffer that was put is in main memory.                   *)
LEMMA LateArrive ==
  ASSUME PipelineTypeOK, RowsLate, NEW d \in dma, Complete(d)
  PROVE  RowsLate'
<1>1. /\ dma' = dma \ {d} /\ UNCHANGED <<pc, frame, h, lineOut>>
      /\ d \in Commands /\ dma \subseteq Commands
      /\ h \in 0 .. Pairs /\ frame \in Nat
      /\ ls \in [Buffers -> Data] /\ mem \in [{0, 1} \X Rows -> Data]
  BY PipelineAssumption DEF Complete, PipelineTypeOK
<1>2. \A e \in dma : e.kind \in {"get", "put"} /\ e.buf \in Buffers
  BY <1>1 DEF Commands
<1>3. \A e \in dma : e.kind = "put" => ls'[e.buf] = ls[e.buf]
  <2>1. CASE d.kind = "get"
    <3>1. ls' = [ls EXCEPT ![d.buf] = [frame |-> d.frame, row |-> d.row]]
      BY <2>1 DEF Complete
    <3>2. \A e \in dma : e.kind = "put" => e.buf # d.buf
      BY <2>1 DEF RowsLate, Leaving
    <3>3. QED  BY <1>1, <1>2, <3>1, <3>2
  <2>2. CASE d.kind = "put"
    BY <2>2 DEF Complete
  <2>3. QED  BY <1>2, <2>1, <2>2
<1>4. ASSUME NEW e \in dma'
      PROVE  (IF e.kind = "put" THEN Leaving(e) ELSE e.buf[1] \notin {"O0", "O1"})'
  BY <1>1, <1>3 DEF RowsLate, Leaving
<1>5. ASSUME pc # "begin", NEW row \in 0 .. 2 * h - 1
      PROVE  Given(row)'
  <2>1. Given(row)
    BY <1>5 DEF RowsLate
  <2>2. CASE d.kind = "get"
    BY <1>1, <2>1, <2>2 DEF Complete, Given
  <2>3. CASE d.kind = "put"
    <3>1. /\ mem' = [mem EXCEPT ![<<d.frame % 2, d.row>>] = ls[d.buf]]
          /\ ls[d.buf] \in Made(d.frame, d.row)
          /\ d.frame \in {frame, frame - 1}
      BY <2>3 DEF Complete, RowsLate, Leaving
    <3>2. <<frame % 2, row>> \in {0, 1} \X Rows
      <4>1. frame % 2 \in {0, 1}
        BY <1>1
      <4>2. row \in Rows
        BY <1>1, PipelineAssumption DEF Rows
      <4>3. QED  BY <4>1, <4>2
    <3>3. CASE d.frame = frame /\ row = d.row
      <4>1. mem'[<<frame % 2, row>>] = ls[d.buf]
        BY <1>1, <3>1, <3>2, <3>3
      <4>2. QED  BY <1>1, <3>1, <3>3, <4>1 DEF Given
    <3>4. CASE d.frame # frame \/ row # d.row
      <4>1. d.frame \in Nat
        BY <1>1 DEF Commands
      <4>2. d.frame % 2 # frame % 2 \/ row # d.row
        BY <1>1, <3>1, <3>4, <4>1
      <4>3. mem'[<<frame % 2, row>>] = mem[<<frame % 2, row>>]
        BY <1>1, <3>1, <3>2, <4>2
      <4>4. QED  BY <1>1, <2>1, <3>4, <4>3 DEF Given
    <3>5. QED  BY <3>3, <3>4
  <2>4. QED  BY <1>2, <2>2, <2>3
<1>6. (pc = "ready" => \A e \in dma : e.kind = "put" => Late(e))'
  BY <1>1 DEF RowsLate, Late
<1>7. QED  BY <1>1, <1>4, <1>5, <1>6 DEF RowsLate, InLoop

(* Two rows are put from the buffers that were waited for: what is on its  *)
(* way goes from the others.                                               *)
LEMMA LateConverted ==
  ASSUME PipelineTypeOK, InLoop => h < Pairs, OInv, RowsLate, Convert
  PROVE  RowsLate'
<1>1. /\ pc = "convert" /\ h' = h + 1 /\ UNCHANGED <<frame, mem>>
      /\ pc' = (IF h + 1 < Pairs THEN "waitY" ELSE "waitLast")
      /\ Issue(Puts) /\ lineOut' = Flip(lineOut)
  BY CommandSets DEF Convert
<1>2. /\ h \in Nat /\ h < Pairs /\ Pairs \in Nat /\ ls \in [Buffers -> Data]
      /\ lineOut \in {0, 1} /\ lineOut = h % 2 /\ frame \in Nat
      /\ \A d \in dma : d.buf \in Buffers
  BY PipelineAssumption DEF RowsLate, PipelineTypeOK, Convert, InLoop, PCs, Commands
<1>3. <<"O0", lineOut>> \in Buffers /\ <<"O1", lineOut>> \in Buffers
  BY <1>2 DEF Buffers, Planes
<1>4. /\ ls'[<<"O0", lineOut>>] \in Made(frame, 2 * h)
      /\ ls'[<<"O1", lineOut>>] \in Made(frame, 2 * h + 1)
      /\ \A b \in Buffers \ {<<"O0", lineOut>>, <<"O1", lineOut>>} : ls'[b] = ls[b]
  <2>1. PICK r0 \in Made(frame, 2 * h), r1 \in Made(frame, 2 * h + 1) :
          ls' = [ls EXCEPT ![<<"O0", lineOut>>] = r0, ![<<"O1", lineOut>>] = r1]
    BY DEF Convert, Made
  <2>2. QED  BY <1>2, <1>3, <2>1
<1>5. \A d \in dma : d.buf \notin {<<"O0", lineOut>>, <<"O1", lineOut>>}
  BY DEF Convert, OInv, OutputTagged, OutputWaited, Waited
<1>6. /\ DOMAIN Puts = {1, 2}
      /\ Puts[1].kind = "put" /\ Puts[1].buf = <<"O0", lineOut>> /\ Puts[1].row = 2 * h
      /\ Puts[2].kind = "put" /\ Puts[2].buf = <<"O1", lineOut>> /\ Puts[2].row = 2 * h + 1
  BY DEF Puts, Command
<1>7. ASSUME NEW d \in dma'
      PROVE  \/ d \in dma
             \/ /\ d.kind = "put" /\ d.frame = frame
                /\ \/ d.buf = <<"O0", lineOut>> /\ d.row = 2 * h
                   \/ d.buf = <<"O1", lineOut>> /\ d.row = 2 * h + 1
  BY <1>1, <1>6, IssueFacts
<1>8. ASSUME NEW d \in dma', d \in dma, d.kind = "put"
      PROVE  Leaving(d)'
  <2>1. PICK k \in 0 .. Pairs - 1 :
          /\ d.row \in {2 * k, 2 * k + 1}
          /\ d.buf \in {<<"O0", k % 2>>, <<"O1", k % 2>>}
          /\ ls[d.buf] \in Made(d.frame, d.row)
          /\ \/ d.frame = frame /\ pc # "begin" /\ k \in {h - 1, h - 2}
             \/ d.frame = frame - 1 /\ k = Pairs - 2 /\ (pc = "begin" \/ h <= k % 2)
    BY <1>8 DEF RowsLate, Leaving
  <2>2. ls'[d.buf] = ls[d.buf]
    BY <1>2, <1>4, <1>5, <1>8
  <2>3. k % 2 # h % 2
    BY <1>2, <1>5, <1>8, <2>1
  <2>4. k # h - 2
    BY <1>2, <2>3
  <2>5. k \in Nat /\ k % 2 \in {0, 1}
    BY <1>2
  <2>6. h <= k % 2 => h + 1 <= k % 2
    BY <1>2, <2>3, <2>5
  <2>7. \/ d.frame = frame' /\ pc' # "begin" /\ k \in {h' - 1, h' - 2}
        \/ d.frame = frame' - 1 /\ k = Pairs - 2 /\ (pc' = "begin" \/ h' <= k % 2)
    BY <1>1, <1>2, <2>1, <2>4, <2>6
  <2>8. QED  BY <2>1, <2>2, <2>7 DEF Leaving
<1>9. ASSUME NEW d \in dma', d \notin dma
      PROVE  d.kind = "put" /\ Leaving(d)'
  <2>1. /\ d.kind = "put" /\ d.frame = frame'
        /\ \/ d.buf = <<"O0", h % 2>> /\ d.row = 2 * h
           \/ d.buf = <<"O1", h % 2>> /\ d.row = 2 * h + 1
    BY <1>1, <1>2, <1>7, <1>9
  <2>2. ls'[d.buf] \in Made(d.frame, d.row)
    BY <1>1, <1>2, <1>4, <2>1
  <2>3. h \in 0 .. Pairs - 1 /\ h = h' - 1 /\ pc' # "begin"
    BY <1>1, <1>2
  <2>4. QED  BY <2>1, <2>2, <2>3 DEF Leaving
<1>10. ASSUME NEW row \in 0 .. 2 * h' - 1
       PROVE  Given(row)'
  <2>1. row \in 0 .. 2 * h - 1 \/ row = 2 * h \/ row = 2 * h + 1
    BY <1>1, <1>2
  <2>2. CASE row \in 0 .. 2 * h - 1
    BY <1>1, <2>2, IssueFacts DEF RowsLate, Given
  <2>3. \A k \in {1, 2} : \E d \in dma' : d.buf = Puts[k].buf
    BY <1>1, <1>6, IssueFacts
  <2>4. <<"O0", lineOut>> # <<"O1", lineOut>>
    OBVIOUS
  <2>5. CASE row = 2 * h
    <3>1. PICK d \in dma' : d.buf = <<"O0", lineOut>>
      BY <1>6, <2>3
    <3>2. d.kind = "put" /\ d.frame = frame' /\ d.row = row
      BY <1>1, <1>5, <1>7, <2>4, <2>5, <3>1
    <3>3. QED  BY <3>2 DEF Given
  <2>6. CASE row = 2 * h + 1
    <3>1. PICK d \in dma' : d.buf = <<"O1", lineOut>>
      BY <1>6, <2>3
    <3>2. d.kind = "put" /\ d.frame = frame' /\ d.row = row
      BY <1>1, <1>5, <1>7, <2>4, <2>6, <3>1
    <3>3. QED  BY <3>2 DEF Given
  <2>7. QED  BY <2>1, <2>2, <2>5, <2>6
<1>11. lineOut' = h' % 2
  BY <1>1, <1>2, Parity
<1>12. pc' \in {"waitLast", "ready"} => h' = Pairs /\ pc' # "ready"
  BY <1>1, <1>2
<1>13. \A d \in dma' : (IF d.kind = "put" THEN Leaving(d) ELSE d.buf[1] \notin {"O0", "O1"})'
  BY <1>8, <1>9 DEF RowsLate
<1>14. QED  BY <1>10, <1>11, <1>12, <1>13 DEF RowsLate

(* The wait at the end of the frame leaves the last pair but one.          *)
LEMMA LateEnd ==
  ASSUME PipelineTypeOK, OInv, RowsLate,
         Await("waitLast", "O0", "O1", Flip(lineOut), "ready")
  PROVE  RowsLate'
<1>1. /\ pc = "waitLast" /\ pc' = "ready" /\ Waited("O0", "O1", Flip(lineOut))
      /\ UNCHANGED <<frame, h, lineOut, ls, dma, mem>>
  BY DEF Await
<1>2. h = Pairs /\ lineOut = h % 2 /\ Pairs \in Nat /\ Pairs > 0 /\ frame \in Nat
  BY <1>1, PipelineAssumption DEF RowsLate, PipelineTypeOK
<1>3. ASSUME NEW d \in dma, d.kind = "put"
      PROVE  Leaving(d)' /\ Late(d)'
  <2>1. PICK k \in 0 .. Pairs - 1 :
          /\ d.row \in {2 * k, 2 * k + 1}
          /\ d.buf \in {<<"O0", k % 2>>, <<"O1", k % 2>>}
          /\ ls[d.buf] \in Made(d.frame, d.row)
          /\ \/ d.frame = frame /\ pc # "begin" /\ k \in {h - 1, h - 2}
             \/ d.frame = frame - 1 /\ k = Pairs - 2 /\ (pc = "begin" \/ h <= k % 2)
    BY <1>3 DEF RowsLate, Leaving
  <2>2. d.tag = Tag(d.buf[1], d.buf[2])
    BY <1>3, <2>1 DEF OInv, OutputTagged
  <2>3. k % 2 # Flip(h % 2)
    BY <1>1, <1>2, <1>3, <2>1, <2>2 DEF Waited
  <2>4. k # h - 1
    <3>1. ASSUME k = h - 1  PROVE  FALSE
      <4>1. k \in Nat /\ k + 1 = h
        BY <1>2, <3>1
      <4>2. k % 2 \in {0, 1} /\ h % 2 = Flip(k % 2)
        BY <4>1, Parity
      <4>3. QED  BY <2>3, <4>2 DEF Flip
    <3>2. QED  BY <3>1
  <2>5. k % 2 \in {0, 1}
    BY <1>2
  <2>6. d.frame = frame /\ k = Pairs - 2
    BY <1>1, <1>2, <2>1, <2>4, <2>5
  <2>7. d.row \in {2 * Pairs - 4, 2 * Pairs - 3}
    BY <1>2, <2>1, <2>6
  <2>8. k \in {h' - 1, h' - 2} /\ d.frame = frame' /\ pc' # "begin" /\ ls' = ls
    BY <1>1, <1>2, <2>6
  <2>9. QED  BY <1>3, <2>1, <2>7, <2>8 DEF Leaving, Late
<1>4. (\A row \in 0 .. 2 * h - 1 : Given(row))'
  BY <1>1 DEF RowsLate, Given
<1>5. QED  BY <1>1, <1>2, <1>3, <1>4 DEF RowsLate, InLoop

(* The first commands of a frame fill input buffers.                       *)
LEMMA GetsNotOfOutputs ==
  \A k \in DOMAIN FirstGets :
     FirstGets[k].kind = "get" /\ FirstGets[k].buf[1] \notin {"O0", "O1"}
<1>1. \A k \in DOMAIN FirstGets : \E p \in Inputs, i \in {0, 1} :
        FirstGets[k] = Command("get", p, i, Tag(p, i), i)
  BY DEF Inputs, FirstGets
<1>2. ASSUME NEW p \in Inputs, NEW i \in {0, 1}, NEW t, NEW row
      PROVE  /\ Command("get", p, i, t, row).kind = "get"
             /\ Command("get", p, i, t, row).buf[1] \notin {"O0", "O1"}
  BY DEF Inputs, Command
<1>3. QED  BY <1>1, <1>2

LEMMA StepLate ==
  ASSUME LateInv, [Next]_vars
  PROVE  RowsLate'
<1> USE DEF LateInv
<1>1. CASE BeginFrame
  <2>1. /\ pc = "begin" /\ pc' = "waitY" /\ h' = 0 /\ lineOut' = 0 /\ Issue(FirstGets)
        /\ UNCHANGED <<frame, ls, mem>> /\ Pairs \in Nat
    BY <1>1, FirstCommands, PipelineAssumption DEF BeginFrame
  <2>2. \A k \in DOMAIN FirstGets :
          FirstGets[k].kind = "get" /\ FirstGets[k].buf[1] \notin {"O0", "O1"}
    BY GetsNotOfOutputs
  <2>3. \A d \in dma' \ dma : d.kind = "get" /\ d.buf[1] \notin {"O0", "O1"}
    BY <2>1, <2>2, IssueFacts
  <2>4. \A k \in 0 .. Pairs - 1 : h' <= k % 2
    BY <2>1
  <2>5. \A d \in dma : (IF d.kind = "put" THEN Leaving(d) ELSE d.buf[1] \notin {"O0", "O1"})'
    BY <2>1, <2>4 DEF RowsLate, Leaving
  <2>6. QED  BY <2>1, <2>3, <2>5 DEF RowsLate, InLoop
<1>2. CASE ScaleY
  <2>1. \A k \in DOMAIN YGets :
          YGets[k].kind = "get" /\ YGets[k].buf[1] \notin {"O0", "O1"}
    BY DEF YGets, Command
  <2>2. /\ dma \subseteq dma'
        /\ \A d \in dma' \ dma : d.kind = "get" /\ d.buf[1] \notin {"O0", "O1"}
    BY <1>2, <2>1, CommandSets, IssueFacts
  <2>3. QED  BY <1>2, <2>2, LateFetching DEF ScaleY, InLoop, PCs
<1>3. CASE ScaleV
  <2>1. \A k \in DOMAIN VGets :
          VGets[k].kind = "get" /\ VGets[k].buf[1] \notin {"O0", "O1"}
    BY DEF VGets, Command
  <2>2. /\ dma \subseteq dma'
        /\ \A d \in dma' \ dma : d.kind = "get" /\ d.buf[1] \notin {"O0", "O1"}
    BY <1>3, <2>1, CommandSets, IssueFacts
  <2>3. QED  BY <1>3, <2>2, LateFetching DEF ScaleV, InLoop, PCs
<1>4. CASE Convert
  BY <1>4, LateConverted
<1>5. CASE \E d \in dma : Complete(d)
  BY <1>5, LateArrive
<1>6. CASE \/ Await("waitY", "Y0", "Y1", selY, "scaleY")
           \/ Await("waitU", "U0", "U1", selCr, "scaleU")
           \/ Await("waitV", "V0", "V1", selCr, "scaleV")
           \/ Await("waitOut", "O0", "O1", lineOut, "convert")
           \/ ScaleU
  BY <1>6, LateFetching DEF Await, ScaleU, InLoop, PCs
<1>7. CASE Await("waitLast", "O0", "O1", Flip(lineOut), "ready")
  BY <1>7, LateEnd
<1>8. CASE NextFrame
  <2>1. /\ pc = "ready" /\ pc' = "begin" /\ frame' = frame + 1 /\ UNCHANGED <<h, ls, dma>>
        /\ h = Pairs /\ frame \in Nat /\ Pairs \in Nat
    BY <1>8, PipelineAssumption DEF NextFrame, RowsLate, PipelineTypeOK
  <2>2. ASSUME NEW d \in dma, d.kind = "put"
        PROVE  Leaving(d)'
    <3>1. Late(d) /\ Leaving(d)
      BY <2>1, <2>2 DEF RowsLate
    <3>2. PICK k \in 0 .. Pairs - 1 :
            /\ d.row \in {2 * k, 2 * k + 1}
            /\ d.buf \in {<<"O0", k % 2>>, <<"O1", k % 2>>}
            /\ ls[d.buf] \in Made(d.frame, d.row)
      BY <3>1 DEF Leaving
    <3>3. k = Pairs - 2 /\ d.frame = frame' - 1
      BY <2>1, <3>1, <3>2 DEF Late
    <3>4. QED  BY <2>1, <3>2, <3>3 DEF Leaving
  <2>3. QED  BY <2>1, <2>2 DEF RowsLate, InLoop
<1>9. CASE UNCHANGED vars
  BY <1>9 DEF vars, RowsLate, Leaving, Late, Given, InLoop
<1>10. QED
  BY <1>1, <1>2, <1>3, <1>4, <1>5, <1>6, <1>7, <1>8, <1>9 DEF Next

LEMMA ButOneFromInv ==
  ASSUME LateInv
  PROVE  FrameButOnePair
<1>1. SUFFICES ASSUME pc = "ready"  PROVE  FrameButOnePair
  BY DEF FrameButOnePair
<1>2. h = Pairs /\ \A d \in dma : d.kind = "put" => Leaving(d) /\ Late(d)
  BY <1>1 DEF LateInv, RowsLate
<1>3. \A d \in dma : d.kind = "put" => Late(d) /\ ls[d.buf] \in Made(frame, d.row)
  BY <1>2 DEF Leaving, Late
<1>4. \A row \in Rows : Given(row)
  BY <1>1, <1>2 DEF LateInv, RowsLate, Rows
<1>5. QED  BY <1>3, <1>4 DEF FrameButOnePair, Given

(* In every order in which commands complete, and with those of a frame    *)
(* under way into the next: when RDY is sent, nothing but the two rows of  *)
(* the last pair but one is still on its way to main memory, and these go  *)
(* from buffers nothing was put into since (dmaWaitTag of tgo0 and tgo1    *)
(* after the loop is for the last pair alone).                             *)
THEOREM OnePairLate == Spec => []FrameButOnePair
<1>1. Init => LateInv
  BY InitRInv DEF RInv, LateInv, Init, OInv, OutputTagged, OutputWaited, RowsLate, InLoop
<1>2. LateInv /\ [Next]_vars => LateInv'
  BY StepType, StepOInv, StepLate DEF LateInv
<1>3. LateInv => FrameButOnePair
  BY ButOneFromInv
<1>4. QED  BY <1>1, <1>2, <1>3, PTL DEF Spec

-----------------------------------------------------------------------------
(* The types of the pipeline, for every value of the constants.            *)
THEOREM PipelineTypes == Spec => []PipelineTypeOK
<1> DEFINE Inv == PipelineTypeOK /\ (InLoop => h < Pairs)
<1>1. Init => Inv
  BY InitRInv DEF RInv
<1>2. Inv /\ [Next]_vars => Inv'
  BY StepType
<1>3. QED  BY <1>1, <1>2, PTL DEF Spec
=============================================================================
