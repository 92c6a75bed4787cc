--------------------------- MODULE ScalerPipeline ---------------------------
(***************************************************************************)
(* How one frame goes through the local store of the SPU: the frame loop   *)
(* of spu-medialib/spu/src/spu_yuv2argb_scaler.c (the step Render of       *)
(* Yuv2ArgbScaler), with its double buffers, its DMA commands and the tag  *)
(* groups it waits for.                                                    *)
(*                                                                         *)
(* A frame is Pairs pairs of output rows.  What a transfer carries is the  *)
(* number of its frame and of the output row, or for chroma of the pair,   *)
(* it is for.  A command is under way from its issue to its completion, an *)
(* event of the memory flow controller (MFC); it moves its data then.      *)
(* Scaling and colour conversion compute nothing here.                     *)
(***************************************************************************)
EXTENDS Integers

CONSTANTS
  Pairs,     \* dstH>>1
  Frames,    \* bound: how many frames are converted
  Modes,     \* noscale, the values it takes from frame to frame
  StrayTags, \* values tgiv1[0] may have: it is never initialised
  InOrder,   \* do commands complete in the order of their issue?
  Drained,   \* has every command completed when the next RUN arrives?
  None       \* a buffer or row nothing was moved to; rows from wrong lines

ASSUME PipelineAssumption ==
  /\ Pairs \in Nat \ {0}
  /\ Frames \in Nat \ {0}
  /\ Modes \subseteq BOOLEAN
  /\ StrayTags \subseteq 0 .. 31
  /\ InOrder \in BOOLEAN
  /\ Drained \in BOOLEAN

(* InputY0 .. InputV1 and Output0, Output1, two of each.                   *)
Planes == {"Y0", "Y1", "U0", "U1", "V0", "V1", "O0", "O1"}
Buffers == Planes \X {0, 1}

(* Mutant of Flip: the index is counted up.                                *)
FlipCounted(i) == i + 1

Flip(i) == 1 - i

VARIABLES
  pc,      \* where the frame loop is
  frame,   \* the number of the frame; selIn and selOut are its parity
  h,       \* the pair
  line,    \* 0 and 1, the row of the pair
  selY,    \* selY0In and selY1In, which are always flipped together
  selCr,   \* selCrIn
  lineOut, \* LineSelOut
  noscale,
  stray,   \* the tag found in tgiv1[0]
  clean,   \* were all rows of the pair made from the right lines?
  ls,      \* the buffers in local store
  dma,     \* the commands under way
  issued,  \* how many were issued
  mem      \* the output buffers in main memory

vars == <<pc, frame, h, line, selY, selCr, lineOut, noscale, stray, clean, ls,
          dma, issued, mem>>

PCs == {"begin", "waitY", "scaleY", "waitU", "scaleU", "waitV", "scaleV",
        "waitOut", "convert", "waitLast", "ready"}

Rows == 0 .. 2 * Pairs - 1
Data == [frame: Nat, row: Nat] \cup {None}
Commands == [kind: {"get", "put"}, buf: Buffers, tag: 0 .. 31, row: Nat,
             frame: Nat, no: Nat]

PipelineTypeOK ==
  /\ pc \in PCs
  /\ frame \in 0 .. Frames - 1
  /\ h \in 0 .. Pairs
  /\ line \in {0, 1}
  /\ selY \in {0, 1} /\ selCr \in {0, 1} /\ lineOut \in {0, 1}
  /\ noscale \in BOOLEAN
  /\ stray \in StrayTags
  /\ clean \in BOOLEAN
  /\ ls \in [Buffers -> Data]
  /\ dma \subseteq Commands
  /\ issued \in Nat
  /\ mem \in [{0, 1} \X Rows -> Data]

Init ==
  /\ pc = "begin" /\ frame = 0 /\ h = 0 /\ line = 0
  /\ selY = 0 /\ selCr = 0 /\ lineOut = 0
  /\ noscale \in Modes
  /\ stray \in StrayTags
  /\ clean = TRUE
  /\ ls = [b \in Buffers |-> None]
  /\ dma = {} /\ issued = 0
  /\ mem = [p \in {0, 1} \X Rows |-> None]

-----------------------------------------------------------------------------
(* tgiy0 .. tgo1.  The second assignment to tgiv1[1] was meant for         *)
(* tgiv1[0], or the first was.                                             *)
Tag(p, i) ==
  CASE p = "U1" -> 1 + i
    [] p = "O0" -> 3 + i
    [] p = "Y0" -> 5 + i
    [] p = "Y1" -> 7 + i
    [] p = "U0" -> 9 + i
    [] p = "V0" -> 11 + i
    [] p = "V1" -> IF i = 0 THEN stray ELSE 14
    [] p = "O1" -> 15 + i

Command(kind, p, i, tag, row) ==
  [kind |-> kind, buf |-> <<p, i>>, tag |-> tag, row |-> row]

(* dmaGet and dmaPut: the commands of a step, in the order of their issue. *)
Issue(commands) ==
  /\ dma' = dma \cup
       {[kind |-> commands[i].kind, buf |-> commands[i].buf,
         tag |-> commands[i].tag, row |-> commands[i].row,
         frame |-> frame, no |-> issued + i] : i \in DOMAIN commands}
  /\ issued' = issued + (CHOOSE n \in 0 .. 12 : DOMAIN commands = 1 .. n)

(* Mutant of Waited: only the first tag is waited for.                     *)
WaitedFirst(p, q, i) == \A d \in dma : d.tag # Tag(p, i)

(* dmaWaitTag of two tags, one after the other.                            *)
Waited(p, q, i) == \A d \in dma : d.tag # Tag(p, i) /\ d.tag # Tag(q, i)

(* The buffer holds the line for this row of this frame, and no command is *)
(* writing to it.                                                          *)
Ready(p, i, row) ==
  /\ ls[<<p, i>>] = [frame |-> frame, row |-> row]
  /\ \A d \in dma : d.kind = "get" => d.buf # <<p, i>>

(* With noscale only the first of the two lines is used.                   *)
BothReady(p, q, i, row) == Ready(p, i, row) /\ (noscale \/ Ready(q, i, row))

-----------------------------------------------------------------------------
(* A command completes.                                                    *)
Complete(d) ==
  /\ InOrder => \A e \in dma : d.no <= e.no
  /\ dma' = dma \ {d}
  /\ IF d.kind = "get"
     THEN /\ ls' = [ls EXCEPT ![d.buf] = [frame |-> d.frame, row |-> d.row]]
          /\ UNCHANGED mem
     ELSE /\ mem' = [mem EXCEPT ![<<d.frame % 2, d.row>>] = ls[d.buf]]
          /\ UNCHANGED ls
  /\ UNCHANGED <<pc, frame, h, line, selY, selCr, lineOut, noscale, stray,
                 clean, issued>>

(* The first lines of a frame, four of each plane.                         *)
BeginFrame ==
  /\ pc = "begin"
  /\ Issue(<<Command("get", "Y0", 0, Tag("Y0", 0), 0),
             Command("get", "Y1", 0, Tag("Y1", 0), 0),
             Command("get", "Y0", 1, Tag("Y0", 1), 1),
             Command("get", "Y1", 1, Tag("Y1", 1), 1),
             Command("get", "U0", 0, Tag("U0", 0), 0),
             Command("get", "U0", 1, Tag("U0", 1), 1),
             Command("get", "U1", 0, Tag("U1", 0), 0),
             Command("get", "U1", 1, Tag("U1", 1), 1),
             Command("get", "V0", 0, Tag("V0", 0), 0),
             Command("get", "V0", 1, Tag("V0", 1), 1),
             Command("get", "V1", 0, Tag("V1", 0), 0),
             Command("get", "V1", 1, Tag("V1", 1), 1)>>)
  /\ h' = 0 /\ line' = 0 /\ selY' = 0 /\ selCr' = 0 /\ lineOut' = 0
  /\ clean' = TRUE
  /\ pc' = "waitY"
  /\ UNCHANGED <<frame, noscale, stray, ls, mem>>

(* A wait for two tag groups; the next step uses what they brought.        *)
Await(at, p, q, i, then) ==
  /\ pc = at
  /\ Waited(p, q, i)
  /\ pc' = then
  /\ UNCHANGED <<frame, h, line, selY, selCr, lineOut, noscale, stray, clean,
                 ls, dma, issued, mem>>

(* Mutant of ScaleY: the lines are for the next row.                       *)
ScaleYNextRow ==
  /\ pc = "scaleY"
  /\ clean' = (clean /\ BothReady("Y0", "Y1", selY, 2 * h + line))
  /\ Issue(<<Command("get", "Y0", selY, Tag("Y0", selY), 2 * h + line + 1),
             Command("get", "Y1", selY, Tag("Y1", selY), 2 * h + line + 1)>>)
  /\ selY' = Flip(selY)
  /\ line' = Flip(line)
  /\ pc' = IF line = 0 THEN "waitY" ELSE "waitU"
  /\ UNCHANGED <<frame, h, selCr, lineOut, noscale, stray, ls, mem>>

(* Each of the two Y rows, then the lines for the row two further on.      *)
ScaleY ==
  /\ pc = "scaleY"
  /\ clean' = (clean /\ BothReady("Y0", "Y1", selY, 2 * h + line))
  /\ LET row == 2 * h + line + 2
         first == Command("get", "Y0", selY, Tag("Y0", selY), row)
         second == Command("get", "Y1", selY, Tag("Y1", selY), row)
     IN Issue(IF noscale THEN <<first>> ELSE <<first, second>>)
  /\ selY' = Flip(selY)
  /\ line' = Flip(line)
  /\ pc' = IF line = 0 THEN "waitY" ELSE "waitU"
  /\ UNCHANGED <<frame, h, selCr, lineOut, noscale, stray, ls, mem>>

ScaleU ==
  /\ pc = "scaleU"
  /\ clean' = (clean /\ BothReady("U0", "U1", selCr, h))
  /\ pc' = "waitV"
  /\ UNCHANGED <<frame, h, line, selY, selCr, lineOut, noscale, stray, ls, dma,
                 issued, mem>>

(* Mutant of ScaleV: the chroma lines are for the next pair.               *)
ScaleVNextPair ==
  /\ pc = "scaleV"
  /\ clean' = (clean /\ BothReady("V0", "V1", selCr, h))
  /\ Issue(<<Command("get", "V0", selCr, Tag("U0", selCr), h + 1),
             Command("get", "U0", selCr, Tag("V0", selCr), h + 1),
             Command("get", "V1", selCr, Tag("U1", selCr), h + 1),
             Command("get", "U1", selCr, Tag("V1", selCr), h + 1)>>)
  /\ selCr' = Flip(selCr)
  /\ pc' = "waitOut"
  /\ UNCHANGED <<frame, h, line, selY, lineOut, noscale, stray, ls, mem>>

(* V, then the chroma lines for the pair two further on: V under the tags  *)
(* of U, and U under the tags of V.                                        *)
ScaleV ==
  /\ pc = "scaleV"
  /\ clean' = (clean /\ BothReady("V0", "V1", selCr, h))
  /\ LET firsts == <<Command("get", "V0", selCr, Tag("U0", selCr), h + 2),
                     Command("get", "U0", selCr, Tag("V0", selCr), h + 2)>>
         both == <<firsts[1], firsts[2],
                   Command("get", "V1", selCr, Tag("U1", selCr), h + 2),
                   Command("get", "U1", selCr, Tag("V1", selCr), h + 2)>>
     IN Issue(IF noscale THEN firsts ELSE both)
  /\ selCr' = Flip(selCr)
  /\ pc' = "waitOut"
  /\ UNCHANGED <<frame, h, line, selY, lineOut, noscale, stray, ls, mem>>

(* Mutant of Convert: the output buffers are not exchanged.                *)
ConvertSameBuffers ==
  /\ pc = "convert"
  /\ LET result(row) == IF clean THEN [frame |-> frame, row |-> row] ELSE None
     IN ls' = [ls EXCEPT ![<<"O0", lineOut>>] = result(2 * h),
                         ![<<"O1", lineOut>>] = result(2 * h + 1)]
  /\ Issue(<<Command("put", "O0", lineOut, Tag("O0", lineOut), 2 * h),
             Command("put", "O1", lineOut, Tag("O1", lineOut), 2 * h + 1)>>)
  /\ h' = h + 1
  /\ clean' = TRUE
  /\ pc' = IF h + 1 < Pairs THEN "waitY" ELSE "waitLast"
  /\ UNCHANGED <<frame, line, selY, selCr, lineOut, noscale, stray, mem>>

(* Mutant of Convert: the second row is put under the tag of img_args.     *)
ConvertOtherTag ==
  /\ pc = "convert"
  /\ LET result(row) == IF clean THEN [frame |-> frame, row |-> row] ELSE None
     IN ls' = [ls EXCEPT ![<<"O0", lineOut>>] = result(2 * h),
                         ![<<"O1", lineOut>>] = result(2 * h + 1)]
  /\ Issue(<<Command("put", "O0", lineOut, Tag("O0", lineOut), 2 * h),
             Command("put", "O1", lineOut, 31, 2 * h + 1)>>)
  /\ lineOut' = Flip(lineOut)
  /\ h' = h + 1
  /\ clean' = TRUE
  /\ pc' = IF h + 1 < Pairs THEN "waitY" ELSE "waitLast"
  /\ UNCHANGED <<frame, line, selY, selCr, noscale, stray, mem>>

(* Two rows are converted into the output buffers and put.                 *)
Convert ==
  /\ pc = "convert"
  /\ LET result(row) == IF clean THEN [frame |-> frame, row |-> row] ELSE None
     IN ls' = [ls EXCEPT ![<<"O0", lineOut>>] = result(2 * h),
                         ![<<"O1", lineOut>>] = result(2 * h + 1)]
  /\ Issue(<<Command("put", "O0", lineOut, Tag("O0", lineOut), 2 * h),
             Command("put", "O1", lineOut, Tag("O1", lineOut), 2 * h + 1)>>)
  /\ lineOut' = Flip(lineOut)
  /\ h' = h + 1
  /\ clean' = TRUE
  /\ pc' = IF h + 1 < Pairs THEN "waitY" ELSE "waitLast"
  /\ UNCHANGED <<frame, line, selY, selCr, noscale, stray, mem>>

(* RUN for the next frame; an UPDATE before it may change noscale.         *)
NextFrame ==
  /\ pc = "ready"
  /\ frame + 1 < Frames
  /\ Drained => dma = {}
  /\ frame' = frame + 1
  /\ noscale' \in Modes
  /\ pc' = "begin"
  /\ UNCHANGED <<h, line, selY, selCr, lineOut, stray, clean, ls, dma, issued,
                 mem>>

Next ==
  \/ \E d \in dma : Complete(d)
  \/ BeginFrame
  \/ Await("waitY", "Y0", "Y1", selY, "scaleY")
  \/ ScaleY
  \/ Await("waitU", "U0", "U1", selCr, "scaleU")
  \/ ScaleU
  \/ Await("waitV", "V0", "V1", selCr, "scaleV")
  \/ ScaleV
  \/ Await("waitOut", "O0", "O1", lineOut, "convert")
  \/ Convert
  \/ Await("waitLast", "O0", "O1", Flip(lineOut), "ready")
  \/ NextFrame

Spec == Init /\ [][Next]_vars

-----------------------------------------------------------------------------
(* A Y row is scaled only from the lines fetched for it in this frame,     *)
(* completely arrived, in spite of the prefetches left over from the frame *)
(* before (spu_yuv2argb_scaler.c, the two waits for tgiy0 and tgiy1).      *)
LumaReady == pc = "scaleY" => BothReady("Y0", "Y1", selY, 2 * h + line)

(* The same of V and of U.  U is waited for under the tags its refill is   *)
(* not issued with.                                                        *)
VReady == pc = "scaleV" => BothReady("V0", "V1", selCr, h)
UReady == pc = "scaleU" => BothReady("U0", "U1", selCr, h)

(* An output buffer is filled again only when both its rows are in main    *)
(* memory, within a frame and from one frame to the next.                  *)
OutputFree ==
  pc = "convert" => \A d \in dma : d.buf[1] \in {"O0", "O1"} => d.buf[2] # lineOut

(* yuv2argb_scaler.h, "notifying a loop completion": when RDY is sent, all *)
(* rows of the frame are in main memory and made from its own lines.       *)
FrameComplete ==
  pc = "ready" =>
    \A row \in Rows : mem[<<frame % 2, row>>] = [frame |-> frame, row |-> row]

-----------------------------------------------------------------------------
(* Which lines each input buffer holds or waits for, when all commands     *)
(* have completed before the next RUN.  It is the inductive invariant      *)
(* behind LumaReady and VReady.                                            *)
InLoop == pc \in PCs \ {"begin", "waitLast", "ready"}

Lines == {"Y0", "Y1", "V0", "V1"}

(* The row the Y buffers selected by selY are for, and the pair the V      *)
(* buffers selected by selCr are for.                                      *)
RowY == 2 * h + line + (IF pc \in {"waitY", "scaleY"} THEN 0 ELSE 2)
PairV == h + (IF pc \in {"waitOut", "convert"} THEN 1 ELSE 0)

Want(p, i) ==
  IF p \in {"Y0", "Y1"} THEN RowY + (IF i = selY THEN 0 ELSE 1)
                        ELSE PairV + (IF i = selCr THEN 0 ELSE 1)

(* The line for the row is in the buffer, or the commands that will bring  *)
(* it there are under way, and no others.                                  *)
Coming(p, i, row) ==
  /\ \A d \in dma : d.buf = <<p, i>> =>
       d.kind = "get" /\ d.frame = frame /\ d.row = row
  /\ (\A d \in dma : d.buf # <<p, i>>) =>
       ls[<<p, i>>] = [frame |-> frame, row |-> row]

(* With noscale the second lines are not fetched again.                    *)
LinesComing ==
  \A p \in Lines, i \in {0, 1} :
    InLoop /\ (p \in {"Y0", "V0"} \/ ~noscale) => Coming(p, i, Want(p, i))

InputTagged ==
  \A d \in dma : \A i \in {0, 1} :
    /\ d.buf = <<"Y0", i>> => d.tag = Tag("Y0", i)
    /\ d.buf = <<"Y1", i>> => d.tag = Tag("Y1", i)
    /\ d.buf = <<"V0", i>> => d.tag \in {Tag("V0", i), Tag("U0", i)}
    /\ d.buf = <<"V1", i>> => d.tag \in {Tag("V1", i), Tag("U1", i)}

InputWaited ==
  /\ pc = "scaleY" => Waited("Y0", "Y1", selY)
  /\ pc \in {"scaleU", "waitV", "scaleV"} => Waited("U0", "U1", selCr)
  /\ pc = "scaleV" => Waited("V0", "V1", selCr)

RInv ==
  /\ PipelineTypeOK
  /\ InLoop => h < Pairs
  /\ pc = "begin" => dma = {}
  /\ LinesComing
  /\ InputTagged
  /\ InputWaited
=============================================================================
