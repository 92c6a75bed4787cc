------------------------------ MODULE Yuv2Rgb -------------------------------
(***************************************************************************)
(* The yuv2rgb service of spu-medialib: the library (src/yuv2rgb.c), its   *)
(* thread, and the SPU program (spu/src/spu_yuv2rgb.c) that converts one   *)
(* frame for every message, from and to two buffers in turn, and posts     *)
(* RDY; with a caller like examples/src/yuv2rgb.cpp, which waits for each  *)
(* answer, and which may set a width and send UPDATE as yuv2rgb.h says.    *)
(* (csc_set_srcH is declared there, but there is no such function.)        *)
(*                                                                         *)
(* Frames are numbered as their messages.  Lines move two at a time with   *)
(* the chroma they share, as one command.  Commands complete in any order, *)
(* those of one tag too: none of them has a fence.  Widths are multiples   *)
(* of 32, of which lines of chroma are whole DMA blocks; the offset,       *)
(* maxwidth and dstW are left out.                                         *)
(***************************************************************************)
EXTENDS Integers, Sequences

CONSTANTS
  PairCounts, \* heights of the source, in pairs of lines
  Widths,     \* widths of the source
  MaxFrames,  \* bound: messages but STOP
  NoLines     \* what a place holds that was never written

ASSUME CscAssumption ==
  /\ PairCounts \subseteq Nat \ {0}
  /\ \E n \in PairCounts : \A m \in PairCounts : m <= n
  /\ MaxFrames \in Nat
  /\ NoLines \notin [frame: Nat, pair: Nat, width: Widths, chroma: BOOLEAN]

VARIABLES
  cscHost,   \* the call the caller is in
  cscOrder,  \* the message it is sending
  height,    \* iargs->srcH / 2
  width,     \* iargs->srcW
  chromaOf,  \* Ustart and Vstart: the width they were computed from
  asked,     \* history: the width of each frame asked for
  answered,  \* RDYs received
  drawn,     \* frames the caller has drawn: the last two are in Ystart
  cscThread, \* csc_spe_thread
  cscIn, cscOut, \* the inbound and the outbound interrupt mailbox
  cscPc,     \* where the program is
  taken,     \* its copy of the width; that of the height never differs
  flips,     \* selIn and selOut, which are always flipped together
  line,      \* i
  lines,     \* Iybuffer with its chroma, and Obuffer
  moving,    \* by tag, each of which has one buffer, the commands under way
  shownLines, \* what is in the two output buffers in main memory
  overtaken  \* history: pairs of this frame fetched with others under way

cscHostVars == <<cscHost, cscOrder, height, width, chromaOf, asked, answered,
                 drawn>>
cscSpuVars == <<cscPc, taken, flips, line>>
cscDmaVars == <<lines, moving, shownLines, overtaken>>
cscVars == <<cscHostVars, cscThread, cscIn, cscOut, cscSpuVars, cscDmaVars>>

CscTags == {"tgi", "tgo"} \X {0, 1}
MostPairs == CHOOSE n \in PairCounts : \A m \in PairCounts : m <= n
Places == {0, 1} \X (0 .. MostPairs - 1)

(* Frame n is in the buffers of the index n - 1 has left behind.           *)
IndexOf(frame) == (frame + 1) % 2

CscInit ==
  /\ cscHost = "idle" /\ cscOrder = "RUN"
  /\ height \in PairCounts
  /\ width \in Widths /\ chromaOf = width
  /\ asked = <<>> /\ answered = 0 /\ drawn = 0
  /\ cscThread = "new" /\ cscIn = <<>> /\ cscOut = <<>>
  /\ cscPc = "none" /\ taken = width /\ flips = 0 /\ line = 0
  /\ lines = [t \in CscTags |-> NoLines]
  /\ moving = [t \in CscTags |-> {}]
  /\ shownLines = [p \in Places |-> NoLines]
  /\ overtaken = {}

-----------------------------------------------------------------------------
(* The caller draws a frame while the one before is converted.             *)
CscDraw ==
  /\ cscHost = "idle"
  /\ drawn = Len(asked) /\ drawn < MaxFrames
  /\ drawn' = drawn + 1
  /\ UNCHANGED <<cscHost, cscOrder, height, width, chromaOf, asked, answered,
                 cscThread, cscIn, cscOut, cscSpuVars, cscDmaVars>>

(* csc_set_srcW and UPDATE; the first message is RUN.  Where the chroma    *)
(* starts is not computed again.                                           *)
CscUpdate(w) ==
  /\ cscHost = "idle"
  /\ answered = Len(asked) /\ answered > 0 /\ drawn > answered
  /\ width' = w
  /\ cscHost' = "send" /\ cscOrder' = "UPDATE"
  /\ UNCHANGED <<height, chromaOf, asked, answered, drawn, cscThread, cscIn,
                 cscOut, cscSpuVars, cscDmaVars>>

CscRun ==
  /\ cscHost = "idle"
  /\ answered = Len(asked) /\ drawn > answered
  /\ cscHost' = "send" /\ cscOrder' = "RUN"
  /\ UNCHANGED <<height, width, chromaOf, asked, answered, drawn, cscThread,
                 cscIn, cscOut, cscSpuVars, cscDmaVars>>

(* csc_send_message                                                        *)
CscSend ==
  /\ cscHost = "send"
  /\ Len(cscIn) < 4
  /\ cscIn' = Append(cscIn, cscOrder)
  /\ asked' = Append(asked, width)
  /\ cscHost' = "idle"
  /\ UNCHANGED <<cscOrder, height, width, chromaOf, answered, drawn,
                 cscThread, cscOut, cscSpuVars, cscDmaVars>>

(* csc_receive_message                                                     *)
CscReceive ==
  /\ cscHost = "idle" /\ answered < Len(asked)
  /\ cscHost' = "receive"
  /\ UNCHANGED <<cscOrder, height, width, chromaOf, asked, answered, drawn,
                 cscThread, cscIn, cscOut, cscSpuVars, cscDmaVars>>

CscReceived ==
  /\ cscHost = "receive"
  /\ cscOut # <<>>
  /\ cscOut' = <<>>
  /\ answered' = answered + 1
  /\ cscHost' = "idle"
  /\ UNCHANGED <<cscOrder, height, width, chromaOf, asked, drawn, cscThread,
                 cscIn, cscSpuVars, cscDmaVars>>

(* The STOP of csc_yuv2rgb_destroy, before which the example has sent one. *)
CscDestroy ==
  /\ cscHost = "idle" /\ answered = Len(asked)
  /\ \E twice \in BOOLEAN :
       cscIn' = cscIn \o IF twice THEN <<"STOP", "STOP">> ELSE <<"STOP">>
  /\ cscHost' = "join"
  /\ UNCHANGED <<cscOrder, height, width, chromaOf, asked, answered, drawn,
                 cscThread, cscOut, cscSpuVars, cscDmaVars>>

CscJoined ==
  /\ cscHost = "join" /\ cscThread = "ended"
  /\ cscHost' = "joined"
  /\ UNCHANGED <<cscOrder, height, width, chromaOf, asked, answered, drawn,
                 cscThread, cscIn, cscOut, cscSpuVars, cscDmaVars>>

(* The thread loads the program, which may fail, and runs it.              *)
CscLoad ==
  /\ cscThread = "new"
  /\ \/ cscThread' = "runs" /\ cscPc' = "boot"
     \/ cscThread' = "ended" /\ UNCHANGED cscPc
  /\ UNCHANGED <<cscHostVars, cscIn, cscOut, taken, flips, line, cscDmaVars>>

CscEnded ==
  /\ cscThread = "runs" /\ cscPc = "exit"
  /\ cscThread' = "ended"
  /\ UNCHANGED <<cscHostVars, cscIn, cscOut, cscSpuVars, cscDmaVars>>

-----------------------------------------------------------------------------
(* The arguments are fetched before the first message.                     *)
CscBoot ==
  /\ cscPc = "boot"
  /\ taken' = width
  /\ cscPc' = "first"
  /\ UNCHANGED <<cscHostVars, cscThread, cscIn, cscOut, flips, line,
                 cscDmaVars>>

CscFirst ==
  /\ cscPc = "first"
  /\ cscIn # <<>>
  /\ cscIn' = Tail(cscIn)
  /\ cscPc' = IF Head(cscIn) = "STOP" THEN "exit" ELSE "fetch"
  /\ UNCHANGED <<cscHostVars, cscThread, cscOut, taken, flips, line,
                 cscDmaVars>>

(* Mutant of CscTake: the flip counts on.                                  *)
CscTakeCounted ==
  /\ cscPc = "wait"
  /\ cscIn # <<>>
  /\ cscIn' = Tail(cscIn)
  /\ cscPc' = IF Head(cscIn) = "STOP" THEN "exit" ELSE "fetch"
  /\ taken' = IF Head(cscIn) = "UPDATE" THEN width ELSE taken
  /\ flips' = flips + 1
  /\ UNCHANGED <<cscHostVars, cscThread, cscOut, line, cscDmaVars>>

(* Every message flips, and all but STOP start a frame.                    *)
CscTake ==
  /\ cscPc = "wait"
  /\ cscIn # <<>>
  /\ cscIn' = Tail(cscIn)
  /\ cscPc' = IF Head(cscIn) = "STOP" THEN "exit" ELSE "fetch"
  /\ taken' = IF Head(cscIn) = "UPDATE" THEN width ELSE taken
  /\ flips' = 1 - flips
  /\ UNCHANGED <<cscHostVars, cscThread, cscOut, line, cscDmaVars>>

(* The first lines, whether the frame has so many or not.  The lines that  *)
(* the last frame fetched ahead may be under way still, to the same        *)
(* buffers, and may be the last to arrive.                                 *)
CscFetch ==
  /\ cscPc = "fetch"
  /\ moving' = [t \in CscTags |->
                  moving[t] \cup IF t[1] = "tgi" THEN {<<flips, t[2]>>} ELSE {}]
  /\ overtaken' = {p \in {0, 1} : moving[<<"tgi", p>>] \ {<<flips, p>>} # {}}
  /\ line' = 0
  /\ cscPc' = "convert"
  /\ UNCHANGED <<cscHostVars, cscThread, cscIn, cscOut, taken, flips, lines,
                 shownLines>>

CscIssued(sel) ==
  [moving EXCEPT ![<<"tgo", sel>>] = @ \cup {<<flips, line>>},
                 ![<<"tgi", sel>>] = @ \cup {<<flips, line + 2>>}]

(* Mutant of CscConvert: the output buffer is not waited for.              *)
CscConvertNoWait ==
  LET sel == line % 2 IN
  /\ cscPc = "convert" /\ line < height
  /\ moving[<<"tgi", sel>>] = {}
  /\ lines' = [lines EXCEPT ![<<"tgo", sel>>] = lines[<<"tgi", sel>>]]
  /\ moving' = CscIssued(sel)
  /\ line' = line + 1
  /\ UNCHANGED <<cscHostVars, cscThread, cscIn, cscOut, cscPc, taken, flips,
                 shownLines, overtaken>>

(* A pair is converted and put, and the one after the next fetched.        *)
CscConvert ==
  LET sel == line % 2 IN
  /\ cscPc = "convert" /\ line < height
  /\ moving[<<"tgi", sel>>] = {} /\ moving[<<"tgo", sel>>] = {}
  /\ lines' = [lines EXCEPT ![<<"tgo", sel>>] = lines[<<"tgi", sel>>]]
  /\ moving' = CscIssued(sel)
  /\ line' = line + 1
  /\ UNCHANGED <<cscHostVars, cscThread, cscIn, cscOut, cscPc, taken, flips,
                 shownLines, overtaken>>

(* The last put is waited for, twice; not the one before it.               *)
CscFinish ==
  /\ cscPc = "convert" /\ line = height
  /\ moving[<<"tgo", (line + 1) % 2>>] = {}
  /\ cscPc' = "post"
  /\ UNCHANGED <<cscHostVars, cscThread, cscIn, cscOut, taken, flips, line,
                 cscDmaVars>>

CscPost ==
  /\ cscPc = "post"
  /\ cscOut = <<>>
  /\ cscOut' = <<"RDY">>
  /\ cscPc' = "wait"
  /\ UNCHANGED <<cscHostVars, cscThread, cscIn, taken, flips, line,
                 cscDmaVars>>

(* The frame in an input buffer.                                           *)
Drawing(sel) == IF drawn > 0 /\ IndexOf(drawn) # sel THEN drawn - 1 ELSE drawn

(* The lines of an input buffer at a place, by the width the program has   *)
(* (had, if the frame before fetched them, but then they are of no use);   *)
(* the chroma is theirs if it starts where the width says.                 *)
Fetched(c) == [frame |-> Drawing(c[1]), pair |-> c[2], width |-> taken,
               chroma |-> taken = chromaOf]

(* Any command of a tag completes, whatever was issued before it.          *)
CscMoved(t) ==
  /\ \E c \in moving[t] :
       /\ moving' = [moving EXCEPT ![t] = @ \ {c}]
       /\ IF t[1] = "tgo"
          THEN shownLines' = [shownLines EXCEPT ![c] = lines[t]] /\ UNCHANGED lines
          ELSE lines' = [lines EXCEPT ![t] = Fetched(c)] /\ UNCHANGED shownLines
  /\ UNCHANGED <<cscHostVars, cscThread, cscIn, cscOut, cscSpuVars, overtaken>>

CscCaller ==
  \/ CscDraw \/ CscRun \/ CscReceive \/ CscDestroy
  \/ \E w \in Widths : CscUpdate(w)

CscService ==
  \/ CscSend \/ CscReceived \/ CscJoined
  \/ CscLoad \/ CscEnded
  \/ CscBoot \/ CscFirst \/ CscTake \/ CscFetch \/ CscConvert \/ CscFinish
  \/ CscPost
  \/ \E t \in CscTags : CscMoved(t)

CscNext == CscCaller \/ CscService

CscSpec == CscInit /\ [][CscNext]_cscVars /\ WF_cscVars(CscService)

-----------------------------------------------------------------------------
Lines == [frame: Nat, pair: Nat, width: Widths, chroma: BOOLEAN]

CscTypeOK ==
  /\ cscHost \in {"idle", "send", "receive", "join", "joined"}
  /\ cscOrder \in {"RUN", "UPDATE"}
  /\ height \in PairCounts
  /\ width \in Widths /\ chromaOf \in Widths /\ taken \in Widths
  /\ asked \in Seq(Widths)
  /\ answered \in 0 .. Len(asked) /\ drawn \in Len(asked) .. Len(asked) + 1
  /\ cscThread \in {"new", "runs", "ended"}
  /\ cscIn \in Seq({"RUN", "UPDATE", "STOP"}) /\ Len(cscIn) <= 4
  /\ cscOut \in {<<>>, <<"RDY">>}
  /\ cscPc \in {"none", "boot", "first", "fetch", "convert", "post", "wait",
                "exit"}
  /\ flips \in {0, 1} /\ line \in 0 .. MostPairs
  /\ lines \in [CscTags -> Lines \cup {NoLines}]
  /\ \A t \in CscTags : moving[t] \subseteq {0, 1} \X Nat
  /\ shownLines \in [Places -> Lines \cup {NoLines}]
  /\ overtaken \subseteq {0, 1}

(* When a frame is answered, the buffer it belongs to holds every pair of  *)
(* its lines, converted from that frame and that place by its own width,   *)
(* whatever was sent before, RUN or UPDATE; and with its chroma if that    *)
(* width is the one of csc_init_yuv2rgb.  Two exceptions: the last pair    *)
(* but one, which nothing has waited for, may still be on its way, as it   *)
(* should be; and lines the frame before had fetched ahead may have        *)
(* arrived after the first two pairs, in their place, but only where both  *)
(* were under way at once.                                                 *)
FrameConverted ==
  cscHost = "idle" /\ answered = Len(asked) /\ answered > 0 =>
    \A p \in (0 .. height - 1) \ overtaken :
      LET wide == asked[answered]
          made == [frame |-> answered, pair |-> p, width |-> wide,
                   chroma |-> wide = chromaOf]
      IN
      \/ shownLines[<<IndexOf(answered), p>>] = made
      \/ /\ p = height - 2
         /\ moving[<<"tgo", p % 2>>] = {<<IndexOf(answered), p>>}
         /\ lines[<<"tgo", p % 2>>] = made
=============================================================================
