--------------------------- MODULE Yuv2ArgbScaler ---------------------------
(***************************************************************************)
(* The YUV to ARGB scaler service of spu-medialib: the PPU side object of  *)
(* spu-medialib/src/yuv2argb_scaler.c, the SPU program of                  *)
(* spu-medialib/spu/src/spu_yuv2argb_scaler.c, and what they share: the    *)
(* image arguments in main memory (struct img_args) and the mailboxes of   *)
(* the SPE context.                                                        *)
(*                                                                         *)
(* The module holds the state, the steps of the SPU program and the calls  *)
(* of the PPU library.  The modules that extend it are the callers: any    *)
(* caller (ScalerApi), the X video driver (XvVideo), the MPlayer output    *)
(* driver (VoPs3).  How one frame is moved through the local store by DMA  *)
(* is the subject of ScalerPipeline; here a frame is one step, Render.     *)
(***************************************************************************)
EXTENDS Integers, Sequences

CONSTANTS
  Contexts,   \* the SPE contexts that can be created
  Images,     \* source images: the Y, U and V planes given for one frame
  SrcSizes,   \* source sizes, given by the width in pixels
  Places,     \* destinations: dstW, dstH, offset and maxwidth taken together
  Unscaled,   \* the source widths and places of one width and height
  LoadMayFail, \* can spe_program_load fail?
  Unset       \* what is not set yet: the content of fresh memory

ASSUME ScalerAssumption ==
  /\ SrcSizes \subseteq Nat
  /\ Unscaled \subseteq Nat \X Places
  /\ LoadMayFail \in BOOLEAN

(* spu_control.h, the messages, and yuv_datastructs.h, the message forms.  *)
Messages == {"RUN", "STOP", "WAIT", "RDY", "BUSY", "UPDATE"}
Forms == {"INTR", "HARD", "SOFT"}

(* The inbound mailbox of an SPE holds four entries, each outbound one a   *)
(* single entry.                                                           *)
InMboxSize == 4
Outbound == {"empty", "RDY"}

(* struct img_args, one pointer standing for the Y, U, V and output        *)
(* pointers of a buffer, which are always set together.                    *)
Args == [srcW: Nat, place: Places, form: Forms, buf: [{0, 1} -> Images]]

(* Mutant of Flip: the index is counted up.                                *)
FlipCounted(i) == i + 1

(* 0 and 1, the index of a double buffer, exchanged by ^1.                 *)
Flip(i) == 1 - i

VARIABLES
  iargs,   \* img_args in main memory, written by the PPU, read by SPU DMA
  inMbox,  \* PPU to SPU messages, oldest first
  outMbox, \* SPU to PPU mailbox that is polled (HARD)
  outIntr, \* SPU to PPU mailbox that raises an event (INTR)
  pc,      \* where the SPU program of a context is
  msg,     \* its last message
  largs,   \* its local copy of img_args
  sel,     \* selIn and selOut, which are always flipped together
  first,   \* must the filters be computed before the next frame?
  filter,  \* the sizes the filters were computed for, and srcsmallcroma
  shown    \* what the last frame of the context was made from

scalerVars == <<iargs, inMbox, outMbox, outIntr, pc, msg, largs, sel, first,
                filter, shown>>

(* Lines of U and V of such a width do not all start on 16 bytes: every    *)
(* other one is read half a quadword on (srcsmallcroma).                   *)
Small(w) == w % 32 # 0

(* srcsmallcroma when first has been dealt with: an image that is scaled   *)
(* clears it and sets it if need be; one that is not only sets it, so that *)
(* there it may be left from an earlier width.                             *)
SmallAfter(a, before) ==
  \/ Small(a.srcW)
  \/ <<a.srcW, a.place>> \in Unscaled /\ before # Unset /\ before.small

Sized(a, before) ==
  [srcW |-> a.srcW, place |-> a.place, small |-> SmallAfter(a, before)]
Sizes == [srcW: Nat, place: Places, small: BOOLEAN]

Frame(a, i) == [img |-> a.buf[i], srcW |-> a.srcW, place |-> a.place]
Frames == [img: Images, srcW: Nat, place: Places]

(* "absent": no such context; "created": its thread has not started the    *)
(* program yet; "boot": waits for the first message; "fetch": reads        *)
(* img_args; "loop": at the head of the frame loop; "frame": converts;     *)
(* "post": reports; "wait": waits for a message; "refetch": reads img_args *)
(* for an UPDATE; "exited": main has returned; "failed": the program could *)
(* not be loaded.                                                          *)
PCs == {"absent", "created", "boot", "fetch", "loop", "frame", "post", "wait",
        "refetch", "exited", "failed"}

ScalerTypeOK ==
  /\ iargs   \in [Contexts -> Args \cup {Unset}]
  /\ inMbox  \in [Contexts -> Seq(Messages)]
  /\ outMbox \in [Contexts -> Outbound]
  /\ outIntr \in [Contexts -> Outbound]
  /\ pc      \in [Contexts -> PCs]
  /\ msg     \in [Contexts -> Messages]
  /\ largs   \in [Contexts -> Args \cup {Unset}]
  /\ sel     \in [Contexts -> {0, 1}]
  /\ first   \in [Contexts -> BOOLEAN]
  /\ filter  \in [Contexts -> Sizes \cup {Unset}]
  /\ shown   \in [Contexts -> Frames \cup {Unset}]

ScalerInit ==
  /\ iargs   = [c \in Contexts |-> Unset]
  /\ inMbox  = [c \in Contexts |-> <<>>]
  /\ outMbox = [c \in Contexts |-> "empty"]
  /\ outIntr = [c \in Contexts |-> "empty"]
  /\ pc      = [c \in Contexts |-> "absent"]
  /\ msg     = [c \in Contexts |-> "WAIT"]
  /\ largs   = [c \in Contexts |-> Unset]
  /\ sel     = [c \in Contexts |-> 0]
  /\ first   = [c \in Contexts |-> TRUE]
  /\ filter  = [c \in Contexts |-> Unset]
  /\ shown   = [c \in Contexts |-> Unset]

-----------------------------------------------------------------------------
(* The SPU program and the PPU thread that runs it.                        *)

(* yuvscsc_spe_thread loads the program and runs it, or gives up.          *)
Load(c) ==
  /\ pc[c] = "created"
  /\ \/ pc' = [pc EXCEPT ![c] = "boot"]
     \/ LoadMayFail /\ pc' = [pc EXCEPT ![c] = "failed"]
  /\ UNCHANGED <<iargs, inMbox, outMbox, outIntr, msg, largs, sel, first,
                 filter, shown>>

(* Takes a message: spu_stat_in_mbox until there is one, spu_read_in_mbox. *)
Take(c) ==
  /\ inMbox[c] # <<>>
  /\ msg' = [msg EXCEPT ![c] = Head(inMbox[c])]
  /\ inMbox' = [inMbox EXCEPT ![c] = Tail(@)]

(* Whatever the first message is, the arguments are read next.             *)
FirstMessage(c) ==
  /\ pc[c] = "boot"
  /\ Take(c)
  /\ pc' = [pc EXCEPT ![c] = "fetch"]
  /\ UNCHANGED <<iargs, outMbox, outIntr, largs, sel, first, filter, shown>>

Fetch(c) ==
  /\ pc[c] = "fetch"
  /\ largs' = [largs EXCEPT ![c] = iargs[c]]
  /\ pc' = [pc EXCEPT ![c] = "loop"]
  /\ UNCHANGED <<iargs, inMbox, outMbox, outIntr, msg, sel, first, filter,
                 shown>>

(* The head of while (msg!=STOP): leave, or start a frame, computing the   *)
(* filters when first is set.                                              *)
BeginFrame(c) ==
  /\ pc[c] = "loop"
  /\ msg[c] # "STOP"
  /\ filter' = [filter EXCEPT ![c] = IF first[c] THEN Sized(largs[c], @) ELSE @]
  /\ first' = [first EXCEPT ![c] = FALSE]
  /\ pc' = [pc EXCEPT ![c] = "frame"]
  /\ UNCHANGED <<iargs, inMbox, outMbox, outIntr, msg, largs, sel, shown>>

Leave(c) ==
  /\ pc[c] = "loop"
  /\ msg[c] = "STOP"
  /\ pc' = [pc EXCEPT ![c] = "exited"]
  /\ UNCHANGED <<iargs, inMbox, outMbox, outIntr, msg, largs, sel, first,
                 filter, shown>>

(* One frame from the buffers selected by selIn and selOut.                *)
Render(c) ==
  /\ pc[c] = "frame"
  /\ shown' = [shown EXCEPT ![c] = Frame(largs[c], sel[c])]
  /\ pc' = [pc EXCEPT ![c] = "post"]
  /\ UNCHANGED <<iargs, inMbox, outMbox, outIntr, msg, largs, sel, first,
                 filter>>

(* Mutants of Post: the mailbox is not checked for room; no RDY is written; *)
(* waiting is not set.                                                     *)
PostOverwrites(c) ==
  /\ pc[c] = "post"
  /\ IF largs[c].form = "INTR"
     THEN outIntr' = [outIntr EXCEPT ![c] = "RDY"] /\ UNCHANGED outMbox
     ELSE outMbox' = [outMbox EXCEPT ![c] = "RDY"] /\ UNCHANGED outIntr
  /\ msg' = [msg EXCEPT ![c] = "RDY"]
  /\ pc' = [pc EXCEPT ![c] = "wait"]
  /\ UNCHANGED <<iargs, inMbox, largs, sel, first, filter, shown>>

PostSilent(c) ==
  /\ pc[c] = "post"
  /\ msg' = [msg EXCEPT ![c] = "RDY"]
  /\ pc' = [pc EXCEPT ![c] = "wait"]
  /\ UNCHANGED <<iargs, inMbox, outMbox, outIntr, largs, sel, first, filter,
                 shown>>

PostKeepsRunning(c) ==
  /\ pc[c] = "post"
  /\ IF largs[c].form = "INTR"
     THEN /\ outIntr[c] = "empty"
          /\ outIntr' = [outIntr EXCEPT ![c] = "RDY"] /\ UNCHANGED outMbox
     ELSE /\ outMbox[c] = "empty"
          /\ outMbox' = [outMbox EXCEPT ![c] = "RDY"] /\ UNCHANGED outIntr
  /\ msg' = [msg EXCEPT ![c] = "RDY"]
  /\ pc' = [pc EXCEPT ![c] = "loop"]
  /\ UNCHANGED <<iargs, inMbox, largs, sel, first, filter, shown>>

(* RDY into the mailbox of the message form, when it has room.  A SOFT     *)
(* program neither reports nor waits: it starts the next frame.            *)
Post(c) ==
  /\ pc[c] = "post"
  /\ \/ /\ largs[c].form = "INTR"
        /\ outIntr[c] = "empty"
        /\ outIntr' = [outIntr EXCEPT ![c] = "RDY"]
        /\ msg' = [msg EXCEPT ![c] = "RDY"]
        /\ pc' = [pc EXCEPT ![c] = "wait"]
        /\ UNCHANGED outMbox
     \/ /\ largs[c].form = "HARD"
        /\ outMbox[c] = "empty"
        /\ outMbox' = [outMbox EXCEPT ![c] = "RDY"]
        /\ msg' = [msg EXCEPT ![c] = "RDY"]
        /\ pc' = [pc EXCEPT ![c] = "wait"]
        /\ UNCHANGED outIntr
     \/ /\ largs[c].form = "SOFT"
        /\ pc' = [pc EXCEPT ![c] = "loop"]
        /\ UNCHANGED <<outMbox, outIntr, msg>>
  /\ UNCHANGED <<iargs, inMbox, largs, sel, first, filter, shown>>

(* Mutants of Wait: RUN does not flip the buffers; STOP does not end the   *)
(* waiting.                                                                *)
WaitNoFlip(c) ==
  /\ pc[c] = "wait"
  /\ Take(c)
  /\ pc' = [pc EXCEPT ![c] = CASE msg'[c] \in {"RUN", "STOP"} -> "loop"
                               [] msg'[c] = "UPDATE" -> "refetch"
                               [] OTHER -> "wait"]
  /\ UNCHANGED <<iargs, outMbox, outIntr, largs, sel, first, filter, shown>>

WaitIgnoresStop(c) ==
  /\ pc[c] = "wait"
  /\ Take(c)
  /\ sel' = [sel EXCEPT ![c] = IF msg'[c] = "RUN" THEN Flip(@) ELSE @]
  /\ pc' = [pc EXCEPT ![c] = CASE msg'[c] = "RUN" -> "loop"
                               [] msg'[c] = "UPDATE" -> "refetch"
                               [] OTHER -> "wait"]
  /\ UNCHANGED <<iargs, outMbox, outIntr, largs, first, filter, shown>>

(* while (waiting): RUN flips the buffers and runs, STOP ends the frame    *)
(* loop, UPDATE reads the arguments again, anything else is ignored.       *)
Wait(c) ==
  /\ pc[c] = "wait"
  /\ Take(c)
  /\ sel' = [sel EXCEPT ![c] = IF msg'[c] = "RUN" THEN Flip(@) ELSE @]
  /\ pc' = [pc EXCEPT ![c] = CASE msg'[c] \in {"RUN", "STOP"} -> "loop"
                               [] msg'[c] = "UPDATE" -> "refetch"
                               [] OTHER -> "wait"]
  /\ UNCHANGED <<iargs, outMbox, outIntr, largs, first, filter, shown>>

(* Mutant of Refetch: first is not set, the old filters stay.              *)
RefetchKeepsFilters(c) ==
  /\ pc[c] = "refetch"
  /\ largs' = [largs EXCEPT ![c] = iargs[c]]
  /\ pc' = [pc EXCEPT ![c] = "wait"]
  /\ UNCHANGED <<iargs, inMbox, outMbox, outIntr, msg, sel, first, filter,
                 shown>>

Refetch(c) ==
  /\ pc[c] = "refetch"
  /\ largs' = [largs EXCEPT ![c] = iargs[c]]
  /\ first' = [first EXCEPT ![c] = TRUE]
  /\ pc' = [pc EXCEPT ![c] = "wait"]
  /\ UNCHANGED <<iargs, inMbox, outMbox, outIntr, msg, sel, filter, shown>>

(* spe_context_run has returned: the thread destroys the context, and with *)
(* it its mailboxes and local store; img_args is not freed, and what was   *)
(* converted stays on the screen.                                          *)
DestroyContext(c) ==
  /\ pc[c] = "exited"
  /\ pc' = [pc EXCEPT ![c] = "absent"]
  /\ inMbox' = [inMbox EXCEPT ![c] = <<>>]
  /\ outMbox' = [outMbox EXCEPT ![c] = "empty"]
  /\ outIntr' = [outIntr EXCEPT ![c] = "empty"]
  /\ msg' = [msg EXCEPT ![c] = "WAIT"]
  /\ largs' = [largs EXCEPT ![c] = Unset]
  /\ sel' = [sel EXCEPT ![c] = 0]
  /\ first' = [first EXCEPT ![c] = TRUE]
  /\ filter' = [filter EXCEPT ![c] = Unset]
  /\ UNCHANGED <<iargs, shown>>

SpuStep(c) ==
  \/ Load(c)
  \/ FirstMessage(c)
  \/ Fetch(c)
  \/ BeginFrame(c)
  \/ Leave(c)
  \/ Render(c)
  \/ Post(c)
  \/ Wait(c)
  \/ Refetch(c)
  \/ DestroyContext(c)

-----------------------------------------------------------------------------
(* The calls of the PPU library on a context.                              *)

(* yuvscsc_init_yuv2argb_scaler: both buffers, the message form INTR, a    *)
(* context and the thread that will run the program in it.                 *)
Create(c, srcW, place, front, back) ==
  /\ pc[c] = "absent"
  /\ iargs' = [iargs EXCEPT ![c] = [srcW |-> srcW, place |-> place,
                                    form |-> "INTR",
                                    buf |-> [i \in {0, 1} |->
                                               IF i = 0 THEN front ELSE back]]]
  /\ pc' = [pc EXCEPT ![c] = "created"]
  /\ shown' = [shown EXCEPT ![c] = Unset]
  /\ UNCHANGED <<inMbox, outMbox, outIntr, msg, largs, sel, first, filter>>

(* The setters write img_args in main memory and nothing else.             *)
SetArgs(c, args) ==
  /\ iargs' = [iargs EXCEPT ![c] = args]
  /\ UNCHANGED <<inMbox, outMbox, outIntr, pc, msg, largs, sel, first, filter,
                 shown>>

(* yuvscsc_send_message: spin until the mailbox has room, then write.      *)
Send(c, m) ==
  /\ Len(inMbox[c]) < InMboxSize
  /\ inMbox' = [inMbox EXCEPT ![c] = Append(@, m)]
  /\ UNCHANGED <<iargs, outMbox, outIntr, pc, msg, largs, sel, first, filter,
                 shown>>

(* yuvscsc_receive_message, when the event has come.                       *)
ReceiveIntr(c) ==
  /\ outIntr[c] = "RDY"
  /\ outIntr' = [outIntr EXCEPT ![c] = "empty"]
  /\ UNCHANGED <<iargs, inMbox, outMbox, pc, msg, largs, sel, first, filter,
                 shown>>

(* yuvscsc_receive_message_hard, when the status shows an entry.           *)
ReceiveHard(c) ==
  /\ outMbox[c] = "RDY"
  /\ outMbox' = [outMbox EXCEPT ![c] = "empty"]
  /\ UNCHANGED <<iargs, inMbox, outIntr, pc, msg, largs, sel, first, filter,
                 shown>>

-----------------------------------------------------------------------------
(* Predicates the callers' properties are built from.                      *)

(* The context exists: created, and not yet destroyed by its thread.       *)
Live(c) == pc[c] # "absent"

Holds(c, m) == \E i \in 1 .. Len(inMbox[c]) : inMbox[c][i] = m

(* A message that makes the SPU program read img_args is on its way, or it *)
(* is reading them.                                                        *)
WillFetch(c) ==
  \/ pc[c] \in {"fetch", "refetch"}
  \/ pc[c] \in {"created", "boot"} /\ inMbox[c] # <<>>
  \/ pc[c] # "failed" /\ Holds(c, "UPDATE")

(* The program has work it will answer with RDY: a frame under way, or the *)
(* message that starts one.                                                *)
Working(c) ==
  \/ pc[c] \in {"fetch", "loop", "frame", "post"} /\ msg[c] # "STOP"
  \/ pc[c] \in {"created", "boot", "wait", "refetch"} /\ Holds(c, "RUN")

(* Filters f are those of the sizes of a, but that chroma may be read as   *)
(* for the width of an earlier image where nothing is scaled now.          *)
Fits(f, a) ==
  /\ f.srcW = a.srcW /\ f.place = a.place
  /\ Small(a.srcW) => f.small
  /\ f.small => Small(a.srcW) \/ <<a.srcW, a.place>> \in Unscaled

(* The filters a frame is scaled with are those of the sizes it is scaled  *)
(* to (spu_yuv2argb_scaler.c, "update filters to reflect the new image!"), *)
(* and so is the way its chroma is read if it is scaled at all; a frame    *)
(* that is only converted may read chroma in the way of an earlier width.  *)
FilterMatches == \A c \in Contexts :
  pc[c] = "frame" => Fits(filter[c], largs[c])
=============================================================================
