------------------------------ MODULE XvVideo -------------------------------
(***************************************************************************)
(* The X video port of xf86-video-spu (spu_video.c), a caller of the       *)
(* scaler service.  The X server calls SPUPutImage for every image a       *)
(* client shows and SPUStopVideo when it takes the port away; both run to  *)
(* their end before the next call, while the SPU program and the thread    *)
(* that runs it go on beside them.                                         *)
(*                                                                         *)
(* Of an image: the planes, its source width, and its place on the screen  *)
(* (drw_x, drw_y, drw_w, drw_h and the pixmap's width).                    *)
(***************************************************************************)
EXTENDS Yuv2ArgbScaler

CONSTANTS
  Drawn,   \* of a place, drw_x, drw_y, drw_w and drw_h: not the pixmap's width
  Formats, \* of YV12/I420 ("planar") and YUY2/UYVY ("packed"), those used
  MayStop  \* does the X server ever take the port away?

ASSUME XvAssumption ==
  /\ Formats \subseteq {"planar", "packed"}
  /\ MayStop \in BOOLEAN
  /\ Unset \notin Contexts
  /\ Unset \notin Frames

VARIABLES
  xpc,           \* where the X server is in SPUPutImage or SPUStopVideo
  running,       \* pPriv->running
  ctx,           \* pPriv->yuv4202argb, the context of the scaler object
  currentBuffer, \* pPriv->currentBuffer
  old,           \* pPriv->old_w, old_h, old_x and old_y
  put,           \* the image given to the SPUPutImage call under way, if any
  on             \* isOn of xf86XV: has the port shown an image since it was stopped?

xvVars == <<xpc, running, ctx, currentBuffer, old, put, on>>
vars == <<scalerVars, xvVars>>

XPCs == {"idle", "setForm", "sendUpdate", "sendRun", "flip", "receive",
         "sendStop", "sendAgain", "lost"}
Drawings == {Drawn[p] : p \in Places}
Calls == [fmt: {"planar", "packed"}, img: Images, srcW: SrcSizes,
          place: Places]

TypeOK ==
  /\ ScalerTypeOK
  /\ xpc \in XPCs
  /\ running \in BOOLEAN
  /\ ctx \in Contexts \cup {Unset}
  /\ currentBuffer \in {0, 1}
  /\ old \in Drawings \cup {Unset}
  /\ put \in Calls \cup {Unset}
  /\ on \in BOOLEAN

Init ==
  /\ ScalerInit
  /\ xpc = "idle"
  /\ running = FALSE
  /\ ctx = Unset
  /\ currentBuffer = 0
  /\ old = Unset
  /\ put = Unset
  /\ on = FALSE

(* 16*(src_w>>4): the SPU moves whole groups of 16 pixels.                 *)
Align16(w) == 16 * (w \div 16)

-----------------------------------------------------------------------------
(* SPUPutImage with a planar image while a scaler runs: the new sizes when *)
(* the place on the screen is not that of the last image, and the buffer   *)
(* pointers.                                                               *)
PutRunning(img, srcW, place) ==
  LET moved == old # Drawn[place]
      sized == IF moved
               THEN [iargs[ctx] EXCEPT !.srcW = Align16(srcW), !.place = place]
               ELSE iargs[ctx]
  IN /\ xpc = "idle" /\ running /\ "planar" \in Formats
     /\ SetArgs(ctx, [sized EXCEPT !.buf[currentBuffer] = img])
     /\ old' = Drawn[place]
     /\ put' = [fmt |-> "planar", img |-> img, srcW |-> srcW, place |-> place]
     /\ xpc' = "sendUpdate"
     /\ UNCHANGED <<running, ctx, currentBuffer, on>>

(* SPUPutImage with a planar image while none runs: a new scaler, given    *)
(* the image as front and as back buffer.                                  *)
PutFirst(c, img, srcW, place) ==
  /\ xpc = "idle" /\ ~running /\ "planar" \in Formats
  /\ Create(c, srcW, place, img, img)
  /\ running' = TRUE
  /\ ctx' = c
  /\ old' = Drawn[place]
  /\ put' = [fmt |-> "planar", img |-> img, srcW |-> srcW, place |-> place]
  /\ xpc' = "setForm"
  /\ UNCHANGED <<currentBuffer, on>>

(* SPUPutImage with a packed image, announced but not implemented.         *)
PutPacked(img, srcW, place) ==
  /\ xpc = "idle" /\ "packed" \in Formats
  /\ put' = [fmt |-> "packed", img |-> img, srcW |-> srcW, place |-> place]
  /\ xpc' = "flip"
  /\ UNCHANGED <<scalerVars, running, ctx, currentBuffer, old, on>>

(* Mutant of SetForm: the program is left to report by interrupt.          *)
SetFormForgotten ==
  /\ xpc = "setForm"
  /\ xpc' = "sendRun"
  /\ UNCHANGED <<scalerVars, running, ctx, currentBuffer, old, put, on>>

SetForm ==
  /\ xpc = "setForm"
  /\ SetArgs(ctx, [iargs[ctx] EXCEPT !.form = "HARD"])
  /\ xpc' = "sendRun"
  /\ UNCHANGED <<running, ctx, currentBuffer, old, put, on>>

(* Mutant of SendUpdate: no UPDATE is sent.                                *)
SendUpdateForgotten ==
  /\ xpc = "sendUpdate"
  /\ xpc' = "sendRun"
  /\ UNCHANGED <<scalerVars, running, ctx, currentBuffer, old, put, on>>

SendUpdate ==
  /\ xpc = "sendUpdate"
  /\ Send(ctx, "UPDATE")
  /\ xpc' = "sendRun"
  /\ UNCHANGED <<running, ctx, currentBuffer, old, put, on>>

SendRun ==
  /\ xpc = "sendRun"
  /\ Send(ctx, "RUN")
  /\ xpc' = "flip"
  /\ UNCHANGED <<running, ctx, currentBuffer, old, put, on>>

(* Mutant of FlipBuffer: the call returns without waiting.                 *)
FlipBufferNoWait ==
  /\ xpc = "flip"
  /\ currentBuffer' = Flip(currentBuffer)
  /\ xpc' = "idle" /\ on' = TRUE /\ put' = Unset
  /\ UNCHANGED <<scalerVars, running, ctx, old>>

(* Every format: the other buffer is next, and wait if a scaler runs.      *)
FlipBuffer ==
  /\ xpc = "flip"
  /\ currentBuffer' = Flip(currentBuffer)
  /\ IF running THEN xpc' = "receive" /\ UNCHANGED <<put, on>>
                ELSE xpc' = "idle" /\ put' = Unset /\ on' = TRUE
  /\ UNCHANGED <<scalerVars, running, ctx, old>>

Receive ==
  /\ xpc = "receive"
  /\ ReceiveHard(ctx)
  /\ on' = TRUE
  /\ xpc' = "idle" /\ put' = Unset
  /\ UNCHANGED <<running, ctx, currentBuffer, old>>

(* Mutant of ReceiveNothing: the time is up before a frame is converted.   *)
ReceiveTooShort ==
  /\ xpc = "receive"
  /\ outMbox[ctx] = "empty"
  /\ on' \in {on, TRUE}
  /\ xpc' = "idle" /\ put' = Unset
  /\ UNCHANGED <<scalerVars, running, ctx, currentBuffer, old>>

(* After 10000 seconds yuvscsc_receive_message_hard reads an empty mailbox *)
(* and returns what was on its stack: RDY, for Success, or something else, *)
(* for -1.  A frame takes much less, so this happens only when no frame is *)
(* on its way.                                                             *)
ReceiveNothing ==
  /\ xpc = "receive"
  /\ outMbox[ctx] = "empty"
  /\ ~Working(ctx)
  /\ on' \in {on, TRUE}
  /\ xpc' = "idle" /\ put' = Unset
  /\ UNCHANGED <<scalerVars, running, ctx, currentBuffer, old>>

(* SPUPutImage with an image that is clipped away.                         *)
PutClipped ==
  /\ xpc = "idle"
  /\ on' = TRUE
  /\ UNCHANGED <<scalerVars, xpc, running, ctx, currentBuffer, old, put>>

(* Mutant of StopVideo: running stays set.                                 *)
StopVideoStillRunning ==
  /\ xpc = "idle" /\ on /\ MayStop
  /\ on' = FALSE
  /\ xpc' = IF running THEN "sendStop" ELSE "sendAgain"
  /\ UNCHANGED <<scalerVars, running, ctx, currentBuffer, old, put>>

(* SPUStopVideo with cleanup, which xf86XV calls for a port that is on.    *)
(* STOP is sent whether or not a scaler runs, through a pointer that is    *)
(* never cleared.                                                          *)
StopVideo ==
  /\ xpc = "idle" /\ on /\ MayStop
  /\ running' = FALSE
  /\ on' = FALSE
  /\ xpc' = IF running THEN "sendStop" ELSE "sendAgain"
  /\ UNCHANGED <<scalerVars, ctx, currentBuffer, old, put>>

SendStop ==
  /\ xpc = "sendStop"
  /\ Send(ctx, "STOP")
  /\ xpc' = "idle"
  /\ UNCHANGED <<running, ctx, currentBuffer, old, put, on>>

(* The port was given nothing but packed or clipped images since its last  *)
(* stop, or ever.  The scaler that was stopped may still read its mailbox; *)
(* its context may be destroyed already, and nobody knows what becomes of  *)
(* the call; or there never was one, and the pointer is null.              *)
SendAgain ==
  /\ xpc = "sendAgain"
  /\ \/ ctx # Unset /\ Live(ctx) /\ Send(ctx, "STOP") /\ xpc' = "idle"
     \/ ctx # Unset /\ ~Live(ctx) /\ xpc' \in {"idle", "lost"} /\ UNCHANGED scalerVars
     \/ ctx = Unset /\ xpc' = "lost" /\ UNCHANGED scalerVars
  /\ UNCHANGED <<running, ctx, currentBuffer, old, put, on>>

(* A call of the X server.                                                 *)
Call ==
  \/ \E img \in Images, srcW \in SrcSizes, place \in Places :
       \/ PutRunning(img, srcW, place)
       \/ \E c \in Contexts : PutFirst(c, img, srcW, place)
       \/ PutPacked(img, srcW, place)
  \/ PutClipped
  \/ StopVideo

(* The rest of a call, once it is made.                                    *)
Continue ==
  \/ SetForm
  \/ SendUpdate
  \/ SendRun
  \/ FlipBuffer
  \/ Receive
  \/ ReceiveNothing
  \/ SendStop
  \/ SendAgain

(* The SPU programs run in threads of the X server, and are lost with it.  *)
Spu == xpc # "lost" /\ \E c \in Contexts : SpuStep(c) /\ UNCHANGED xvVars

Next == Call \/ Continue \/ Spu

Spec == Init /\ [][Next]_vars

(* The X server goes on with a call it has made, and every SPU runs; that  *)
(* another call is made is not promised.                                   *)
Fairness ==
  /\ WF_vars(Continue)
  /\ \A c \in Contexts : WF_vars(xpc # "lost" /\ SpuStep(c) /\ UNCHANGED xvVars)

FairSpec == Spec /\ Fairness

-----------------------------------------------------------------------------
(* Between two calls of the X server no scaler works and no answer is      *)
(* left in a mailbox, so that a later call cannot take the answer of an    *)
(* earlier one for its own (spu_video.c, SPUPutImage and SPUStopVideo).    *)
IdleMeansAnswered ==
  xpc = "idle" => \A c \in Contexts : ~Working(c) /\ outMbox[c] = "empty"

(* The thread of yuv2argb_scaler.c destroys the context when the program   *)
(* ends, whatever the caller is doing: the port never sends a message of   *)
(* an image, or the first STOP, to a context that is gone, and never waits *)
(* for one.  Only a further STOP may find its context gone, and it never   *)
(* reaches a scaler that still has frames to convert.                      *)
SendsReachLiveContext ==
  /\ xpc \in {"setForm", "sendUpdate", "sendRun", "receive", "sendStop"} =>
       ctx \in Contexts /\ Live(ctx)
  /\ xpc = "sendAgain" /\ ctx # Unset =>
       ~Live(ctx) \/ pc[ctx] = "failed" \/ Holds(ctx, "STOP") \/ msg[ctx] = "STOP"

(* img_args is not written while the SPU program is about to read it: the  *)
(* setters and yuvscsc_set_Buffers of one call happen before the UPDATE of *)
(* the same call and after the frame of the last one.                      *)
ArgsStable ==
  [][\A c \in Contexts : iargs'[c] # iargs[c] => ~WillFetch(c)]_vars

OnlyStops(c) == \A i \in 1 .. Len(inMbox[c]) : inMbox[c][i] = "STOP"

(* A program stops only with every RUN it was sent answered and collected, *)
(* and nothing unread but a further STOP.                                  *)
StopLosesNoFrame ==
  [][\A c \in Contexts :
       pc[c] = "loop" /\ pc'[c] = "exited" =>
         OnlyStops(c) /\ outMbox[c] = "empty" /\ outIntr[c] = "empty"]_vars

(* SPUPutImage with a planar image waits for the SPU only when the SPU has *)
(* something to do for it, unless the program could not be loaded:         *)
(* otherwise it sits out the 10000 seconds of the poll loop.               *)
NoFutileWait ==
  xpc = "receive" /\ put.fmt = "planar" /\ pc[ctx] # "failed" =>
    Working(ctx) \/ outMbox[ctx] = "RDY"

(* spu_video.c, "Image Processed": when RDY is there to be received, the   *)
(* image on the screen is the one given to this call, where it is to be    *)
(* drawn.                                                                  *)
ImageProcessed ==
  xpc = "receive" /\ outMbox[ctx] = "RDY" =>
    shown[ctx].img = put.img /\ Drawn[shown[ctx].place] = Drawn[put.place]

(* spu_video.c, "the image has moved or changed size..": an image of       *)
(* another size than the last one is converted with its own size.          *)
SizeProcessed ==
  xpc = "receive" /\ outMbox[ctx] = "RDY" =>
    Align16(shown[ctx].srcW) = Align16(put.srcW)

(* Every call of the X server returns, while the programs of other         *)
(* contexts are still ending.  Only a program that could not be loaded can *)
(* make yuvscsc_send_message spin for ever, and only a STOP for a context  *)
(* that is gone, or for none, can be the end of the server.                *)
CallReturns ==
  xpc # "idle" ~> \/ xpc = "idle"
                  \/ xpc = "lost" /\ ~running /\ (ctx \in Contexts => ~Live(ctx))
                  \/ \E c \in Contexts : c = ctx /\ pc[c] = "failed"

(* A scaler that is sent STOP takes it, though SPUStopVideo waits for      *)
(* nothing and the next scaler may be at work already, and its context is  *)
(* destroyed.                                                              *)
StoppedContextGoes ==
  \A c \in Contexts :
    Holds(c, "STOP") ~> ~Live(c) \/ pc[c] = "failed" \/ xpc = "lost"

-----------------------------------------------------------------------------
(* The handshake: what the SPU program of a context and its mailboxes can  *)
(* be, given where the X server is.  It is the inductive invariant behind  *)
(* the safety properties above.                                            *)
Silent(c) == outMbox[c] = "empty" /\ outIntr[c] = "empty"

Absent(c) == pc[c] = "absent" /\ inMbox[c] = <<>> /\ Silent(c)
Failed(c) == pc[c] = "failed" /\ Silent(c)
Fresh(c) == pc[c] \in {"created", "boot"} /\ inMbox[c] = <<>> /\ Silent(c)
Quiet(c) == pc[c] = "wait" /\ inMbox[c] = <<>> /\ Silent(c)

Updating(c) ==
  /\ Silent(c)
  /\ \/ pc[c] = "wait" /\ inMbox[c] \in {<<"UPDATE">>, <<>>}
     \/ pc[c] = "refetch" /\ inMbox[c] = <<>>

Converting(c) ==
  /\ Silent(c)
  /\ \/ pc[c] \in {"created", "boot", "refetch"} /\ inMbox[c] = <<"RUN">>
     \/ pc[c] = "wait" /\ inMbox[c] \in {<<"UPDATE", "RUN">>, <<"RUN">>}
     \/ /\ pc[c] \in {"fetch", "loop", "frame", "post"}
        /\ msg[c] = "RUN"
        /\ inMbox[c] = <<>>

Done(c) ==
  pc[c] = "wait" /\ inMbox[c] = <<>> /\ outMbox[c] = "RDY" /\ outIntr[c] = "empty"

Stopping(c) ==
  /\ Silent(c)
  /\ OnlyStops(c)
  /\ \/ pc[c] = "wait" /\ inMbox[c] # <<>>
     \/ pc[c] \in {"loop", "exited"} /\ msg[c] = "STOP"

(* The context the port talks to, until it has sent it STOP.               *)
Serving(c) == c = ctx /\ (running \/ xpc = "sendStop")

ServingPhase(c) ==
  /\ xpc \in {"idle", "sendUpdate", "sendStop"} => Quiet(c)
  /\ xpc = "setForm" => Fresh(c)
  /\ xpc = "sendRun" => Fresh(c) \/ Updating(c)
  /\ xpc \in {"flip", "receive"} =>
       IF put.fmt = "planar" THEN Converting(c) \/ Done(c) ELSE Quiet(c)

Handshake ==
  \A c \in Contexts :
    \/ Failed(c)
    \/ IF Serving(c) THEN ServingPhase(c) ELSE Absent(c) \/ Stopping(c)

(* Where the X server is fits what it has noted about the port.            *)
PortState ==
  /\ running => ctx \in Contexts /\ xpc \notin {"sendStop", "sendAgain", "lost"}
  /\ xpc = "sendStop" => ctx \in Contexts
  /\ xpc \in {"setForm", "sendUpdate", "sendRun", "receive"} => running
  /\ xpc \notin {"idle", "sendStop", "sendAgain", "lost"} => put \in Calls
  /\ xpc \in {"setForm", "sendUpdate", "sendRun"} => put.fmt = "planar"
  /\ xpc = "flip" /\ ~running => put.fmt = "packed"

(* A program that will convert a frame has its arguments, asks for RDY in  *)
(* the polled mailbox, and has or will compute the filters they need.      *)
ArgsFit ==
  \A c \in Contexts :
    /\ pc[c] # "absent" => iargs[c] \in Args
    /\ Serving(c) /\ xpc # "setForm" => iargs[c].form = "HARD"
    /\ pc[c] \in {"loop", "frame", "post", "wait", "refetch"} =>
         /\ largs[c] \in Args
         /\ largs[c].form = "HARD"
         /\ first[c] \/ Fits(filter[c], largs[c])
    /\ pc[c] \in {"absent", "created", "boot", "fetch"} => first[c]
    /\ pc[c] = "frame" => ~first[c]

IInv == TypeOK /\ Handshake /\ PortState /\ ArgsFit

(* The buffer the call under way is for, and between two calls that of the *)
(* next one.                                                               *)
Turn == IF xpc = "receive" THEN Flip(currentBuffer) ELSE currentBuffer

(* Has the program read the arguments of the call under way?               *)
HasArgs(c) ==
  \/ pc[c] \in {"loop", "frame", "post"}
  \/ /\ xpc \in {"sendRun", "flip", "receive"} /\ pc[c] = "wait"
     /\ inMbox[c] \notin {<<"UPDATE">>, <<"UPDATE", "RUN">>}

(* How the buffer index of the program follows that of the port, and what  *)
(* becomes of the image, when the port is never taken away and is given    *)
(* planar images only: the inductive invariant behind ImageProcessed.      *)
ImageFit ==
  /\ xpc # "idle" =>
       put.fmt = "planar" /\ xpc \notin {"sendStop", "sendAgain", "lost"}
  /\ ~running =>
       /\ xpc = "idle" /\ currentBuffer = 0
       /\ \A c \in Contexts : pc[c] = "absent" /\ sel[c] = 0
  /\ running =>
       /\ Drawn[iargs[ctx].place] = old
       /\ xpc # "idle" => iargs[ctx].buf[Turn] = put.img /\ old = Drawn[put.place]
       /\ pc[ctx] \in {"created", "boot", "fetch", "loop", "frame", "post"} =>
            sel[ctx] = Turn
       /\ pc[ctx] \in {"wait", "refetch"} =>
            sel[ctx] = IF outMbox[ctx] = "RDY" THEN Turn ELSE Flip(Turn)
       /\ HasArgs(ctx) => largs[ctx] = iargs[ctx]
       /\ pc[ctx] = "post" \/ outMbox[ctx] = "RDY" =>
            shown[ctx].img = put.img /\ Drawn[shown[ctx].place] = Drawn[put.place]

ImageInv == IInv /\ ImageFit

-----------------------------------------------------------------------------
(* The port as a frame service.  The mapping: the frame asked for is that  *)
(* of the call under way, the screen shows the last frame of the scaler.   *)
Asked ==
  IF xpc = "idle" THEN Unset
  ELSE [img |-> put.img, srcW |-> put.srcW, place |-> put.place]

Screen == IF ctx = Unset THEN Unset ELSE shown[ctx]

Asks == [img: Images, srcW: SrcSizes, place: Places]

Service == INSTANCE FrameService
  WITH Requests <- Asks, Nothing <- Unset, asked <- Asked, screen <- Screen

(* A port that is never taken away and is given planar images of one size, *)
(* in whole groups of 16 pixels, for a pixmap of one width, shows exactly  *)
(* what it is given.                                                       *)
ServesFrames == Service!Spec

(* Its safety part.                                                        *)
ShowsOnlyAsked == Service!Init /\ [][Service!Next]_(Service!vars)

(* Of the one scaler of such a port, every width is that of the images.    *)
OneWidth(w) ==
  /\ ~running => ctx = Unset
  /\ \A c \in Contexts :
       /\ pc[c] # "failed"
       /\ pc[c] # "absent" => iargs[c].srcW = w
       /\ pc[c] \in {"loop", "frame", "post", "wait", "refetch"} => largs[c].srcW = w
       /\ shown[c] \in Frames => shown[c].srcW = w
       /\ pc[c] = "post" \/ outMbox[c] = "RDY" => shown[c] \in Frames

ServiceInv(w) == ImageInv /\ OneWidth(w)
=============================================================================
