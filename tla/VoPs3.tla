------------------------------- MODULE VoPs3 --------------------------------
(***************************************************************************)
(* The MPlayer video output driver vo_ps3 (mplayer-vo/latest.patch), a     *)
(* caller of the scaler service.  MPlayer draws into the input buffer of   *)
(* the page (directly, by slices or by a copied image), flips the page,    *)
(* toggles full screen, and closes the driver; one call at a time.         *)
(*                                                                         *)
(* The player and the SPU program each keep a notion of which of the two   *)
(* buffers is next, page here and sel there, and never exchange it.        *)
(***************************************************************************)
EXTENDS Yuv2ArgbScaler

CONSTANTS
  Front, Back, \* inbuf_y[0], inbuf_y[1] and their chroma planes
  SrcW,        \* the width of the video
  Torn,        \* a place with some of its values from one screen layout and
               \* some from another: only some of the setters were called
  EarlyToggle, \* may full screen be toggled before the first frame is shown?
  MayQuit      \* is the driver ever closed?

Screens == Places \ {Torn}

ASSUME VoAssumption ==
  /\ Front \in Images /\ Back \in Images /\ Front # Back
  /\ SrcW \in SrcSizes
  /\ Torn \in Places
  /\ EarlyToggle \in BOOLEAN /\ MayQuit \in BOOLEAN
  /\ Unset \notin Contexts
  /\ Unset \notin [img: Images, srcW: SrcSizes, place: Places]

VARIABLES
  vpc,       \* where the driver is
  ctx,       \* yuvcsc
  page,      \* the buffer that is drawn into
  waiting,   \* wait_yuvcsc
  place,     \* dstW, dstH, offset as the driver has them
  flipped    \* has a page been flipped?

voVars == <<vpc, ctx, page, waiting, place, flipped>>
vars == <<scalerVars, voVars>>

Inbuf(i) == IF i = 0 THEN Front ELSE Back

VPCs == {"preinit", "idle", "draw", "runCheck", "run", "check", "fsel",
         "setters", "sendUpdate", "uninit", "sendStop", "join", "closed"}

VoTypeOK ==
  /\ ScalerTypeOK
  /\ vpc \in VPCs
  /\ ctx \in Contexts \cup {Unset}
  /\ page \in {0, 1}
  /\ waiting \in BOOLEAN
  /\ place \in Screens \cup {Unset}
  /\ flipped \in BOOLEAN

Init ==
  /\ ScalerInit
  /\ vpc = "preinit" /\ ctx = Unset /\ page = 0 /\ waiting = FALSE
  /\ place = Unset /\ flipped = FALSE

-----------------------------------------------------------------------------
(* config: lays out the screen and creates the scaler.                     *)
Config(c, p) ==
  /\ vpc = "preinit"
  /\ Create(c, SrcW, p, Front, Back)
  /\ vpc' = "idle" /\ ctx' = c /\ place' = p
  /\ UNCHANGED <<page, waiting, flipped>>

(* The picture is written into inbuf[page]: by the decoder in the buffer   *)
(* get_image handed out, or by draw_slice or draw_image.                   *)
BeginDraw ==
  /\ vpc = "idle"
  /\ vpc' = "draw"
  /\ UNCHANGED <<scalerVars, ctx, page, waiting, place, flipped>>

EndDraw ==
  /\ vpc = "draw"
  /\ vpc' = "idle"
  /\ UNCHANGED <<scalerVars, ctx, page, waiting, place, flipped>>

FlipPage ==
  /\ vpc = "idle"
  /\ vpc' = "runCheck"
  /\ UNCHANGED <<scalerVars, ctx, page, waiting, place, flipped>>

(* Mutant of YuvcscCheck: RDY is not waited for.                           *)
YuvcscCheckNoWait == waiting' = FALSE /\ UNCHANGED scalerVars

(* yuvcsc_check: when a run was started, wait for its RDY.                 *)
YuvcscCheck ==
  IF waiting THEN ReceiveIntr(ctx) /\ waiting' = FALSE
             ELSE UNCHANGED <<scalerVars, waiting>>

(* yuvcsc_run: check, then RUN.                                            *)
CheckBeforeRun ==
  /\ vpc = "runCheck"
  /\ YuvcscCheck
  /\ vpc' = "run"
  /\ UNCHANGED <<ctx, page, place, flipped>>

(* Mutant of Run: wait_yuvcsc is not set.                                  *)
RunUnnoted ==
  /\ vpc = "run"
  /\ Send(ctx, "RUN")
  /\ vpc' = "check"
  /\ UNCHANGED <<ctx, page, waiting, place, flipped>>

Run ==
  /\ vpc = "run"
  /\ Send(ctx, "RUN")
  /\ waiting' = TRUE
  /\ vpc' = "check"
  /\ UNCHANGED <<ctx, page, place, flipped>>

CheckAfterRun ==
  /\ vpc = "check"
  /\ YuvcscCheck
  /\ vpc' = "fsel"
  /\ UNCHANGED <<ctx, page, place, flipped>>

(* Mutant of Fsel: the page stays.                                         *)
FselSamePage ==
  /\ vpc = "fsel"
  /\ flipped' = TRUE
  /\ vpc' = "idle"
  /\ UNCHANGED <<scalerVars, ctx, page, waiting, place>>

(* PS3FB_IOCTL_FSEL, and the other buffer is next.                         *)
Fsel ==
  /\ vpc = "fsel"
  /\ page' = Flip(page)
  /\ flipped' = TRUE
  /\ vpc' = "idle"
  /\ UNCHANGED <<scalerVars, ctx, waiting, place>>

(* toggle_fullscreen: a layout, perhaps a new one, the setters one after   *)
(* the other, and UPDATE.                                                  *)
ToggleFullscreen(p) ==
  /\ vpc = "idle" /\ (flipped \/ EarlyToggle)
  /\ place' = p
  /\ SetArgs(ctx, [iargs[ctx] EXCEPT !.place = IF p = place THEN p ELSE Torn])
  /\ vpc' = "setters"
  /\ UNCHANGED <<ctx, page, waiting, flipped>>

(* Mutant of LastSetter: one setter is not called.                         *)
LastSetterForgotten ==
  /\ vpc = "setters"
  /\ vpc' = "sendUpdate"
  /\ UNCHANGED <<scalerVars, ctx, page, waiting, place, flipped>>

LastSetter ==
  /\ vpc = "setters"
  /\ SetArgs(ctx, [iargs[ctx] EXCEPT !.place = place])
  /\ vpc' = "sendUpdate"
  /\ UNCHANGED <<ctx, page, waiting, place, flipped>>

SendUpdate ==
  /\ vpc = "sendUpdate"
  /\ Send(ctx, "UPDATE")
  /\ vpc' = "idle"
  /\ UNCHANGED <<ctx, page, waiting, place, flipped>>

(* uninit: cleanup_spu_medialib checks and destroys the scaler, then the   *)
(* input buffers are freed.                                                *)
Uninit ==
  /\ vpc = "idle" /\ MayQuit
  /\ vpc' = "uninit"
  /\ UNCHANGED <<scalerVars, ctx, page, waiting, place, flipped>>

CheckBeforeStop ==
  /\ vpc = "uninit"
  /\ YuvcscCheck
  /\ vpc' = "sendStop"
  /\ UNCHANGED <<ctx, page, place, flipped>>

SendStop ==
  /\ vpc = "sendStop"
  /\ Send(ctx, "STOP")
  /\ vpc' = "join"
  /\ UNCHANGED <<ctx, page, waiting, place, flipped>>

Join ==
  /\ vpc = "join" /\ ~Live(ctx)
  /\ vpc' = "closed"
  /\ UNCHANGED <<scalerVars, ctx, page, waiting, place, flipped>>

(* A call of MPlayer.                                                      *)
Call ==
  \/ \E p \in Screens : (\E c \in Contexts : Config(c, p)) \/ ToggleFullscreen(p)
  \/ BeginDraw
  \/ FlipPage
  \/ Uninit

(* The rest of a call.                                                     *)
Continue ==
  \/ EndDraw
  \/ CheckBeforeRun
  \/ Run
  \/ CheckAfterRun
  \/ Fsel
  \/ LastSetter
  \/ SendUpdate
  \/ CheckBeforeStop
  \/ SendStop
  \/ Join

Spu == \E c \in Contexts : SpuStep(c) /\ UNCHANGED voVars

Next == Call \/ Continue \/ Spu

Spec == Init /\ [][Next]_vars

FairSpec ==
  /\ Spec
  /\ WF_vars(Continue)
  /\ \A c \in Contexts : WF_vars(SpuStep(c) /\ UNCHANGED voVars)

-----------------------------------------------------------------------------
(* The lockstep of the driver and the SPU program, without a toggle before *)
(* the first frame: what the program, its mailboxes, arguments and buffer  *)
(* index can be, given where the driver is.  It is the inductive invariant *)
(* behind the safety properties below.                                     *)
OnlyUpdates(q) == \A i \in 1 .. Len(q) : q[i] = "UPDATE"

Ends(q, m) ==
  /\ q # <<>> /\ q[Len(q)] = m
  /\ \A i \in 1 .. Len(q) - 1 : q[i] = "UPDATE"

Untouched(c) ==
  pc[c] = "absent" /\ inMbox[c] = <<>> /\ outIntr[c] = "empty" /\ sel[c] = 0

Failed(c) == pc[c] = "failed" /\ outIntr[c] = "empty" /\ vpc # "fsel"

(* Between two frames: the program has not been asked for one yet, or has  *)
(* nothing but UPDATEs to take.                                            *)
Resting(c) ==
  /\ outIntr[c] = "empty"
  /\ \/ /\ pc[c] \in {"created", "boot"} /\ inMbox[c] = <<>>
        /\ ~flipped /\ sel[c] = page
     \/ /\ pc[c] \in {"wait", "refetch"} /\ OnlyUpdates(inMbox[c])
        /\ flipped /\ sel[c] = Flip(page)

(* From the RUN of a page to its answer.                                   *)
Converting(c) ==
  \/ /\ outIntr[c] = "empty"
     /\ \/ /\ pc[c] \in {"created", "boot"} /\ inMbox[c] = <<"RUN">>
           /\ sel[c] = page
        \/ /\ pc[c] \in {"wait", "refetch"} /\ Ends(inMbox[c], "RUN")
           /\ sel[c] = Flip(page)
        \/ /\ pc[c] \in {"fetch", "loop", "frame", "post"}
           /\ msg[c] = "RUN" /\ inMbox[c] = <<>> /\ sel[c] = page
  \/ /\ outIntr[c] = "RDY"
     /\ pc[c] = "wait" /\ inMbox[c] = <<>> /\ sel[c] = page

Collected(c) ==
  outIntr[c] = "empty" /\ pc[c] = "wait" /\ inMbox[c] = <<>> /\ sel[c] = page

Stopping(c) ==
  /\ outIntr[c] = "empty"
  /\ \/ pc[c] \in {"created", "boot"} /\ inMbox[c] = <<"STOP">>
     \/ pc[c] \in {"wait", "refetch"} /\ Ends(inMbox[c], "STOP")
     \/ pc[c] \in {"fetch", "loop"} /\ msg[c] = "STOP" /\ inMbox[c] = <<>>
     \/ pc[c] \in {"exited", "absent"}

Between == {"idle", "draw", "runCheck", "run", "setters", "sendUpdate", "uninit",
            "sendStop"}

Phase(c) ==
  \/ Failed(c)
  \/ vpc = "check" /\ Converting(c)
  \/ vpc = "fsel" /\ Collected(c)
  \/ vpc \in {"join", "closed"} /\ Stopping(c)
  \/ vpc \in Between /\ Resting(c)

(* img_args with the setters called for a place.                           *)
Layout(p) == [srcW |-> SrcW, place |-> p, form |-> "INTR",
              buf |-> [i \in {0, 1} |-> Inbuf(i)]]

(* The program's arguments are those of the driver's layout whenever the   *)
(* next thing it does with them is a frame.                                *)
ArgsFit(c) ==
  /\ \/ iargs[c] = Layout(place)
     \/ vpc = "setters" /\ iargs[c] = Layout(Torn)
  /\ pc[c] \in {"loop", "frame", "post"} => largs[c] = Layout(place)
  /\ /\ pc[c] = "wait" /\ vpc \notin {"setters", "sendUpdate"}
     /\ inMbox[c] # <<>> => Head(inMbox[c]) # "UPDATE"
     => largs[c] = Layout(place)

(* The frame of the page is on the screen from its conversion on.          *)
PageShown(c) ==
  \/ vpc = "check" /\ (pc[c] = "post" \/ outIntr[c] = "RDY")
  \/ vpc = "fsel"
  => shown[c] = [img |-> Inbuf(page), srcW |-> SrcW, place |-> place]

VoInv ==
  /\ VoTypeOK
  /\ waiting = (vpc = "check")
  /\ vpc = "preinit" =>
       ctx = Unset /\ page = 0 /\ ~flipped /\ \A c \in Contexts : Untouched(c)
  /\ vpc # "preinit" =>
       /\ ctx \in Contexts /\ place \in Screens
       /\ \A c \in Contexts \ {ctx} : Untouched(c)
       /\ Phase(ctx) /\ ArgsFit(ctx) /\ PageShown(ctx)
  /\ vpc \in {"setters", "sendUpdate"} => flipped

-----------------------------------------------------------------------------
(* The SPU never reads the buffer MPlayer is drawing into: page and selIn  *)
(* agree, though neither side ever tells the other.                        *)
NoDrawWhileConverting ==
  vpc = "draw" =>
    ~(pc[ctx] = "frame" /\ largs[ctx].buf[sel[ctx]] = Inbuf(page))

(* latest.patch, yuvcsc_run, "confirm last run finished".                  *)
LastRunFinished == vpc = "run" => ~Working(ctx) /\ outIntr[ctx] = "empty"

(* No frame is converted with half of the old and half of the new screen   *)
(* layout, even if full screen is toggled again before the SPU program has *)
(* read the arguments of the first time.                                   *)
NoTornFrame == \A c \in Contexts : pc[c] = "frame" => largs[c].place # Torn

(* flip_page returns, and uninit does, whatever was toggled before.        *)
FlipReturns == vpc = "runCheck" ~> vpc = "idle"
UninitReturns == vpc = "uninit" ~> vpc = "closed"

(* The driver as a frame service: flip_page asks for the buffer that was   *)
(* drawn, in the current layout, and when it returns that is on the screen *)
(* and nothing else was put there since.                                   *)
Asked ==
  IF vpc \in {"runCheck", "run", "check", "fsel"}
  THEN [img |-> Inbuf(page), srcW |-> SrcW, place |-> place]
  ELSE Unset

Screen == IF ctx = Unset THEN Unset ELSE shown[ctx]

Asks == [img: {Front, Back}, srcW: {SrcW}, place: Screens]

Service == INSTANCE FrameService
  WITH Requests <- Asks, Nothing <- Unset, asked <- Asked, screen <- Screen

ServesFrames == Service!Spec

(* Its safety part.                                                        *)
ShowsOnlyAsked == Service!Init /\ [][Service!Next]_(Service!vars)
=============================================================================
