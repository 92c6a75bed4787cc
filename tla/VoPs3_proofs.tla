---------------------------- MODULE VoPs3_proofs ----------------------------
(***************************************************************************)
(* Theorems about the MPlayer driver, for every set of contexts, buffers,  *)
(* widths and places, whether or not the program fails to load, as long as *)
(* full screen is not toggled before the first frame.                      *)
(***************************************************************************)
EXTENDS VoPs3, Yuv2ArgbScaler_proofs, SequenceTheorems, TLAPS

(* The messages of the driver: any number of UPDATEs, then one that ends   *)
(* the wait.                                                               *)
LEMMA SendFacts ==
  ASSUME NEW q \in Seq(Messages), OnlyUpdates(q), NEW m \in Messages
  PROVE  /\ Ends(Append(q, m), m)
         /\ OnlyUpdates(Append(q, "UPDATE"))
         /\ Head(Append(q, "UPDATE")) = "UPDATE"
         /\ m # "UPDATE" => Append(<<>>, m) = <<m>>
         /\ Append(q, m) # <<>>
         /\ Head(Append(q, m)) \in {"UPDATE", m}
         /\ q # <<>> => Head(Append(q, m)) = "UPDATE"
<1>1. \A n \in Messages :
        /\ Len(Append(q, n)) = Len(q) + 1 /\ Len(q) \in Nat
        /\ Append(q, n)[Len(q) + 1] = n
        /\ \A i \in 1 .. Len(q) : Append(q, n)[i] = q[i]
        /\ Append(q, n) \in Seq(Messages)
  OBVIOUS
<1>2. "UPDATE" \in Messages
  BY DEF Messages
<1>3. Ends(Append(q, m), m) /\ Append(q, m) # <<>>
  BY <1>1 DEF Ends, OnlyUpdates
<1>4. OnlyUpdates(Append(q, "UPDATE"))
  <2>1. \A i \in 1 .. Len(q) + 1 : i = Len(q) + 1 \/ i \in 1 .. Len(q)
    BY <1>1
  <2>2. QED  BY <1>1, <1>2, <2>1 DEF OnlyUpdates
<1>5. \A n \in Messages : Head(Append(q, n)) = Append(q, n)[1]
  BY <1>1
<1>6. q = <<>> \/ 1 \in 1 .. Len(q)
  BY <1>1
<1>7. q = <<>> => \A n \in Messages : Append(q, n)[1] = n
  BY <1>1
<1>8. q # <<>> => \A n \in Messages : Append(q, n)[1] = "UPDATE"
  BY <1>1, <1>6 DEF OnlyUpdates
<1>9. QED  BY <1>2, <1>3, <1>4, <1>5, <1>7, <1>8

LEMMA TakeFacts ==
  ASSUME NEW q \in Seq(Messages), q # <<>>, NEW m \in Messages
  PROVE  /\ OnlyUpdates(q) => Head(q) = "UPDATE" /\ OnlyUpdates(Tail(q))
         /\ Ends(q, m) => \/ Head(q) = m /\ Tail(q) = <<>>
                          \/ Head(q) = "UPDATE" /\ Ends(Tail(q), m)
<1>1. /\ Len(q) \in Nat /\ Len(q) > 0 /\ Head(q) = q[1]
      /\ Tail(q) \in Seq(Messages) /\ Len(Tail(q)) = Len(q) - 1
      /\ \A i \in 1 .. Len(q) - 1 : Tail(q)[i] = q[i + 1]
  OBVIOUS
<1>2. OnlyUpdates(q) => Head(q) = "UPDATE" /\ OnlyUpdates(Tail(q))
  BY <1>1 DEF OnlyUpdates
<1>3. ASSUME Ends(q, m), Len(q) = 1  PROVE  Head(q) = m /\ Tail(q) = <<>>
  <2>1. Head(q) = m
    BY <1>1, <1>3 DEF Ends
  <2>2. Tail(q) = <<>>
    <3>1. Len(Tail(q)) = 0 /\ Tail(q) \in Seq(Messages)
      BY <1>1, <1>3
    <3>2. QED  BY <3>1, EmptySeq
  <2>3. QED  BY <2>1, <2>2
<1>4. ASSUME Ends(q, m), Len(q) # 1  PROVE  Head(q) = "UPDATE" /\ Ends(Tail(q), m)
  <2>1. Head(q) = "UPDATE"
    BY <1>1, <1>4 DEF Ends
  <2>2. Tail(q) # <<>>
    <3>1. Len(Tail(q)) # 0
      BY <1>1, <1>4
    <3>2. QED  BY <3>1, EmptySeq
  <2>3. Tail(q)[Len(Tail(q))] = m
    BY <1>1, <1>4 DEF Ends
  <2>4. \A i \in 1 .. Len(Tail(q)) - 1 : Tail(q)[i] = "UPDATE"
    BY <1>1, <1>4 DEF Ends
  <2>5. QED  BY <2>1, <2>2, <2>3, <2>4 DEF Ends
<1>5. QED  BY <1>2, <1>3, <1>4

LEMMA LayoutType ==
  ASSUME NEW p \in Places, NEW i \in {0, 1}
  PROVE  /\ Layout(p) \in Args
         /\ Frame(Layout(p), i) \in Frames
         /\ Frame(Layout(p), i) = [img |-> Inbuf(i), srcW |-> SrcW, place |-> p]
         /\ Layout(p).form = "INTR" /\ Layout(p).place = p
BY VoAssumption, ScalerAssumption
   DEF Layout, Args, Frame, Frames, Inbuf, Forms

-----------------------------------------------------------------------------
(* A step of the SPU program.                                              *)
LEMMA SpuPhase ==
  ASSUME VoInv, NEW c \in Contexts, SpuStep(c), UNCHANGED voVars
  PROVE  VoInv'
<1> USE DEF VoInv, VoTypeOK, ScalerTypeOK
<1>1. /\ vpc # "preinit" /\ c = ctx /\ place \in Screens
      /\ Phase(c) /\ ArgsFit(c) /\ PageShown(c)
      /\ ~Failed(c)
      /\ UNCHANGED <<vpc, ctx, page, waiting, place, flipped>>
  BY DEF Untouched, SpuStep, Load, FirstMessage, Fetch, BeginFrame, Leave, Render,
         Post, Wait, Refetch, DestroyContext, voVars, Failed
<1>2. \A d \in Contexts \ {c} : Untouched(d) => Untouched(d)'
  BY DEF Untouched, SpuStep, Load, FirstMessage, Fetch, BeginFrame, Leave, Render,
         Post, Wait, Refetch, DestroyContext, Take
<1> USE <1>1
<1>3. SUFFICES ScalerTypeOK' /\ Phase(c)' /\ ArgsFit(c)' /\ PageShown(c)'
  BY <1>2 DEF voVars
<1>4. inMbox[c] \in Seq(Messages)
  OBVIOUS
<1>5. CASE Load(c)
  <2>1. ScalerTypeOK'
    BY <1>5 DEF Load, PCs
  <2>2. Phase(c)'
    BY <1>5 DEF Load, Phase, Between, Failed, Resting, Converting, Collected, Stopping
  <2>3. QED  BY <1>5, <2>1, <2>2 DEF Load, ArgsFit, PageShown
<1>6. CASE FirstMessage(c)
  <2>1. ScalerTypeOK'
    BY <1>6 DEF FirstMessage, Take, PCs
  <2>2. \A m \in {"RUN", "STOP"} : Head(<<m>>) = m /\ Tail(<<m>>) = <<>>
    OBVIOUS
  <2>3. ASSUME vpc = "check" /\ inMbox[c] = <<"RUN">> /\ sel[c] = page /\ outIntr[c] = "empty"
        PROVE  Phase(c)'
    <3>1. msg'[c] = "RUN" /\ inMbox'[c] = <<>> /\ pc'[c] = "fetch"
      BY <1>6, <2>2, <2>3 DEF FirstMessage, Take
    <3>2. Converting(c)'
      BY <1>6, <2>3, <3>1 DEF FirstMessage, Converting
    <3>3. QED  BY <2>3, <3>2 DEF Phase
  <2>4. ASSUME vpc \in {"join", "closed"} /\ inMbox[c] = <<"STOP">> /\ outIntr[c] = "empty"
        PROVE  Phase(c)'
    <3>1. msg'[c] = "STOP" /\ inMbox'[c] = <<>> /\ pc'[c] = "fetch"
      BY <1>6, <2>2, <2>4 DEF FirstMessage, Take
    <3>2. Stopping(c)'
      BY <1>6, <2>4, <3>1 DEF FirstMessage, Stopping
    <3>3. QED  BY <2>4, <3>2 DEF Phase
  <2>5. inMbox[c] # <<>> /\ pc[c] = "boot"
    BY <1>6 DEF FirstMessage, Take
  <2>6. Phase(c)'
    BY <2>3, <2>4, <2>5 DEF Phase, Resting, Converting, Collected, Stopping
  <2>7. QED  BY <1>6, <2>1, <2>6 DEF FirstMessage, ArgsFit, PageShown
<1>7. CASE Fetch(c)
  <2>1. ScalerTypeOK'
    BY <1>7 DEF Fetch, PCs
  <2>2. Phase(c)'
    BY <1>7 DEF Fetch, Phase, Resting, Converting, Collected, Stopping
  <2>3. vpc \in {"check", "join", "closed"}
    BY <1>7 DEF Fetch, Phase, Resting, Collected
  <2>4. QED  BY <1>7, <2>1, <2>2, <2>3 DEF Fetch, ArgsFit, PageShown
<1>8. CASE BeginFrame(c)
  <2>1. ScalerTypeOK'
    <3>1. largs[c] \in Args
      BY <1>8, LayoutType DEF BeginFrame, ArgsFit, Screens
    <3>2. QED  BY <1>8, <3>1, SpuType DEF SpuStep
  <2>2. Phase(c)'
    BY <1>8 DEF BeginFrame, Phase, Resting, Converting, Collected, Stopping
  <2>3. QED  BY <1>8, <2>1, <2>2 DEF BeginFrame, ArgsFit, PageShown
<1>9. CASE Leave(c)
  <2>1. ScalerTypeOK'
    BY <1>9 DEF Leave, PCs
  <2>2. Phase(c)'
    BY <1>9 DEF Leave, Phase, Resting, Converting, Collected, Stopping
  <2>3. QED  BY <1>9, <2>1, <2>2 DEF Leave, ArgsFit, PageShown
<1>10. CASE Render(c)
  <2>1. vpc = "check" /\ sel[c] = page /\ largs[c] = Layout(place)
    BY <1>10 DEF Render, Phase, Resting, Converting, Collected, Stopping, ArgsFit
  <2>2. shown'[c] = [img |-> Inbuf(page), srcW |-> SrcW, place |-> place]
        /\ shown' \in [Contexts -> Frames \cup {Unset}]
    BY <1>10, <2>1, LayoutType DEF Render, Screens
  <2>3. ScalerTypeOK'
    BY <1>10, <2>2 DEF Render, PCs
  <2>4. Phase(c)'
    BY <1>10, <2>1 DEF Render, Phase, Resting, Converting, Collected, Stopping
  <2>5. ArgsFit(c)'
    BY <1>10, <2>1 DEF Render, ArgsFit
  <2>6. PageShown(c)'
    BY <1>1, <2>2 DEF PageShown, Inbuf
  <2>7. QED  BY <2>3, <2>4, <2>5, <2>6
<1>11. CASE Post(c)
  <2>1. largs[c] = Layout(place) /\ largs[c].form = "INTR"
    BY <1>11, LayoutType DEF Post, ArgsFit, Screens
  <2>2. ScalerTypeOK'
    BY <1>11, <2>1 DEF Post, PCs, Outbound, Messages
  <2>3. Phase(c)' /\ vpc = "check"
    BY <1>11, <2>1 DEF Post, Phase, Resting, Converting, Collected, Stopping
  <2>4. QED  BY <1>11, <2>1, <2>2, <2>3 DEF Post, ArgsFit, PageShown
<1>12. CASE Wait(c)
  <2>1. msg' \in [Contexts -> Messages] /\ inMbox' \in [Contexts -> Seq(Messages)]
    BY <1>12 DEF Wait, Take
  <2>2. ScalerTypeOK'
    <3>1. sel' \in [Contexts -> {0, 1}]
      BY <1>12 DEF Wait, Flip
    <3>2. pc' \in [Contexts -> PCs]
      BY <1>12 DEF Wait, PCs
    <3>3. QED  BY <1>12, <2>1, <3>1, <3>2 DEF Wait
  <2>3. /\ inMbox[c] # <<>> /\ pc[c] = "wait"
        /\ msg'[c] = Head(inMbox[c]) /\ inMbox'[c] = Tail(inMbox[c])
    BY <1>12 DEF Wait, Take
  <2>4. page \in {0, 1}
    OBVIOUS
  <2>5. Phase(c)'
    <3>1. CASE Resting(c) /\ vpc \in Between
      <4>1. OnlyUpdates(inMbox[c])
        BY <2>3, <3>1 DEF Resting
      <4>2. msg'[c] = "UPDATE" /\ OnlyUpdates(inMbox'[c])
        BY <2>3, <4>1, TakeFacts DEF Messages
      <4>3. Resting(c)'
        BY <1>12, <2>3, <3>1, <4>2 DEF Wait, Resting
      <4>4. QED  BY <3>1, <4>3 DEF Phase
    <3>2. CASE Converting(c) /\ vpc = "check"
      <4>1. Ends(inMbox[c], "RUN") /\ sel[c] = Flip(page) /\ outIntr[c] = "empty"
        BY <2>3, <3>2 DEF Converting
      <4>2. \/ msg'[c] = "RUN" /\ inMbox'[c] = <<>>
            \/ msg'[c] = "UPDATE" /\ Ends(inMbox'[c], "RUN")
        BY <2>3, <4>1, TakeFacts DEF Messages
      <4>3. Converting(c)'
        BY <1>12, <2>3, <2>4, <4>1, <4>2 DEF Wait, Converting, Flip
      <4>4. QED  BY <3>2, <4>3 DEF Phase
    <3>3. CASE Stopping(c) /\ vpc \in {"join", "closed"}
      <4>1. Ends(inMbox[c], "STOP") /\ outIntr[c] = "empty"
        BY <2>3, <3>3 DEF Stopping
      <4>2. \/ msg'[c] = "STOP" /\ inMbox'[c] = <<>>
            \/ msg'[c] = "UPDATE" /\ Ends(inMbox'[c], "STOP")
        BY <2>3, <4>1, TakeFacts DEF Messages
      <4>3. Stopping(c)'
        BY <1>12, <2>3, <4>1, <4>2 DEF Wait, Stopping
      <4>4. QED  BY <3>3, <4>3 DEF Phase
    <3>4. QED  BY <2>3, <3>1, <3>2, <3>3 DEF Phase, Collected
  <2>6. ArgsFit(c)'
    <3>1. UNCHANGED <<iargs, largs>>
      BY <1>12 DEF Wait
    <3>2. pc'[c] = CASE msg'[c] \in {"RUN", "STOP"} -> "loop"
                     [] msg'[c] = "UPDATE" -> "refetch"
                     [] OTHER -> "wait"
      BY <1>12 DEF Wait
    <3>3. msg'[c] \in {"RUN", "STOP", "UPDATE"}
      BY <2>3, TakeFacts DEF Messages, Phase, Resting, Converting, Collected, Stopping
    <3>4. ASSUME msg'[c] # "UPDATE"  PROVE  largs[c] = Layout(place)
      <4>1. vpc \notin {"setters", "sendUpdate"}
        BY <2>3, <3>4, TakeFacts DEF Messages, Phase, Resting
      <4>2. QED  BY <2>3, <3>4, <4>1 DEF ArgsFit
    <3>5. QED  BY <3>1, <3>2, <3>3, <3>4 DEF ArgsFit, Layout
  <2>7. PageShown(c)'
    BY <1>12, <2>3 DEF Wait, PageShown
  <2>8. QED  BY <2>2, <2>5, <2>6, <2>7
<1>13. CASE Refetch(c)
  <2>1. ScalerTypeOK'
    BY <1>13 DEF Refetch, PCs
  <2>2. Phase(c)'
    BY <1>13 DEF Refetch, Phase, Resting, Converting, Collected, Stopping
  <2>3. QED  BY <1>13, <2>1, <2>2 DEF Refetch, ArgsFit, PageShown
<1>14. CASE DestroyContext(c)
  <2>1. ScalerTypeOK'
    BY <1>14 DEF DestroyContext, PCs, Outbound, Messages
  <2>2. Phase(c)'
    BY <1>14 DEF DestroyContext, Phase, Resting, Converting, Collected, Stopping
  <2>3. vpc \in {"join", "closed"}
    BY <1>14 DEF DestroyContext, Phase, Resting, Converting, Collected
  <2>4. QED  BY <1>14, <2>1, <2>2, <2>3 DEF DestroyContext, ArgsFit, PageShown
<1>15. QED
  BY <1>5, <1>6, <1>7, <1>8, <1>9, <1>10, <1>11, <1>12, <1>13, <1>14 DEF SpuStep

-----------------------------------------------------------------------------
(* A step of the driver.                                                   *)

(* The setters: the arguments of one place become those of another.        *)
LEMMA SettersFacts ==
  ASSUME NEW p \in Places, NEW r \in Places
  PROVE  [Layout(p) EXCEPT !.place = r] = Layout(r)
<1>1. \A b : [[srcW |-> SrcW, place |-> p, form |-> "INTR", buf |-> b] EXCEPT !.place = r]
              = [srcW |-> SrcW, place |-> r, form |-> "INTR", buf |-> b]
  OBVIOUS
<1>2. QED  BY <1>1 DEF Layout

(* A step that sends nothing, receives nothing and writes no arguments.    *)
LEMMA QuietStep ==
  ASSUME VoInv, vpc \in Between, vpc' \in {"idle", "draw", "runCheck", "run", "uninit",
                                            "sendStop"},
         vpc \notin {"setters", "sendUpdate"},
         UNCHANGED <<scalerVars, ctx, page, waiting, place, flipped>>
  PROVE  VoInv'
<1> USE DEF VoInv, VoTypeOK, ScalerTypeOK
<1>1. Phase(ctx)'
  BY DEF Phase, Between, Failed, Resting, scalerVars
<1>2. ArgsFit(ctx)' /\ PageShown(ctx)'
  BY DEF ArgsFit, PageShown, Between, scalerVars, Layout
<1>3. VoTypeOK'
  BY DEF VPCs, Between, scalerVars
<1>4. QED  BY <1>1, <1>2, <1>3 DEF Between, Untouched, scalerVars

LEMMA ConfigStep ==
  ASSUME VoInv, NEW c \in Contexts, NEW p \in Screens, Config(c, p)
  PROVE  VoInv'
<1> USE DEF VoInv, VoTypeOK, ScalerTypeOK
<1>1. /\ vpc = "preinit" /\ vpc' = "idle" /\ ctx' = c /\ place' = p
      /\ Untouched(c) /\ page = 0 /\ ~flipped
      /\ UNCHANGED <<page, waiting, flipped>>
  BY DEF Config
<1>2. p \in Places
  BY DEF Screens
<1>3. iargs'[c] = Layout(p) /\ iargs' \in [Contexts -> Args \cup {Unset}]
  BY <1>2, LayoutType DEF Config, Create, Layout, Inbuf
<1>4. VoTypeOK'
  BY <1>1, <1>3 DEF Config, Create, PCs, VPCs
<1>5. Phase(c)'
  BY <1>1 DEF Config, Create, Phase, Between, Resting, Untouched
<1>6. ArgsFit(c)' /\ PageShown(c)'
  BY <1>1, <1>3 DEF Config, Create, ArgsFit, PageShown, Untouched, Layout
<1>7. \A d \in Contexts \ {c} : Untouched(d)'
  BY <1>1 DEF Config, Create, Untouched
<1>8. QED  BY <1>1, <1>4, <1>5, <1>6, <1>7

LEMMA RunStep ==
  ASSUME VoInv, Run
  PROVE  VoInv'
<1> USE DEF VoInv, VoTypeOK, ScalerTypeOK
<1>1. /\ vpc = "run" /\ vpc' = "check" /\ waiting' = TRUE /\ ctx \in Contexts
      /\ UNCHANGED <<ctx, page, place, flipped, iargs, outMbox, outIntr, pc, msg, largs, sel,
                     first, filter, shown>>
      /\ inMbox' = [inMbox EXCEPT ![ctx] = Append(@, "RUN")]
      /\ "RUN" \in Messages
  BY DEF Run, Send, Messages
<1>2. inMbox[ctx] \in Seq(Messages) /\ inMbox'[ctx] = Append(inMbox[ctx], "RUN")
      /\ inMbox' \in [Contexts -> Seq(Messages)]
  BY <1>1
<1>3. VoTypeOK'
  BY <1>1, <1>2 DEF VPCs
<1>4. Failed(ctx) \/ Resting(ctx)
  BY <1>1 DEF Phase
<1>5. ASSUME Failed(ctx)  PROVE  Phase(ctx)' /\ ArgsFit(ctx)' /\ PageShown(ctx)'
  BY <1>1, <1>5 DEF Phase, Failed, ArgsFit, PageShown, Layout
<1>6. ASSUME Resting(ctx)  PROVE  Phase(ctx)' /\ ArgsFit(ctx)' /\ PageShown(ctx)'
  <2>1. OnlyUpdates(inMbox[ctx])
    BY <1>2, <1>6 DEF Resting, OnlyUpdates
  <2>2. /\ Ends(inMbox'[ctx], "RUN")
        /\ inMbox[ctx] = <<>> => inMbox'[ctx] = <<"RUN">>
        /\ inMbox[ctx] # <<>> => Head(inMbox'[ctx]) = "UPDATE"
        /\ inMbox'[ctx] # <<>>
    BY <1>1, <1>2, <2>1, SendFacts
  <2>3. Converting(ctx)'
    BY <1>1, <1>6, <2>2 DEF Resting, Converting
  <2>4. ArgsFit(ctx)'
    BY <1>1, <1>6, <2>2 DEF ArgsFit, Layout, Resting
  <2>5. QED  BY <1>1, <1>6, <2>3, <2>4 DEF Phase, PageShown, Resting
<1>7. QED  BY <1>1, <1>3, <1>4, <1>5, <1>6 DEF Untouched

LEMMA CheckAfterRunStep ==
  ASSUME VoInv, CheckAfterRun
  PROVE  VoInv'
<1> USE DEF VoInv, VoTypeOK, ScalerTypeOK
<1>1. /\ vpc = "check" /\ vpc' = "fsel" /\ waiting' = FALSE /\ ctx \in Contexts
      /\ UNCHANGED <<ctx, page, place, flipped, iargs, inMbox, outMbox, pc, msg, largs, sel,
                     first, filter, shown>>
      /\ outIntr[ctx] = "RDY" /\ outIntr' = [outIntr EXCEPT ![ctx] = "empty"]
  BY DEF CheckAfterRun, YuvcscCheck, ReceiveIntr
<1>2. VoTypeOK'
  BY <1>1 DEF VPCs, Outbound
<1>3. Collected(ctx)'
  BY <1>1 DEF Phase, Between, Failed, Converting, Collected
<1>4. ArgsFit(ctx)' /\ PageShown(ctx)'
  BY <1>1 DEF ArgsFit, PageShown, Layout, Inbuf
<1>5. QED  BY <1>1, <1>2, <1>3, <1>4 DEF Untouched, Phase

LEMMA FselStep ==
  ASSUME VoInv, Fsel
  PROVE  VoInv'
<1> USE DEF VoInv, VoTypeOK, ScalerTypeOK
<1>1. /\ vpc = "fsel" /\ vpc' = "idle" /\ ctx \in Contexts /\ flipped' = TRUE
      /\ page' \in {0, 1} /\ page = Flip(page')
      /\ UNCHANGED <<scalerVars, ctx, waiting, place>>
  BY DEF Fsel, Flip
<1>2. VoTypeOK'
  BY <1>1 DEF VPCs, scalerVars
<1>3. Collected(ctx)
  BY <1>1 DEF Phase, Between, Failed
<1>4. Resting(ctx)'
  BY <1>1, <1>3 DEF Collected, Resting, OnlyUpdates, scalerVars
<1>5. ArgsFit(ctx)' /\ PageShown(ctx)'
  BY <1>1 DEF ArgsFit, PageShown, Layout, Inbuf, scalerVars
<1>6. QED  BY <1>1, <1>2, <1>4, <1>5 DEF Untouched, Phase, Between, scalerVars

LEMMA ToggleStep ==
  ASSUME VoInv, ~EarlyToggle, NEW p \in Screens, ToggleFullscreen(p)
  PROVE  VoInv'
<1> USE DEF VoInv, VoTypeOK, ScalerTypeOK
<1>1. /\ vpc = "idle" /\ vpc' = "setters" /\ ctx \in Contexts /\ flipped /\ place' = p
      /\ UNCHANGED <<ctx, page, waiting, flipped, inMbox, outMbox, outIntr, pc, msg, largs,
                     sel, first, filter, shown>>
      /\ p \in Places /\ Torn \in Places /\ place \in Places
  BY VoAssumption DEF ToggleFullscreen, SetArgs, Screens
<1>2. iargs'[ctx] \in {Layout(p), Layout(Torn)}
      /\ iargs' \in [Contexts -> Args \cup {Unset}]
  <2>1. iargs[ctx] = Layout(place)
    BY <1>1 DEF ArgsFit
  <2>2. PICK r \in {p, Torn} :
          iargs' = [iargs EXCEPT ![ctx] = [iargs[ctx] EXCEPT !.place = r]]
    BY DEF ToggleFullscreen, SetArgs
  <2>3. [Layout(place) EXCEPT !.place = r] = Layout(r)
    BY <1>1, SettersFacts
  <2>4. iargs' = [iargs EXCEPT ![ctx] = Layout(r)]
    BY <2>1, <2>2, <2>3, Zenon
  <2>5. QED  BY <1>1, <2>4, LayoutType
<1>3. VoTypeOK'
  BY <1>1, <1>2 DEF VPCs
<1>4. Phase(ctx)' /\ pc[ctx] \notin {"loop", "frame", "post"}
  BY <1>1 DEF Phase, Between, Failed, Resting
<1>5. ArgsFit(ctx)' /\ PageShown(ctx)'
  BY <1>1, <1>2, <1>4 DEF ArgsFit, PageShown, Layout
<1>6. QED  BY <1>1, <1>3, <1>4, <1>5 DEF Untouched

LEMMA LastSetterStep ==
  ASSUME VoInv, LastSetter
  PROVE  VoInv'
<1> USE DEF VoInv, VoTypeOK, ScalerTypeOK
<1>1. /\ vpc = "setters" /\ vpc' = "sendUpdate" /\ ctx \in Contexts
      /\ UNCHANGED <<ctx, page, waiting, flipped, place, inMbox, outMbox, outIntr, pc, msg,
                     largs, sel, first, filter, shown>>
      /\ place \in Places /\ Torn \in Places
  BY VoAssumption DEF LastSetter, SetArgs, Screens
<1>2. iargs'[ctx] = Layout(place) /\ iargs' \in [Contexts -> Args \cup {Unset}]
  <2>1. PICK r \in {place, Torn} : iargs[ctx] = Layout(r)
    BY <1>1 DEF ArgsFit
  <2>2. iargs' = [iargs EXCEPT ![ctx] = [iargs[ctx] EXCEPT !.place = place]]
    BY DEF LastSetter, SetArgs
  <2>3. [Layout(r) EXCEPT !.place = place] = Layout(place)
    BY <1>1, SettersFacts
  <2>4. iargs' = [iargs EXCEPT ![ctx] = Layout(place)]
    BY <2>1, <2>2, <2>3, Zenon
  <2>5. QED  BY <1>1, <2>4, LayoutType
<1>3. VoTypeOK'
  BY <1>1, <1>2 DEF VPCs
<1>4. Phase(ctx)' /\ pc[ctx] \notin {"loop", "frame", "post"}
  BY <1>1 DEF Phase, Between, Failed, Resting
<1>5. ArgsFit(ctx)' /\ PageShown(ctx)'
  BY <1>1, <1>2, <1>4 DEF ArgsFit, PageShown, Layout
<1>6. QED  BY <1>1, <1>3, <1>4, <1>5 DEF Untouched

LEMMA SendUpdateStep ==
  ASSUME VoInv, SendUpdate
  PROVE  VoInv'
<1> USE DEF VoInv, VoTypeOK, ScalerTypeOK
<1>1. /\ vpc = "sendUpdate" /\ vpc' = "idle" /\ ctx \in Contexts /\ flipped
      /\ UNCHANGED <<ctx, page, waiting, place, flipped, iargs, outMbox, outIntr, pc, msg,
                     largs, sel, first, filter, shown>>
      /\ inMbox' = [inMbox EXCEPT ![ctx] = Append(@, "UPDATE")]
      /\ "UPDATE" \in Messages
  BY DEF SendUpdate, Send, Messages
<1>2. inMbox[ctx] \in Seq(Messages) /\ inMbox'[ctx] = Append(inMbox[ctx], "UPDATE")
      /\ inMbox' \in [Contexts -> Seq(Messages)]
  BY <1>1
<1>3. VoTypeOK'
  BY <1>1, <1>2 DEF VPCs
<1>4. Failed(ctx) \/ Resting(ctx)
  BY <1>1 DEF Phase
<1>5. ASSUME Failed(ctx)  PROVE  Phase(ctx)' /\ ArgsFit(ctx)' /\ PageShown(ctx)'
  BY <1>1, <1>5 DEF Phase, Failed, ArgsFit, PageShown, Layout
<1>6. ASSUME Resting(ctx)  PROVE  Phase(ctx)' /\ ArgsFit(ctx)' /\ PageShown(ctx)'
  <2>1. OnlyUpdates(inMbox[ctx])
    BY <1>1, <1>6 DEF Resting
  <2>2. OnlyUpdates(inMbox'[ctx]) /\ inMbox'[ctx] # <<>> /\ Head(inMbox'[ctx]) = "UPDATE"
    BY <1>1, <1>2, <2>1, SendFacts
  <2>3. Resting(ctx)'
    BY <1>1, <1>6, <2>2 DEF Resting
  <2>4. ArgsFit(ctx)'
    BY <1>1, <1>6, <2>2 DEF ArgsFit, Layout, Resting
  <2>5. QED  BY <1>1, <2>3, <2>4 DEF Phase, Between, PageShown
<1>7. QED  BY <1>1, <1>3, <1>4, <1>5, <1>6 DEF Untouched

LEMMA SendStopStep ==
  ASSUME VoInv, SendStop
  PROVE  VoInv'
<1> USE DEF VoInv, VoTypeOK, ScalerTypeOK
<1>1. /\ vpc = "sendStop" /\ vpc' = "join" /\ ctx \in Contexts
      /\ UNCHANGED <<ctx, page, waiting, place, flipped, iargs, outMbox, outIntr, pc, msg,
                     largs, sel, first, filter, shown>>
      /\ inMbox' = [inMbox EXCEPT ![ctx] = Append(@, "STOP")]
      /\ "STOP" \in Messages
  BY DEF SendStop, Send, Messages
<1>2. inMbox[ctx] \in Seq(Messages) /\ inMbox'[ctx] = Append(inMbox[ctx], "STOP")
      /\ inMbox' \in [Contexts -> Seq(Messages)]
  BY <1>1
<1>3. VoTypeOK'
  BY <1>1, <1>2 DEF VPCs
<1>4. Failed(ctx) \/ Resting(ctx)
  BY <1>1 DEF Phase
<1>5. ASSUME Failed(ctx)  PROVE  Phase(ctx)' /\ ArgsFit(ctx)' /\ PageShown(ctx)'
  BY <1>1, <1>5 DEF Phase, Failed, ArgsFit, PageShown, Layout
<1>6. ASSUME Resting(ctx)  PROVE  Phase(ctx)' /\ ArgsFit(ctx)' /\ PageShown(ctx)'
  <2>1. OnlyUpdates(inMbox[ctx])
    BY <1>2, <1>6 DEF Resting, OnlyUpdates
  <2>2. /\ Ends(inMbox'[ctx], "STOP")
        /\ inMbox[ctx] = <<>> => inMbox'[ctx] = <<"STOP">>
        /\ inMbox[ctx] # <<>> => Head(inMbox'[ctx]) = "UPDATE"
        /\ inMbox'[ctx] # <<>>
    BY <1>1, <1>2, <2>1, SendFacts
  <2>3. Stopping(ctx)'
    BY <1>1, <1>6, <2>2 DEF Resting, Stopping
  <2>4. ArgsFit(ctx)'
    BY <1>1, <1>6, <2>2 DEF ArgsFit, Layout, Resting
  <2>5. QED  BY <1>1, <2>3, <2>4 DEF Phase, PageShown
<1>7. QED  BY <1>1, <1>3, <1>4, <1>5, <1>6 DEF Untouched

LEMMA JoinStep ==
  ASSUME VoInv, Join
  PROVE  VoInv'
<1> USE DEF VoInv, VoTypeOK, ScalerTypeOK
<1>1. Phase(ctx)' /\ ArgsFit(ctx)' /\ PageShown(ctx)'
  BY DEF Join, Phase, Between, Failed, Stopping, ArgsFit, PageShown, Layout, scalerVars
<1>2. VoTypeOK'
  BY DEF Join, VPCs, scalerVars
<1>3. QED  BY <1>1, <1>2 DEF Join, Untouched, scalerVars

-----------------------------------------------------------------------------
LEMMA InitVoInv == Init => VoInv
<1> SUFFICES ASSUME Init  PROVE  VoInv
  OBVIOUS
<1> USE DEF Init, ScalerInit
<1>1. <<>> \in Seq(Messages)
  OBVIOUS
<1>2. ScalerTypeOK
  BY <1>1 DEF ScalerTypeOK, PCs, Messages, Outbound
<1>3. VoTypeOK
  BY <1>2 DEF VoTypeOK, VPCs
<1>4. QED  BY <1>3 DEF VoInv, Untouched

LEMMA StepVoInv ==
  ASSUME VoInv, ~EarlyToggle, [Next]_vars
  PROVE  VoInv'
<1>1. CASE Call
  <2>1. ASSUME NEW p \in Screens, NEW c \in Contexts, Config(c, p)  PROVE  VoInv'
    BY <2>1, ConfigStep
  <2>2. ASSUME NEW p \in Screens, ToggleFullscreen(p)  PROVE  VoInv'
    BY <2>2, ToggleStep
  <2>3. ASSUME BeginDraw \/ FlipPage \/ Uninit  PROVE  VoInv'
    BY <2>3, QuietStep DEF BeginDraw, FlipPage, Uninit, Between
  <2>4. QED  BY <1>1, <2>1, <2>2, <2>3 DEF Call
<1>2. CASE Continue
  <2>1. ASSUME EndDraw \/ CheckBeforeRun \/ CheckBeforeStop  PROVE  VoInv'
    BY <2>1, QuietStep
       DEF EndDraw, CheckBeforeRun, CheckBeforeStop, YuvcscCheck, VoInv, Between
  <2>2. QED
    BY <1>2, <2>1, RunStep, CheckAfterRunStep, FselStep, LastSetterStep, SendUpdateStep,
       SendStopStep, JoinStep DEF Continue
<1>3. CASE Spu
  BY <1>3, SpuPhase DEF Spu
<1>4. CASE UNCHANGED vars
  BY <1>4 DEF vars, scalerVars, voVars, VoInv, VoTypeOK, ScalerTypeOK, Untouched, Phase, Failed,
              Resting, Converting, Collected, Stopping, ArgsFit, PageShown, Layout, Inbuf
<1>5. QED  BY <1>1, <1>2, <1>3, <1>4 DEF Next

(* The driver and the program stay in lockstep: at every point of every    *)
(* call, the program's mailboxes, arguments and buffer index are what the  *)
(* driver, which cannot see them, takes them to be.                        *)
THEOREM LockstepHolds == ASSUME ~EarlyToggle PROVE Spec => []VoInv
<1>1. VoInv /\ [Next]_vars => VoInv'
  BY StepVoInv
<1>2. QED  BY InitVoInv, <1>1, PTL DEF Spec

(* The input buffer MPlayer draws into is never being converted.           *)
THEOREM DrawsAlone == ASSUME ~EarlyToggle PROVE Spec => []NoDrawWhileConverting
<1>1. VoInv => NoDrawWhileConverting
  <2>1. SUFFICES ASSUME VoInv, vpc = "draw"  PROVE  pc[ctx] # "frame"
    BY DEF NoDrawWhileConverting
  <2>2. QED  BY <2>1 DEF VoInv, Phase, Between, Failed, Resting
<1>2. QED  BY <1>1, LockstepHolds, PTL

(* When a run is sent, the last one has finished and its answer is taken.  *)
THEOREM RunsOneAtATime == ASSUME ~EarlyToggle PROVE Spec => []LastRunFinished
<1>1. VoInv => LastRunFinished
  <2>1. SUFFICES ASSUME VoInv, vpc = "run"
                 PROVE  ~Working(ctx) /\ outIntr[ctx] = "empty"
    BY DEF LastRunFinished
  <2>2. Failed(ctx) \/ Resting(ctx)
    BY <2>1 DEF VoInv, Phase
  <2>3. Holds(ctx, "RUN") => ~OnlyUpdates(inMbox[ctx]) /\ inMbox[ctx] # <<>>
    BY DEF Holds, OnlyUpdates
  <2>4. QED  BY <2>2, <2>3 DEF Failed, Resting, Working
<1>2. QED  BY <1>1, LockstepHolds, PTL

(* No frame is converted with half of a screen layout.                     *)
THEOREM LayoutsAreWhole == ASSUME ~EarlyToggle PROVE Spec => []NoTornFrame
<1>1. VoInv => NoTornFrame
  <2>1. SUFFICES ASSUME VoInv, NEW c \in Contexts, pc[c] = "frame"
                 PROVE  largs[c].place # Torn
    BY DEF NoTornFrame
  <2>2. vpc # "preinit" /\ c = ctx /\ place \in Screens
    BY <2>1 DEF VoInv, Untouched
  <2>3. largs[c] = Layout(place)
    BY <2>1, <2>2 DEF VoInv, ArgsFit
  <2>4. QED  BY <2>2, <2>3 DEF Layout, Screens
<1>2. QED  BY <1>1, LockstepHolds, PTL

-----------------------------------------------------------------------------
(* The steps that are steps of the frame service: flip_page asks, the      *)
(* program converts, FSEL returns.  All others leave it unchanged.         *)
LEMMA AskStep ==
  ASSUME VoInv, FlipPage
  PROVE  Service!Next
<1>1. /\ vpc = "idle" /\ vpc' = "runCheck" /\ place \in Screens
      /\ UNCHANGED <<scalerVars, ctx, page, place>>
  BY DEF FlipPage, VoInv
<1>2. Asked = Unset /\ Asked' \in Asks /\ Screen' = Screen
  BY <1>1 DEF Asked, Asks, Inbuf, Screen, scalerVars
<1>3. QED  BY <1>2 DEF Service!Next, Service!Ask

LEMMA ConvertStep ==
  ASSUME VoInv, NEW c \in Contexts, Render(c), UNCHANGED voVars
  PROVE  Service!Next
<1> USE DEF VoInv, VoTypeOK, ScalerTypeOK
<1>1. /\ vpc # "preinit" /\ c = ctx /\ place \in Screens /\ ctx # Unset
      /\ UNCHANGED <<vpc, ctx, page, place>>
  BY VoAssumption DEF Untouched, Render, voVars
<1>2. vpc = "check" /\ sel[c] = page /\ largs[c] = Layout(place)
  BY <1>1 DEF Render, Phase, Between, Failed, Resting, Converting, Collected, Stopping, ArgsFit
<1>3. shown'[c] = [img |-> Inbuf(page), srcW |-> SrcW, place |-> place]
  BY <1>1, <1>2, LayoutType DEF Render, Screens
<1>4. Asked = [img |-> Inbuf(page), srcW |-> SrcW, place |-> place] /\ Asked' = Asked
  BY <1>1, <1>2 DEF Asked, Inbuf
<1>5. Asked # Unset
  BY <1>1, <1>4, VoAssumption DEF Inbuf, Screens
<1>6. QED  BY <1>1, <1>3, <1>4, <1>5 DEF Service!Next, Service!Convert, Screen

LEMMA ReturnStep ==
  ASSUME VoInv, Fsel
  PROVE  Service!Next
<1> USE DEF VoInv, VoTypeOK
<1>1. /\ vpc = "fsel" /\ vpc' = "idle" /\ place \in Screens /\ ctx \in Contexts
      /\ UNCHANGED <<scalerVars, ctx, place>>
  BY DEF Fsel
<1>2. Asked = [img |-> Inbuf(page), srcW |-> SrcW, place |-> place] /\ Asked' = Unset
  BY <1>1 DEF Asked
<1>3. Asked # Unset
  BY <1>1, <1>2, VoAssumption DEF Inbuf, Screens
<1>4. Screen = Asked /\ Screen' = Screen
  BY <1>1, <1>2, VoAssumption DEF PageShown, Screen, scalerVars
<1>5. QED  BY <1>2, <1>3, <1>4 DEF Service!Next, Service!Return

(* The safety part of the refinement: the screen only ever changes to the  *)
(* frame flip_page is showing, and flip_page returns when it has.          *)
THEOREM DriverServesFrames == ASSUME ~EarlyToggle PROVE Spec => ShowsOnlyAsked
<1>1. Init => Service!Init
  BY DEF Init, Service!Init, Asked, Screen
<1>2. ASSUME VoInv, [Next]_vars  PROVE  [Service!Next]_(Service!vars)
  <2>1. ASSUME NEW p \in Screens, NEW c \in Contexts, Config(c, p)
        PROVE  UNCHANGED Service!vars
    BY <1>2, <2>1, VoAssumption
       DEF Config, Create, Service!vars, Asked, Screen, VoInv, VoTypeOK, ScalerTypeOK
  <2>2. ASSUME NEW p \in Screens, ToggleFullscreen(p)  PROVE  UNCHANGED Service!vars
    BY <2>2 DEF ToggleFullscreen, SetArgs, Service!vars, Asked, Screen
  <2>3. CASE BeginDraw \/ Uninit \/ EndDraw \/ CheckBeforeRun \/ Run \/ CheckAfterRun
               \/ LastSetter \/ SendUpdate \/ CheckBeforeStop \/ SendStop \/ Join
    <3>1. UNCHANGED Screen
      BY <2>3 DEF BeginDraw, Uninit, EndDraw, CheckBeforeRun, Run, CheckAfterRun, LastSetter,
                  SendUpdate, CheckBeforeStop, SendStop, Join, YuvcscCheck, ReceiveIntr, Send,
                  SetArgs, scalerVars, Screen
    <3>2. UNCHANGED Asked
      BY <2>3 DEF BeginDraw, Uninit, EndDraw, CheckBeforeRun, Run, CheckAfterRun, LastSetter,
                  SendUpdate, CheckBeforeStop, SendStop, Join, Asked, Inbuf
    <3>3. QED  BY <3>1, <3>2 DEF Service!vars
  <2>4. ASSUME NEW c \in Contexts, SpuStep(c), ~Render(c), UNCHANGED voVars
        PROVE  UNCHANGED Service!vars
    <3>1. UNCHANGED <<shown, vpc, ctx, page, place>>
      BY <2>4 DEF SpuStep, Load, FirstMessage, Fetch, BeginFrame, Leave, Post, Wait, Refetch,
                  DestroyContext, voVars
    <3>2. QED  BY <3>1 DEF Service!vars, Asked, Screen, Inbuf
  <2>5. CASE UNCHANGED vars
    BY <2>5 DEF vars, scalerVars, voVars, Service!vars, Asked, Screen, Inbuf
  <2>6. QED
    BY <1>2, <2>1, <2>2, <2>3, <2>4, <2>5, AskStep, ConvertStep, ReturnStep
       DEF Next, Call, Continue, Spu
<1>3. QED  BY <1>1, <1>2, LockstepHolds, PTL DEF Spec, ShowsOnlyAsked

-----------------------------------------------------------------------------
(* Progress: the safety half of FlipReturns and UninitReturns.             *)

(* The guards of Continue.                                                 *)
DriverCan ==
  \/ vpc \in {"draw", "fsel", "setters"}
  \/ vpc \in {"runCheck", "check", "uninit"} /\ (waiting => outIntr[ctx] = "RDY")
  \/ vpc \in {"run", "sendUpdate", "sendStop"} /\ Len(inMbox[ctx]) < InMboxSize
  \/ vpc = "join" /\ ~Live(ctx)

(* In a call of MPlayer, waiting for RDY, for room or for the thread.      *)
Blocked == vpc \notin {"preinit", "idle", "closed"} /\ ~DriverCan

NeverStuck ==
  Blocked => StepsLeft(ctx) \in 0 .. 22 /\ (CanStep(ctx) \/ pc[ctx] = "failed")

WaitsShorten ==
  [][Blocked => UNCHANGED voVars /\ StepsLeft(ctx)' < StepsLeft(ctx)]_vars

LEMMA StuckNever ==
  ASSUME VoInv, MailboxHolds
  PROVE  NeverStuck
<1>1. SUFFICES ASSUME Blocked, pc[ctx] # "failed"  PROVE  CanStep(ctx)
  <2>1. Blocked => ctx \in Contexts /\ ScalerTypeOK
    BY DEF Blocked, VoInv, VoTypeOK
  <2>2. QED  BY <2>1, StepsLeftType DEF NeverStuck
<1>2. /\ vpc \notin {"preinit", "idle", "closed", "draw", "fsel", "setters"}
      /\ waiting = (vpc = "check")
      /\ Phase(ctx) /\ ArgsFit(ctx) /\ ~Failed(ctx)
  BY <1>1 DEF Blocked, DriverCan, VoInv, Failed
<1>3. CASE vpc = "check"
  <2>1. Converting(ctx) /\ outIntr[ctx] # "RDY"
    BY <1>1, <1>2, <1>3 DEF Phase, Between, Blocked, DriverCan
  <2>2. pc[ctx] = "post" => largs[ctx].form = "INTR" /\ outIntr[ctx] = "empty"
    BY <1>2, <2>1 DEF ArgsFit, Layout, Converting
  <2>3. <<"RUN">> # <<>>
    OBVIOUS
  <2>4. QED  BY <2>1, <2>2, <2>3 DEF Converting, Ends, CanStep
<1>4. CASE vpc = "join"
  <2>1. Stopping(ctx) /\ pc[ctx] # "absent"
    BY <1>1, <1>2, <1>4 DEF Phase, Between, Blocked, DriverCan, Live
  <2>2. <<"STOP">> # <<>>
    OBVIOUS
  <2>3. QED  BY <2>1, <2>2 DEF Stopping, Ends, CanStep
<1>5. CASE vpc \in {"run", "sendUpdate", "sendStop"}
  <2>1. Resting(ctx) /\ ~(Len(inMbox[ctx]) < 4)
    BY <1>1, <1>2, <1>5 DEF Phase, Between, Blocked, DriverCan, InMboxSize
  <2>2. inMbox[ctx] # <<>>
    BY <2>1
  <2>3. QED  BY <2>1, <2>2 DEF Resting, CanStep
<1>6. vpc \notin {"runCheck", "uninit"}
  BY <1>1, <1>2 DEF Blocked, DriverCan
<1>7. QED
  BY <1>2, <1>3, <1>4, <1>5, <1>6 DEF VoInv, VoTypeOK, Phase, Between

(* While the driver waits, only its program moves, and nearer to the end   *)
(* of its work.                                                            *)
LEMMA WaitSteps ==
  ASSUME VoInv, Blocked, Next
  PROVE  UNCHANGED voVars /\ StepsLeft(ctx)' < StepsLeft(ctx)
<1>1. ~Call
  BY DEF Blocked, Call, Config, ToggleFullscreen, BeginDraw, FlipPage, Uninit
<1>2. ~Continue
  BY DEF Blocked, DriverCan, Continue, EndDraw, CheckBeforeRun, Run, CheckAfterRun, Fsel,
         LastSetter, SendUpdate, CheckBeforeStop, SendStop, Join, YuvcscCheck, ReceiveIntr, Send
<1>3. PICK c \in Contexts : SpuStep(c) /\ UNCHANGED voVars
  BY <1>1, <1>2 DEF Next, Spu
<1>4. pc[c] # "absent"
  BY <1>3, StepsAreGuarded DEF CanStep
<1>5. c = ctx /\ ArgsFit(ctx) /\ ScalerTypeOK
  BY <1>4 DEF VoInv, VoTypeOK, Untouched, Blocked
<1>6. ~RunsOn(c)
  BY <1>5 DEF RunsOn, ArgsFit, Layout
<1>7. StepsLeft(c)' < StepsLeft(c)
  BY <1>3, <1>5, <1>6, ProgramAdvances
<1>8. ctx' = ctx
  BY <1>3 DEF voVars
<1>9. StepsLeft(ctx)' = StepsLeft(c)'
  BY <1>5, <1>8 DEF StepsLeft
<1>10. QED  BY <1>3, <1>5, <1>7, <1>9

LEMMA StepMailbox ==
  ASSUME VoInv, MailboxHolds, [Next]_vars
  PROVE  MailboxHolds'
<1>1. CASE \E c \in Contexts : SpuStep(c)
  BY <1>1, MailboxSteps DEF VoInv, VoTypeOK
<1>2. CASE Run \/ SendUpdate \/ SendStop
  <2>1. ctx \in Contexts /\ \E m \in Messages : Send(ctx, m)
    BY <1>2 DEF Run, SendUpdate, SendStop, Messages, VoInv
  <2>2. QED  BY <2>1, MailboxSteps DEF VoInv, VoTypeOK
<1>3. CASE ~(\E c \in Contexts : SpuStep(c)) /\ ~(Run \/ SendUpdate \/ SendStop)
  <2>1. inMbox' = inMbox
    BY <1>3 DEF Next, Spu, Call, Continue, Config, Create, ToggleFullscreen, SetArgs, BeginDraw,
                FlipPage, Uninit, EndDraw, CheckBeforeRun, CheckAfterRun, Fsel, LastSetter,
                CheckBeforeStop, Join, YuvcscCheck, ReceiveIntr, scalerVars, vars
  <2>2. QED  BY <2>1 DEF MailboxHolds
<1>4. QED  BY <1>1, <1>2, <1>3

(* When the driver waits in flip_page, toggle_fullscreen or uninit, for    *)
(* RDY, for room in the mailbox or for the thread's end, its SPU program   *)
(* can take a step, unless it could not be loaded: the two never wait for  *)
(* each other.  And it has at most 22 steps to take.                       *)
THEOREM DriverNeverStuck == ASSUME ~EarlyToggle PROVE Spec => []NeverStuck
<1>1. Init => MailboxHolds
  BY NoMailYet DEF Init
<1>2. VoInv /\ MailboxHolds /\ [Next]_vars => MailboxHolds'
  BY StepMailbox
<1>3. VoInv /\ MailboxHolds => NeverStuck
  BY StuckNever
<1>4. QED  BY <1>1, <1>2, <1>3, LockstepHolds, PTL DEF Spec

(* And every step that is taken while it waits is one of these, so that    *)
(* the wait is over before they are used up.                               *)
THEOREM DriverWaitsShorten == ASSUME ~EarlyToggle PROVE Spec => WaitsShorten
<1>1. VoInv /\ [Next]_vars =>
        [Blocked => UNCHANGED voVars /\ StepsLeft(ctx)' < StepsLeft(ctx)]_vars
  BY WaitSteps DEF vars
<1>2. QED  BY <1>1, LockstepHolds, PTL DEF Spec, WaitsShorten
=============================================================================
