--------------------------- MODULE XvVideo_proofs ---------------------------
(***************************************************************************)
(* Theorems about the X video port, for every set of contexts, images,     *)
(* sizes and places, whether or not programs fail to load, the port is     *)
(* taken away, or packed images are put.                                   *)
(***************************************************************************)
EXTENDS XvVideo, Yuv2ArgbScaler_proofs, SequenceTheorems, TLAPS

(* What the calls and steps do to a mailbox that holds at most two.        *)
LEMMA MailboxFacts ==
  /\ Append(<<>>, "RUN") = <<"RUN">>
  /\ Append(<<>>, "UPDATE") = <<"UPDATE">>
  /\ Append(<<"UPDATE">>, "RUN") = <<"UPDATE", "RUN">>
  /\ Tail(<<"UPDATE", "RUN">>) = <<"RUN">>
  /\ Head(<<"UPDATE", "RUN">>) = "UPDATE"
  /\ \A m \in Messages : Head(<<m>>) = m /\ Tail(<<m>>) = <<>>
<1>1. Append(<<"UPDATE">>, "RUN") = <<"UPDATE", "RUN">>
  <2>1. Append(<<"UPDATE">>, "RUN") \in Seq(Messages) /\ <<"UPDATE", "RUN">> \in Seq(Messages)
    BY DEF Messages
  <2>2. Len(Append(<<"UPDATE">>, "RUN")) = 2 /\ Len(<<"UPDATE", "RUN">>) = 2
    OBVIOUS
  <2>3. \A i \in 1 .. 2 : Append(<<"UPDATE">>, "RUN")[i] = <<"UPDATE", "RUN">>[i]
    <3>1. Append(<<"UPDATE">>, "RUN")[1] = "UPDATE" /\ Append(<<"UPDATE">>, "RUN")[2] = "RUN"
      OBVIOUS
    <3>2. QED  BY <3>1
  <2>4. QED  BY <2>1, <2>2, <2>3, SeqEqual
<1>2. Tail(<<"UPDATE", "RUN">>) = <<"RUN">> /\ Head(<<"UPDATE", "RUN">>) = "UPDATE"
  OBVIOUS
<1>3. /\ Append(<<>>, "RUN") = <<"RUN">>
      /\ Append(<<>>, "UPDATE") = <<"UPDATE">>
  OBVIOUS
<1>4. \A m \in Messages : Head(<<m>>) = m /\ Tail(<<m>>) = <<>>
  OBVIOUS
<1>5. QED  BY <1>1, <1>2, <1>3, <1>4

(* What STOPs are added to, or taken from, is STOPs.                       *)
LEMMA StopFacts ==
  ASSUME NEW q \in Seq(Messages), \A i \in 1 .. Len(q) : q[i] = "STOP"
  PROVE  /\ LET r == Append(q, "STOP") IN
              /\ r # <<>> /\ \A i \in 1 .. Len(r) : r[i] = "STOP"
         /\ q # <<>> => /\ Head(q) = "STOP"
                        /\ \A i \in 1 .. Len(Tail(q)) : Tail(q)[i] = "STOP"
<1>1. Len(q) \in Nat
  OBVIOUS
<1>2. \A i \in 1 .. Len(Append(q, "STOP")) : Append(q, "STOP")[i] = "STOP"
  OBVIOUS
<1>3. Append(q, "STOP") # <<>>
  <2>1. Len(Append(q, "STOP")) = Len(q) + 1 /\ Len(<<>>) = 0
    OBVIOUS
  <2>2. QED  BY <1>1, <2>1
<1>4. ASSUME q # <<>>
      PROVE  Head(q) = "STOP" /\ \A i \in 1 .. Len(Tail(q)) : Tail(q)[i] = "STOP"
  <2>1. Len(q) >= 1 /\ Len(Tail(q)) = Len(q) - 1
    BY <1>4, EmptySeq, HeadTailProperties
  <2>2. \A i \in 1 .. Len(Tail(q)) : Tail(q)[i] = q[i + 1]
    BY <1>4
  <2>3. QED  BY <1>1, <2>1, <2>2
<1>5. QED  BY <1>2, <1>3, <1>4

-----------------------------------------------------------------------------
(* Types: the library calls, then the port.                                *)

(* The setters and yuvscsc_set_Buffers keep img_args an img_args.          *)
LEMMA ArgsType ==
  ASSUME NEW a \in Args, NEW srcW \in SrcSizes, NEW place \in Places,
         NEW img \in Images, NEW i \in {0, 1}
  PROVE  /\ [a EXCEPT !.form = "HARD"] \in Args
         /\ [a EXCEPT !.buf[i] = img] \in Args
         /\ [a EXCEPT !.buf[i] = img].form = a.form
         /\ [a EXCEPT !.srcW = Align16(srcW), !.place = place] \in Args
         /\ [a EXCEPT !.srcW = Align16(srcW), !.place = place].form = a.form
<1>1. Align16(srcW) \in Nat
  BY ScalerAssumption DEF Align16
<1>2. [a EXCEPT !.form = "HARD"] \in Args
  BY DEF Args, Forms
<1>3. [a EXCEPT !.buf[i] = img] \in Args /\ [a EXCEPT !.buf[i] = img].form = a.form
  BY DEF Args
<1>4. QED  BY <1>1, <1>2, <1>3 DEF Args

(* What SPUPutImage writes for an image put while a scaler runs.           *)
LEMMA PutRunningArgs ==
  ASSUME TypeOK, PortState, ArgsFit, Handshake,
         NEW img \in Images, NEW srcW \in SrcSizes, NEW place \in Places,
         PutRunning(img, srcW, place)
  PROVE  /\ ctx \in Contexts
         /\ iargs' = [iargs EXCEPT ![ctx] = iargs'[ctx]]
         /\ iargs'[ctx] \in Args
         /\ iargs'[ctx].form = "HARD"
<1>1. ctx \in Contexts /\ Serving(ctx) /\ xpc = "idle"
  BY DEF PutRunning, PortState, Serving
<1>2. pc[ctx] # "absent"
  BY <1>1 DEF Handshake, ServingPhase, Failed, Quiet
<1>3. iargs[ctx] \in Args /\ iargs[ctx].form = "HARD"
  BY <1>1, <1>2 DEF ArgsFit
<1> DEFINE sized == IF old # Drawn[place]
                    THEN [iargs[ctx] EXCEPT !.srcW = Align16(srcW), !.place = place]
                    ELSE iargs[ctx]
<1>4. sized \in Args /\ sized.form = "HARD"
  BY <1>3, ArgsType
<1>5. currentBuffer \in {0, 1}
  BY DEF TypeOK
<1>6. iargs' = [iargs EXCEPT ![ctx] = [sized EXCEPT !.buf[currentBuffer] = img]]
  BY DEF PutRunning, SetArgs
<1> HIDE DEF sized
<1>7. [sized EXCEPT !.buf[currentBuffer] = img] \in Args
      /\ [sized EXCEPT !.buf[currentBuffer] = img].form = "HARD"
  BY <1>4, <1>5, ArgsType
<1>8. iargs'[ctx] = [sized EXCEPT !.buf[currentBuffer] = img]
  BY <1>1, <1>6 DEF TypeOK, ScalerTypeOK
<1>9. QED  BY <1>1, <1>6, <1>7, <1>8

LEMMA PortType ==
  ASSUME IInv, Next
  PROVE  TypeOK'
<1> USE DEF IInv, TypeOK, XPCs
<1>1. ASSUME NEW img \in Images, NEW srcW \in SrcSizes, NEW place \in Places,
             PutRunning(img, srcW, place)
      PROVE  TypeOK'
  <2>1. iargs' \in [Contexts -> Args \cup {Unset}]
    BY <1>1, PutRunningArgs DEF ScalerTypeOK
  <2>2. put' \in Calls
    BY <1>1 DEF PutRunning, Calls
  <2>3. old' \in Drawings
    BY <1>1 DEF PutRunning, Drawings
  <2>4. QED  BY <1>1, <2>1, <2>2, <2>3 DEF PutRunning, SetArgs, ScalerTypeOK
<1>2. ASSUME NEW img \in Images, NEW srcW \in SrcSizes, NEW place \in Places,
             NEW c \in Contexts, PutFirst(c, img, srcW, place)
      PROVE  TypeOK'
  <2>1. [srcW |-> srcW, place |-> place, form |-> "INTR",
         buf |-> [i \in {0, 1} |-> IF i = 0 THEN img ELSE img]] \in Args
    BY ScalerAssumption DEF Args, Forms
  <2>2. put' \in Calls
    BY <1>2 DEF PutFirst, Calls
  <2>3. ScalerTypeOK'
    BY <1>2, <2>1 DEF PutFirst, Create, ScalerTypeOK, PCs
  <2>4. old' \in Drawings
    BY <1>2 DEF PutFirst, Drawings
  <2>5. QED  BY <1>2, <2>2, <2>3, <2>4 DEF PutFirst
<1>3. ASSUME NEW img \in Images, NEW srcW \in SrcSizes, NEW place \in Places,
             PutPacked(img, srcW, place)
      PROVE  TypeOK'
  BY <1>3 DEF PutPacked, Calls, scalerVars, ScalerTypeOK
<1>4. CASE StopVideo \/ PutClipped
  BY <1>4 DEF StopVideo, PutClipped, scalerVars, ScalerTypeOK
<1>5. CASE SetForm
  <2>1. ctx \in Contexts /\ iargs[ctx] \in Args
    BY <1>5 DEF SetForm, PortState, Handshake, Serving, ServingPhase, Failed, Fresh, ArgsFit
  <2>2. [iargs[ctx] EXCEPT !.form = "HARD"] \in Args
    BY <2>1 DEF Args, Forms
  <2>3. QED  BY <1>5, <2>1, <2>2 DEF SetForm, SetArgs, ScalerTypeOK
<1>6. CASE SendUpdate
  BY <1>6 DEF SendUpdate, Send, ScalerTypeOK, Messages, PortState
<1>7. CASE SendRun
  BY <1>7 DEF SendRun, Send, ScalerTypeOK, Messages, PortState
<1>8. CASE FlipBuffer
  <2>1. CASE running
    BY <1>8, <2>1 DEF FlipBuffer, Flip, scalerVars, ScalerTypeOK
  <2>2. CASE ~running
    BY <1>8, <2>2 DEF FlipBuffer, Flip, scalerVars, ScalerTypeOK
  <2>3. QED  BY <2>1, <2>2
<1>9. CASE Receive
  BY <1>9 DEF Receive, ReceiveHard, ScalerTypeOK, Outbound
<1>10. CASE ReceiveNothing
  BY <1>10 DEF ReceiveNothing, scalerVars, ScalerTypeOK
<1>11. CASE SendStop
  BY <1>11 DEF SendStop, Send, ScalerTypeOK, Messages, PortState
<1>12. CASE SendAgain
  <2>1. CASE UNCHANGED scalerVars
    BY <1>12, <2>1 DEF SendAgain, scalerVars, ScalerTypeOK
  <2>2. CASE ctx # Unset /\ Send(ctx, "STOP") /\ xpc' = "idle"
    BY <1>12, <2>2 DEF SendAgain, Send, ScalerTypeOK, Messages
  <2>3. QED  BY <1>12, <2>1, <2>2 DEF SendAgain
<1>13. CASE Spu
  <2>1. \A c \in Contexts : pc[c] \in {"loop", "frame"} => largs[c] \in Args
    BY DEF ArgsFit
  <2>2. ScalerTypeOK'
    BY <1>13, <2>1, SpuType DEF Spu
  <2>3. QED  BY <1>13, <2>2 DEF Spu, xvVars
<1>14. QED
  BY <1>1, <1>2, <1>3, <1>4, <1>5, <1>6, <1>7, <1>8, <1>9, <1>10, <1>11, <1>13, <1>12
     DEF Next, Call, Continue

-----------------------------------------------------------------------------
(* The handshake, for one context at a time.                               *)

Shake(c) ==
  \/ Failed(c)
  \/ IF Serving(c) THEN ServingPhase(c) ELSE Absent(c) \/ Stopping(c)

(* A step that leaves alone what Shake(d) is about leaves Shake(d) true.   *)
LEMMA ShakeUnchanged ==
  ASSUME NEW d \in Contexts, Shake(d),
         pc'[d] = pc[d], inMbox'[d] = inMbox[d], outMbox'[d] = outMbox[d],
         outIntr'[d] = outIntr[d], msg'[d] = msg[d],
         Serving(d)' = Serving(d), Serving(d) => xpc' = xpc /\ put' = put
  PROVE  Shake(d)'
BY DEF Shake, ServingPhase, Failed, Absent, Fresh, Quiet, Updating, Converting,
       Done, Stopping, OnlyStops, Silent

(* What the steps of an SPU program make of each phase.                    *)
LEMMA PhaseSteps ==
  ASSUME IInv, NEW c \in Contexts, SpuStep(c)
  PROVE  /\ Fresh(c) => Fresh(c)' \/ Failed(c)'
         /\ Updating(c) => Updating(c)'
         /\ Converting(c) => Converting(c)' \/ Done(c)' \/ Failed(c)'
         /\ Stopping(c) => Stopping(c)' \/ Absent(c)'
         /\ ~Quiet(c) /\ ~Done(c) /\ ~Absent(c) /\ ~Failed(c)
<1> USE DEF IInv, TypeOK, ScalerTypeOK, Silent, SpuStep, Take,
            Failed, Absent, Fresh, Quiet, Updating, Converting, Done, Stopping
<1>1. ~Quiet(c) /\ ~Done(c) /\ ~Absent(c) /\ ~Failed(c)
  BY DEF Load, FirstMessage, Fetch, BeginFrame, Leave, Render, Post, Wait, Refetch,
         DestroyContext
<1>2. ASSUME Fresh(c)  PROVE  Fresh(c)' \/ Failed(c)'
  <2>1. Load(c)
    BY <1>2 DEF FirstMessage, Fetch, BeginFrame, Leave, Render, Post, Wait, Refetch,
                DestroyContext
  <2>2. QED  BY <1>2, <2>1 DEF Load
<1>3. ASSUME Updating(c)  PROVE  Updating(c)'
  <2>1. CASE Refetch(c)
    BY <1>3, <2>1 DEF Refetch
  <2>2. CASE Wait(c)
    <3>1. inMbox[c] = <<"UPDATE">>
      BY <1>3, <2>2 DEF Wait
    <3>2. msg'[c] = "UPDATE" /\ inMbox'[c] = <<>>
      BY <2>2, <3>1, MailboxFacts DEF Wait, Messages
    <3>3. pc'[c] = "refetch"
      BY <2>2, <3>2 DEF Wait
    <3>4. QED  BY <1>3, <2>2, <3>2, <3>3 DEF Wait
  <2>3. QED
    BY <1>3, <2>1, <2>2 DEF Load, FirstMessage, Fetch, BeginFrame, Leave, Render, Post,
                            DestroyContext
<1>4. ASSUME Converting(c)  PROVE  Converting(c)' \/ Done(c)' \/ Failed(c)'
  <2>1. CASE Load(c)
    BY <1>4, <2>1 DEF Load
  <2>2. CASE FirstMessage(c)
    <3>1. inMbox[c] = <<"RUN">>
      BY <1>4, <2>2 DEF FirstMessage
    <3>2. msg'[c] = "RUN" /\ inMbox'[c] = <<>>
      BY <2>2, <3>1, MailboxFacts DEF FirstMessage, Messages
    <3>3. QED  BY <1>4, <2>2, <3>2 DEF FirstMessage
  <2>3. CASE Fetch(c) \/ BeginFrame(c) \/ Render(c) \/ Refetch(c)
    BY <1>4, <2>3 DEF Fetch, BeginFrame, Render, Refetch
  <2>4. CASE Post(c)
    <3>1. largs[c].form = "HARD"
      BY <2>4 DEF Post, ArgsFit
    <3>2. QED  BY <1>4, <2>4, <3>1 DEF Post
  <2>5. CASE Wait(c)
    <3>1. inMbox[c] \in {<<"UPDATE", "RUN">>, <<"RUN">>}
      BY <1>4, <2>5 DEF Wait
    <3>2. CASE inMbox[c] = <<"UPDATE", "RUN">>
      <4>1. msg'[c] = "UPDATE" /\ inMbox'[c] = <<"RUN">>
        BY <2>5, <3>2, MailboxFacts DEF Wait
      <4>2. QED  BY <1>4, <2>5, <4>1 DEF Wait
    <3>3. CASE inMbox[c] = <<"RUN">>
      <4>1. msg'[c] = "RUN" /\ inMbox'[c] = <<>>
        BY <2>5, <3>3, MailboxFacts DEF Wait, Messages
      <4>2. QED  BY <1>4, <2>5, <4>1 DEF Wait
    <3>4. QED  BY <3>1, <3>2, <3>3
  <2>6. QED
    BY <1>4, <2>1, <2>2, <2>3, <2>4, <2>5 DEF Leave, DestroyContext
<1>5. ASSUME Stopping(c)  PROVE  Stopping(c)' \/ Absent(c)'
  <2>1. CASE Wait(c)
    <3>1. inMbox[c] # <<>> /\ inMbox[c] \in Seq(Messages) /\ OnlyStops(c)
      BY <1>5, <2>1 DEF Wait
    <3>2. msg'[c] = "STOP" /\ OnlyStops(c)'
      <4>1. Head(inMbox[c]) = "STOP"
            /\ \A i \in 1 .. Len(Tail(inMbox[c])) : Tail(inMbox[c])[i] = "STOP"
        BY <3>1, StopFacts DEF OnlyStops
      <4>2. QED  BY <2>1, <4>1 DEF Wait, OnlyStops
    <3>3. QED  BY <1>5, <2>1, <3>2 DEF Wait
  <2>2. CASE Leave(c)
    BY <1>5, <2>2 DEF Leave, OnlyStops
  <2>3. CASE DestroyContext(c)
    BY <1>5, <2>3 DEF DestroyContext
  <2>4. QED
    BY <1>5, <2>1, <2>2, <2>3 DEF Load, FirstMessage, Fetch, BeginFrame, Render, Post, Refetch
<1>6. QED  BY <1>1, <1>2, <1>3, <1>4, <1>5

(* A step of an SPU program keeps it in the phase the port expects.        *)
LEMMA SpuShake ==
  ASSUME IInv, NEW c \in Contexts, SpuStep(c), UNCHANGED xvVars
  PROVE  Handshake'
<1>1. ASSUME NEW d \in Contexts
      PROVE  Shake(d) /\ xpc' = xpc /\ put' = put /\ Serving(d)' = Serving(d)
  BY DEF IInv, Handshake, Shake, Serving, xvVars
<1>2. ASSUME NEW d \in Contexts, d # c  PROVE  Shake(d)'
  <2>1. /\ pc'[d] = pc[d] /\ inMbox'[d] = inMbox[d] /\ outMbox'[d] = outMbox[d]
        /\ outIntr'[d] = outIntr[d] /\ msg'[d] = msg[d]
    BY <1>2 DEF IInv, TypeOK, ScalerTypeOK, SpuStep, Load, FirstMessage, Fetch,
                BeginFrame, Leave, Render, Post, Wait, Refetch, DestroyContext, Take
  <2>2. QED  BY <1>1, <2>1, ShakeUnchanged
<1>3. Shake(c)'
  BY <1>1, PhaseSteps DEF Shake, ServingPhase
<1>4. QED  BY <1>2, <1>3 DEF Handshake, Shake

(* A step of the port disturbs at most its own context, which is all that  *)
(* is left to look at.                                                     *)
LEMMA OwnShake ==
  ASSUME IInv, NEW c \in Contexts,
         \A d \in Contexts \ {c} :
           /\ pc'[d] = pc[d] /\ inMbox'[d] = inMbox[d] /\ outMbox'[d] = outMbox[d]
           /\ outIntr'[d] = outIntr[d] /\ msg'[d] = msg[d]
           /\ ~Serving(d) /\ ~Serving(d)',
         Shake(c)'
  PROVE  Handshake'
<1>1. ASSUME NEW d \in Contexts, d # c  PROVE  Shake(d)'
  <2>1. d \in Contexts \ {c} /\ Shake(d) /\ Serving(d)' = Serving(d) /\ ~Serving(d)
    BY <1>1 DEF IInv, Handshake, Shake, Serving
  <2>2. QED  BY <2>1, ShakeUnchanged
<1>2. QED  BY <1>1 DEF IInv, Handshake, Shake

(* The calls of SPUPutImage that change no mailbox.                        *)
LEMMA PutShake ==
  ASSUME IInv, Call \/ SetForm
  PROVE  Handshake'
<1> USE DEF IInv
<1>1. ASSUME NEW img \in Images, NEW srcW \in SrcSizes, NEW place \in Places,
             PutRunning(img, srcW, place)
      PROVE  Handshake'
  <2>1. ctx \in Contexts /\ Serving(ctx) /\ Serving(ctx)' /\ Shake(ctx)
    BY <1>1 DEF PutRunning, PortState, Serving, Handshake, Shake
  <2>2. Failed(ctx) \/ Quiet(ctx)
    BY <1>1, <2>1 DEF Shake, ServingPhase, PutRunning
  <2>3. Shake(ctx)'
    BY <1>1, <2>1, <2>2 DEF PutRunning, SetArgs, Shake, ServingPhase, Failed, Quiet, Silent
  <2>4. QED
    BY <1>1, <2>1, <2>3, OwnShake DEF PutRunning, SetArgs, Serving
<1>2. ASSUME NEW img \in Images, NEW srcW \in SrcSizes, NEW place \in Places,
             NEW c \in Contexts, PutFirst(c, img, srcW, place)
      PROVE  Handshake'
  <2>1. Absent(c) /\ \A d \in Contexts : ~Serving(d)
    BY <1>2 DEF PutFirst, Create, Serving, Handshake, Failed, Absent, Stopping
  <2>2. Serving(c)' /\ Fresh(c)' /\ xpc' = "setForm"
    BY <1>2, <2>1 DEF PutFirst, Create, Serving, Fresh, Absent, Silent, TypeOK, ScalerTypeOK
  <2>3. Shake(c)'
    BY <2>2 DEF Shake, ServingPhase
  <2>4. \A d \in Contexts \ {c} : pc'[d] = pc[d] /\ ~Serving(d)'
    BY <1>2 DEF PutFirst, Create, Serving, TypeOK, ScalerTypeOK
  <2>5. QED
    BY <1>2, <2>1, <2>3, <2>4, OwnShake DEF PutFirst, Create
<1>3. ASSUME NEW img \in Images, NEW srcW \in SrcSizes, NEW place \in Places,
             PutPacked(img, srcW, place)
      PROVE  Handshake'
  <2>1. put'.fmt = "packed" /\ xpc = "idle" /\ xpc' = "flip"
    BY <1>3 DEF PutPacked
  <2>2. ASSUME NEW d \in Contexts  PROVE  Shake(d)'
    <3>1. Serving(d)' = Serving(d)
      BY <1>3 DEF PutPacked, Serving
    <3>2. CASE Serving(d)
      <4>1. Failed(d) \/ Quiet(d)
        BY <3>2, <2>1 DEF Handshake, ServingPhase
      <4>2. QED
        BY <1>3, <2>1, <3>1, <3>2, <4>1
           DEF PutPacked, scalerVars, Shake, ServingPhase, Failed, Quiet, Silent
    <3>3. CASE ~Serving(d)
      BY <1>3, <3>1, <3>3, ShakeUnchanged DEF PutPacked, scalerVars, Handshake, Shake
    <3>4. QED  BY <3>2, <3>3
  <2>3. QED  BY <2>2 DEF Handshake, Shake
<1>4. CASE StopVideo
  <2>1. ASSUME NEW d \in Contexts  PROVE  Shake(d)'
    <3>1. /\ Serving(d)' = Serving(d) /\ xpc = "idle"
          /\ Serving(d) => xpc' = "sendStop"
      BY <1>4 DEF StopVideo, Serving
    <3>2. Shake(d)
      BY DEF Handshake, Shake
    <3>3. QED
      BY <1>4, <3>1, <3>2 DEF StopVideo, scalerVars, Shake, ServingPhase, Failed, Quiet,
                             Absent, Stopping, OnlyStops, Silent
  <2>2. QED  BY <2>1 DEF Handshake, Shake
<1>5. CASE PutClipped
  <2>1. ASSUME NEW d \in Contexts  PROVE  Shake(d)'
    <3>1. Serving(d)' = Serving(d) /\ Shake(d)
      BY <1>5 DEF PutClipped, Serving, Handshake, Shake
    <3>2. QED  BY <1>5, <3>1, ShakeUnchanged DEF PutClipped, scalerVars
  <2>2. QED  BY <2>1 DEF Handshake, Shake
<1>6. CASE SetForm
  <2>1. ASSUME NEW d \in Contexts  PROVE  Shake(d)'
    <3>1. Serving(d)' = Serving(d) /\ xpc = "setForm" /\ xpc' = "sendRun" /\ put' = put
      BY <1>6 DEF SetForm, Serving, PortState
    <3>2. Shake(d)
      BY DEF Handshake, Shake
    <3>3. QED
      BY <1>6, <3>1, <3>2 DEF SetForm, SetArgs, Shake, ServingPhase, Failed, Fresh,
                             Absent, Stopping, OnlyStops, Silent
  <2>2. QED  BY <2>1 DEF Handshake, Shake
<1>7. QED
  BY <1>1, <1>2, <1>3, <1>4, <1>6, <1>5 DEF Call

(* The messages the port sends.                                            *)
LEMMA SendShake ==
  ASSUME IInv, SendUpdate \/ SendRun \/ SendStop
  PROVE  Handshake'
<1> USE DEF IInv
<1>1. ctx \in Contexts /\ Serving(ctx) /\ Shake(ctx)
  BY DEF SendUpdate, SendRun, SendStop, PortState, Serving, Handshake, Shake
<1>2. /\ \A d \in Contexts \ {ctx} : ~Serving(d) /\ ~Serving(d)'
      /\ \A d \in Contexts \ {ctx} : inMbox'[d] = inMbox[d]
      /\ UNCHANGED <<pc, outMbox, outIntr, msg, ctx, put, running>>
  BY <1>1 DEF SendUpdate, SendRun, SendStop, Send, Serving, TypeOK, ScalerTypeOK
<1>3. CASE Failed(ctx)
  <2>1. Failed(ctx)'
    BY <1>2, <1>3 DEF Failed, Silent
  <2>2. QED  BY <1>1, <1>2, <2>1, OwnShake DEF Shake
<1>4. CASE ~Failed(ctx) /\ SendUpdate
  <2>1. Quiet(ctx) /\ Serving(ctx)' /\ xpc' = "sendRun"
    BY <1>1, <1>4 DEF Shake, ServingPhase, SendUpdate, Serving, PortState
  <2>2. inMbox'[ctx] = <<"UPDATE">>
    BY <1>1, <1>4, <2>1, MailboxFacts DEF SendUpdate, Send, Quiet, TypeOK, ScalerTypeOK
  <2>3. Updating(ctx)'
    BY <1>2, <2>1, <2>2 DEF Updating, Quiet, Silent
  <2>4. Shake(ctx)'
    BY <2>1, <2>3 DEF Shake, ServingPhase
  <2>5. QED  BY <1>1, <1>2, <2>4, OwnShake
<1>5. CASE ~Failed(ctx) /\ SendRun
  <2>1. /\ Fresh(ctx) \/ Updating(ctx)
        /\ Serving(ctx)' /\ xpc' = "flip"
    BY <1>1, <1>5 DEF Shake, ServingPhase, SendRun, Serving, PortState
  <2>2. inMbox[ctx] \in {<<>>, <<"UPDATE">>} /\ inMbox'[ctx] = Append(inMbox[ctx], "RUN")
    BY <1>1, <1>5, <2>1 DEF SendRun, Send, Fresh, Updating, TypeOK, ScalerTypeOK
  <2>3. Converting(ctx)'
    <3>1. CASE inMbox[ctx] = <<>>
      <4>1. inMbox'[ctx] = <<"RUN">>
        BY <2>2, <3>1, MailboxFacts
      <4>2. QED  BY <1>2, <2>1, <4>1 DEF Converting, Fresh, Updating, Silent
    <3>2. CASE inMbox[ctx] = <<"UPDATE">>
      <4>1. inMbox[ctx] # <<>>
        BY <3>2
      <4>2. pc[ctx] = "wait" /\ Silent(ctx)
        BY <2>1, <4>1 DEF Fresh, Updating
      <4>3. inMbox'[ctx] = <<"UPDATE", "RUN">>
        BY <2>2, <3>2, MailboxFacts
      <4>4. QED  BY <1>2, <4>2, <4>3 DEF Converting, Silent
    <3>3. QED  BY <2>2, <3>1, <3>2
  <2>4. Shake(ctx)'
    BY <2>1, <2>3, <1>2, <1>5 DEF Shake, ServingPhase, PortState, SendRun
  <2>5. QED  BY <1>1, <1>2, <2>4, OwnShake
<1>6. CASE ~Failed(ctx) /\ SendStop
  <2>1. Quiet(ctx) /\ ~Serving(ctx)'
    BY <1>1, <1>6 DEF Shake, ServingPhase, SendStop, Serving, PortState
  <2>2. inMbox'[ctx] = <<"STOP">>
    <3>1. inMbox'[ctx] = Append(<<>>, "STOP")
      BY <1>1, <1>6, <2>1 DEF SendStop, Send, Quiet, TypeOK, ScalerTypeOK
    <3>2. QED  BY <3>1
  <2>3. inMbox'[ctx] # <<>> /\ \A i \in 1 .. Len(inMbox'[ctx]) : inMbox'[ctx][i] = "STOP"
    BY <2>2
  <2>4. ctx' = ctx /\ pc'[ctx] = "wait" /\ outMbox'[ctx] = "empty" /\ outIntr'[ctx] = "empty"
    BY <1>2, <2>1 DEF Quiet, Silent
  <2>5. Stopping(ctx)'
    BY <2>3, <2>4 DEF Stopping, OnlyStops, Silent
  <2>6. Shake(ctx)'
    BY <2>1, <2>5 DEF Shake
  <2>7. QED  BY <1>1, <1>2, <2>6, OwnShake
<1>7. QED  BY <1>3, <1>4, <1>5, <1>6

(* A further STOP goes to a program that stops, or to none.                *)
LEMMA AgainShake ==
  ASSUME IInv, SendAgain
  PROVE  Handshake'
<1> USE DEF IInv
<1>1. \A d \in Contexts :
        ~Serving(d) /\ ~Serving(d)' /\ Serving(d)' = Serving(d) /\ Shake(d)
  BY DEF SendAgain, PortState, Serving, Handshake, Shake
<1>2. CASE UNCHANGED scalerVars
  <2>1. ASSUME NEW d \in Contexts  PROVE  Shake(d)'
    BY <1>1, <1>2, <2>1, ShakeUnchanged DEF scalerVars
  <2>2. QED  BY <2>1 DEF Handshake, Shake
<1>3. CASE ctx # Unset /\ Live(ctx) /\ Send(ctx, "STOP")
  <2>1. ctx \in Contexts /\ inMbox[ctx] \in Seq(Messages)
    BY <1>3 DEF TypeOK, ScalerTypeOK
  <2>2. /\ UNCHANGED <<pc, outMbox, outIntr, msg, ctx>>
        /\ inMbox'[ctx] = Append(inMbox[ctx], "STOP")
        /\ \A d \in Contexts \ {ctx} : inMbox'[d] = inMbox[d]
    BY <1>3, <2>1 DEF SendAgain, Send, TypeOK, ScalerTypeOK
  <2>3. Failed(ctx) \/ Stopping(ctx)
    BY <1>1, <1>3, <2>1 DEF Shake, Live, Absent
  <2>4. CASE Failed(ctx)
    <3>1. Failed(ctx)'
      BY <2>2, <2>4 DEF Failed, Silent
    <3>2. Shake(ctx)'
      BY <3>1 DEF Shake
    <3>3. QED  BY <1>1, <2>1, <2>2, <3>2, OwnShake
  <2>5. CASE Stopping(ctx)
    <3>1. /\ inMbox'[ctx] # <<>>
          /\ \A i \in 1 .. Len(inMbox'[ctx]) : inMbox'[ctx][i] = "STOP"
      <4>1. \A i \in 1 .. Len(inMbox[ctx]) : inMbox[ctx][i] = "STOP"
        BY <2>5 DEF Stopping, OnlyStops
      <4>2. QED  BY <2>1, <2>2, <4>1, StopFacts
    <3>2. Stopping(ctx)'
      BY <2>2, <2>5, <3>1 DEF Stopping, OnlyStops, Silent
    <3>3. Shake(ctx)'
      BY <1>1, <2>1, <2>2, <3>2 DEF Shake
    <3>4. QED  BY <1>1, <2>1, <2>2, <3>3, OwnShake
  <2>6. QED  BY <2>3, <2>4, <2>5
<1>4. QED  BY <1>2, <1>3 DEF SendAgain

(* A program with the RUN of a frame works, and has not reported yet.      *)
LEMMA ConvertingWorks ==
  ASSUME NEW c \in Contexts, Converting(c)
  PROVE  outMbox[c] = "empty" /\ Working(c)
<1>1. CASE inMbox[c] = <<"RUN">>
  <2>1. 1 \in 1 .. Len(inMbox[c]) /\ inMbox[c][1] = "RUN"
    BY <1>1
  <2>2. Holds(c, "RUN")
    BY <2>1 DEF Holds
  <2>3. QED  BY <1>1, <2>2 DEF Converting, Working, Silent
<1>2. CASE inMbox[c] = <<"UPDATE", "RUN">>
  <2>1. 2 \in 1 .. Len(inMbox[c]) /\ inMbox[c][2] = "RUN"
    BY <1>2
  <2>2. Holds(c, "RUN")
    BY <2>1 DEF Holds
  <2>3. QED  BY <1>2, <2>2 DEF Converting, Working, Silent
<1>3. CASE pc[c] \in {"fetch", "loop", "frame", "post"}
  BY <1>3 DEF Converting, Working, Silent
<1>4. QED  BY <1>1, <1>2, <1>3 DEF Converting

(* The wait for RDY: when RDY has come the program is Done, and when it    *)
(* never will, the program is Quiet or was never loaded.                   *)
LEMMA ReceiveShake ==
  ASSUME IInv, FlipBuffer \/ Receive \/ ReceiveNothing
  PROVE  Handshake'
<1> USE DEF IInv
<1>1. CASE FlipBuffer
  <2>1. ASSUME NEW d \in Contexts  PROVE  Shake(d)'
    <3>1. /\ Serving(d)' = Serving(d) /\ Shake(d)
          /\ Serving(d) => put' = put
      BY <1>1 DEF FlipBuffer, Serving, Handshake, Shake
    <3>2. CASE Serving(d)
      <4>1. running /\ xpc' = "receive" /\ xpc = "flip"
        BY <1>1, <3>2 DEF Serving, FlipBuffer
      <4>2. UNCHANGED scalerVars
        BY <1>1 DEF FlipBuffer
      <4>3. QED
        BY <3>1, <3>2, <4>1, <4>2
           DEF scalerVars, Shake, ServingPhase, Failed, Quiet, Converting, Done, Silent
    <3>3. CASE ~Serving(d)
      BY <1>1, <3>1, <3>3, ShakeUnchanged DEF FlipBuffer, scalerVars
    <3>4. QED  BY <3>2, <3>3
  <2>2. QED  BY <2>1 DEF Handshake, Shake
<1>2. CASE Receive \/ ReceiveNothing
  <2>1. ctx \in Contexts /\ Serving(ctx) /\ Serving(ctx)' /\ Shake(ctx)
        /\ xpc = "receive" /\ xpc' = "idle"
    BY <1>2 DEF Receive, ReceiveNothing, PortState, Serving, Handshake, Shake
  <2>2. /\ \A d \in Contexts \ {ctx} : ~Serving(d) /\ ~Serving(d)'
        /\ \A d \in Contexts \ {ctx} : outMbox'[d] = outMbox[d]
        /\ UNCHANGED <<pc, inMbox, outIntr, msg, ctx>>
    BY <1>2, <2>1 DEF Receive, ReceiveNothing, ReceiveHard, scalerVars, Serving, TypeOK,
                      ScalerTypeOK
  <2>3. outMbox'[ctx] = "empty"
    BY <1>2, <2>1 DEF Receive, ReceiveNothing, ReceiveHard, scalerVars, TypeOK, ScalerTypeOK
  <2>4. Failed(ctx) \/ Quiet(ctx) \/ Done(ctx) \/ Converting(ctx)
    BY <2>1 DEF Shake, ServingPhase
  <2>5. ASSUME Converting(ctx)  PROVE  outMbox[ctx] = "empty" /\ Working(ctx)
    BY <2>1, <2>5, ConvertingWorks
  <2>6. Failed(ctx) \/ Quiet(ctx) \/ Done(ctx)
    BY <1>2, <2>4, <2>5 DEF Receive, ReceiveHard, ReceiveNothing
  <2>7. Failed(ctx)' \/ Quiet(ctx)'
    BY <2>2, <2>3, <2>6 DEF Failed, Quiet, Done, Silent
  <2>8. Shake(ctx)'
    BY <2>1, <2>7 DEF Shake, ServingPhase
  <2>9. QED  BY <2>1, <2>2, <2>8, OwnShake
<1>3. QED  BY <1>1, <1>2

-----------------------------------------------------------------------------
(* The notes of the port and the arguments.                                *)

LEMMA PortStateStep ==
  ASSUME IInv, Next
  PROVE  PortState'
<1> USE DEF IInv, TypeOK, PortState
<1>1. ASSUME NEW img \in Images, NEW srcW \in SrcSizes, NEW place \in Places
      PROVE  /\ PutRunning(img, srcW, place) => PortState'
             /\ PutPacked(img, srcW, place) => PortState'
             /\ \A c \in Contexts : PutFirst(c, img, srcW, place) => PortState'
  BY <1>1 DEF PutRunning, PutPacked, PutFirst, Calls
<1>2. CASE \/ StopVideo \/ PutClipped \/ SetForm \/ SendUpdate \/ SendRun
           \/ SendStop \/ SendAgain
  BY <1>2 DEF StopVideo, PutClipped, SetForm, SendUpdate, SendRun, SendStop, SendAgain
<1>3. CASE FlipBuffer
  <2>1. CASE running
    BY <1>3, <2>1 DEF FlipBuffer
  <2>2. CASE ~running
    BY <1>3, <2>2 DEF FlipBuffer
  <2>3. QED  BY <2>1, <2>2
<1>4. CASE Receive \/ ReceiveNothing \/ Spu
  <2>1. CASE Receive \/ ReceiveNothing
    BY <2>1 DEF Receive, ReceiveNothing
  <2>2. CASE Spu
    BY <2>2 DEF Spu, xvVars
  <2>3. QED  BY <1>4, <2>1, <2>2
<1>5. QED  BY <1>1, <1>2, <1>3, <1>4 DEF Next, Call, Continue

(* The part of ArgsFit about one context.                                  *)
Fit(c) ==
  /\ pc[c] # "absent" => iargs[c] \in Args
  /\ Serving(c) /\ xpc # "setForm" => iargs[c].form = "HARD"
  /\ pc[c] \in {"loop", "frame", "post", "wait", "refetch"} =>
       /\ largs[c] \in Args
       /\ largs[c].form = "HARD"
       /\ first[c] \/ Fits(filter[c], largs[c])
  /\ pc[c] \in {"absent", "created", "boot", "fetch"} => first[c]
  /\ pc[c] = "frame" => ~first[c]

LEMMA FitUnchanged ==
  ASSUME NEW d \in Contexts, Fit(d),
         iargs'[d] = iargs[d], pc'[d] = pc[d], largs'[d] = largs[d],
         first'[d] = first[d], filter'[d] = filter[d],
         Serving(d)' /\ xpc' # "setForm" => Serving(d) /\ xpc # "setForm"
  PROVE  Fit(d)'
BY DEF Fit, Fits, Small

(* An SPU program reads img_args only when the port has set them up.       *)
LEMMA FetchServed ==
  ASSUME Handshake, NEW c \in Contexts, pc[c] \in {"fetch", "refetch"}
  PROVE  Serving(c) /\ xpc # "setForm"
<1>1. Serving(c) /\ ServingPhase(c)
  BY DEF Handshake, Failed, Absent, Stopping
<1>2. QED  BY <1>1 DEF ServingPhase, Fresh

LEMMA SpuFit ==
  ASSUME IInv, NEW c \in Contexts, SpuStep(c), UNCHANGED xvVars
  PROVE  ArgsFit'
<1> USE DEF IInv, TypeOK, ScalerTypeOK
<1>1. /\ \A d \in Contexts : Fit(d)
      /\ \A d \in Contexts : Serving(d)' <=> Serving(d)
      /\ xpc' = xpc
  BY DEF ArgsFit, Fit, Serving, xvVars
<1>2. ASSUME NEW d \in Contexts, d # c  PROVE  Fit(d)'
  <2>1. /\ pc'[d] = pc[d] /\ iargs'[d] = iargs[d] /\ largs'[d] = largs[d]
        /\ first'[d] = first[d] /\ filter'[d] = filter[d]
    BY <1>2 DEF SpuStep, Load, FirstMessage, Fetch, BeginFrame, Leave, Render, Post, Wait,
                Refetch, DestroyContext, Take
  <2>2. QED  BY <1>1, <2>1, FitUnchanged
<1>3. Fit(c)'
  <2>1. CASE Load(c) \/ FirstMessage(c) \/ Leave(c) \/ DestroyContext(c)
    BY <1>1, <2>1 DEF Fit, Load, FirstMessage, Leave, DestroyContext
  <2>2. CASE Fetch(c) \/ Refetch(c)
    <3>1. iargs[c] \in Args /\ iargs[c].form = "HARD"
      BY <1>1, <2>2, FetchServed DEF Fit, Fetch, Refetch
    <3>2. QED  BY <1>1, <2>2, <3>1 DEF Fit, Fetch, Refetch
  <2>3. CASE BeginFrame(c)
    <3>1. largs[c] \in Args /\ (first[c] \/ Fits(filter[c], largs[c]))
      BY <1>1, <2>3 DEF Fit, BeginFrame
    <3>2. /\ UNCHANGED <<iargs, largs>> /\ pc'[c] = "frame" /\ ~first'[c]
          /\ filter'[c] = IF first[c] THEN Sized(largs[c], filter[c]) ELSE filter[c]
      BY <2>3 DEF BeginFrame
    <3>3. Fits(Sized(largs[c], filter[c]), largs[c])
      BY <3>1, SizedFits
    <3>4. Fits(filter'[c], largs[c])
      BY <3>1, <3>2, <3>3
    <3>5. Fits(filter[c], largs[c])'
      BY <3>2, <3>4 DEF Fits, Small
    <3>6. QED  BY <1>1, <2>3, <3>2, <3>5 DEF Fit, BeginFrame
  <2>4. CASE Render(c) \/ Post(c)
    BY <1>1, <2>4 DEF Fit, Fits, Small, Render, Post
  <2>5. CASE Wait(c)
    <3>1. /\ pc[c] = "wait" /\ pc'[c] \in {"loop", "wait", "refetch"}
          /\ UNCHANGED <<iargs, largs, first, filter>>
      BY <2>5 DEF Wait
    <3>2. QED  BY <1>1, <3>1 DEF Fit, Fits, Small
  <2>6. QED  BY <2>1, <2>2, <2>3, <2>4, <2>5 DEF SpuStep
<1>4. QED  BY <1>2, <1>3 DEF ArgsFit, Fit

LEMMA PortFit ==
  ASSUME IInv, Call \/ Continue
  PROVE  ArgsFit'
<1> USE DEF IInv, TypeOK, ScalerTypeOK
<1>1. \A d \in Contexts : Fit(d)
  BY DEF ArgsFit, Fit
<1>2. SUFFICES ASSUME NEW d \in Contexts  PROVE  Fit(d)'
  BY DEF ArgsFit, Fit
<1>3. ASSUME NEW img \in Images, NEW srcW \in SrcSizes, NEW place \in Places,
             PutRunning(img, srcW, place)
      PROVE  Fit(d)'
  <2>1. iargs'[d] = iargs[d] \/ (iargs'[d] \in Args /\ iargs'[d].form = "HARD")
    BY <1>3, PutRunningArgs
  <2>2. /\ UNCHANGED <<pc, largs, first, filter>>
        /\ Serving(d)' /\ xpc' # "setForm" => Serving(d) /\ xpc # "setForm"
    BY <1>3 DEF PutRunning, SetArgs, Serving
  <2>3. QED  BY <1>1, <2>1, <2>2 DEF Fit, Fits, Small
<1>4. ASSUME NEW img \in Images, NEW srcW \in SrcSizes, NEW place \in Places,
             NEW c \in Contexts, PutFirst(c, img, srcW, place)
      PROVE  Fit(d)'
  <2>1. [srcW |-> srcW, place |-> place, form |-> "INTR",
         buf |-> [i \in {0, 1} |-> IF i = 0 THEN img ELSE img]] \in Args
    BY ScalerAssumption DEF Args, Forms
  <2>2. QED  BY <1>1, <1>4, <2>1 DEF Fit, Fits, Small, PutFirst, Create
<1>5. ASSUME NEW img \in Images, NEW srcW \in SrcSizes, NEW place \in Places,
             PutPacked(img, srcW, place)
      PROVE  Fit(d)'
  BY <1>1, <1>5 DEF Fit, Fits, Small, PutPacked, scalerVars, Serving
<1>6. CASE SetForm
  <2>1. ctx \in Contexts /\ iargs[ctx] \in Args
    BY <1>6 DEF SetForm, PortState, Handshake, Serving, ServingPhase, Failed, Fresh, ArgsFit
  <2>2. [iargs[ctx] EXCEPT !.form = "HARD"] \in Args
        /\ [iargs[ctx] EXCEPT !.form = "HARD"].form = "HARD"
    BY <2>1 DEF Args, Forms
  <2>3. d = ctx => iargs'[d] \in Args /\ iargs'[d].form = "HARD"
    BY <1>6, <2>1, <2>2 DEF SetForm, SetArgs
  <2>4. d # ctx => iargs'[d] = iargs[d] /\ ~Serving(d)'
    BY <1>6, <2>1 DEF SetForm, SetArgs, Serving
  <2>5. UNCHANGED <<pc, largs, first, filter>>
    BY <1>6 DEF SetForm, SetArgs
  <2>6. QED  BY <1>1, <2>3, <2>4, <2>5 DEF Fit, Fits, Small
<1>7. CASE \/ StopVideo \/ PutClipped \/ SendUpdate \/ SendRun \/ SendStop
           \/ SendAgain \/ FlipBuffer \/ Receive \/ ReceiveNothing
  <2>1. UNCHANGED <<iargs, pc, largs, first, filter>>
    BY <1>7 DEF StopVideo, PutClipped, SendUpdate, SendRun, SendStop, SendAgain, FlipBuffer,
                Receive, ReceiveNothing, ReceiveHard, Send, scalerVars
  <2>2. Serving(d)' /\ xpc' # "setForm" => Serving(d) /\ xpc # "setForm"
    BY <1>7 DEF StopVideo, PutClipped, SendUpdate, SendRun, SendStop, SendAgain, FlipBuffer,
                Receive, ReceiveNothing, Serving, PortState
  <2>3. QED  BY <1>1, <2>1, <2>2, FitUnchanged
<1>8. QED  BY <1>3, <1>4, <1>5, <1>6, <1>7 DEF Call, Continue

-----------------------------------------------------------------------------
(* The invariant holds at first and is kept by every step.                 *)

LEMMA InitIInv ==
  ASSUME Init
  PROVE  IInv
<1> USE DEF Init, ScalerInit
<1>1. TypeOK
  <2>1. <<>> \in Seq(Messages)
    OBVIOUS
  <2>2. ScalerTypeOK
    BY <2>1 DEF ScalerTypeOK, PCs, Messages, Outbound
  <2>3. QED  BY <2>2 DEF TypeOK, XPCs
<1>2. Handshake
  BY DEF Handshake, Serving, Absent, Silent
<1>3. PortState /\ ArgsFit
  BY DEF PortState, ArgsFit, Serving
<1>4. QED  BY <1>1, <1>2, <1>3 DEF IInv

LEMMA StepIInv ==
  ASSUME IInv, [Next]_vars
  PROVE  IInv'
<1>1. CASE Next
  <2>1. TypeOK' /\ PortState'
    BY <1>1, PortType, PortStateStep
  <2>2. Handshake' /\ ArgsFit'
    <3>1. CASE Spu
      BY <3>1, SpuShake, SpuFit DEF Spu
    <3>2. CASE Call
      BY <3>2, PutShake, PortFit
    <3>3. CASE Continue
      BY <3>3, PutShake, SendShake, AgainShake, ReceiveShake, PortFit DEF Continue
    <3>4. QED  BY <1>1, <3>1, <3>2, <3>3 DEF Next
  <2>3. QED  BY <2>1, <2>2 DEF IInv
<1>2. CASE UNCHANGED vars
  <2> USE DEF vars, scalerVars, xvVars
  <2>1. TypeOK' /\ PortState'
    BY <1>2 DEF IInv, TypeOK, ScalerTypeOK, PortState
  <2>2. ASSUME NEW d \in Contexts  PROVE  Shake(d)' /\ Fit(d)'
    <3>1. /\ Shake(d) /\ Fit(d)
          /\ Serving(d)' = Serving(d)
      BY <1>2 DEF IInv, Handshake, Shake, ArgsFit, Fit, Serving
    <3>2. Shake(d)'
      BY <1>2, <3>1, ShakeUnchanged
    <3>3. Fit(d)'
      BY <1>2, <3>1, FitUnchanged
    <3>4. QED  BY <3>2, <3>3
  <2>3. QED  BY <2>1, <2>2 DEF IInv, Handshake, Shake, ArgsFit, Fit
<1>3. QED  BY <1>1, <1>2

(* The port and the SPU programs keep to the handshake: in every reachable *)
(* state each program and its mailboxes are where the call that the X      *)
(* server is making expects them (SPUPutImage, SPUStopVideo).              *)
THEOREM HandshakeHolds == Spec => []IInv
<1>1. Init => IInv
  BY InitIInv
<1>2. IInv /\ [Next]_vars => IInv'
  BY StepIInv
<1>3. QED  BY <1>1, <1>2, PTL DEF Spec

(* Every variable keeps its type; in particular no program converts before *)
(* it has read its arguments.                                              *)
THEOREM TypeCorrect == Spec => []TypeOK
<1>1. IInv => TypeOK
  BY DEF IInv
<1>2. QED  BY <1>1, HandshakeHolds, PTL

-----------------------------------------------------------------------------
(* What the handshake gives.                                               *)

(* A program that is not in the middle of a frame, by its phase.           *)
LEMMA NotWorking ==
  ASSUME NEW c \in Contexts,
         Failed(c) \/ Absent(c) \/ Quiet(c) \/ Stopping(c)
  PROVE  ~Working(c) /\ outMbox[c] = "empty"
<1>1. ASSUME inMbox[c] = <<>>  PROVE  ~Holds(c, "RUN")
  BY <1>1 DEF Holds
<1>2. ASSUME OnlyStops(c)  PROVE  ~Holds(c, "RUN")
  BY <1>2 DEF OnlyStops, Holds
<1>3. QED
  BY <1>1, <1>2 DEF Working, Failed, Absent, Quiet, Stopping, Silent

(* Between two calls of the X server no frame is under way and no answer   *)
(* waits to be mistaken for that of a later call.                          *)
THEOREM AnswersCollected == Spec => []IdleMeansAnswered
<1>1. IInv => IdleMeansAnswered
  <2>1. SUFFICES ASSUME IInv, xpc = "idle", NEW c \in Contexts
                 PROVE  ~Working(c) /\ outMbox[c] = "empty"
    BY DEF IdleMeansAnswered
  <2>2. Failed(c) \/ Absent(c) \/ Quiet(c) \/ Stopping(c)
    BY <2>1 DEF IInv, Handshake, ServingPhase
  <2>3. QED  BY <2>2, NotWorking
<1>2. QED  BY <1>1, HandshakeHolds, PTL

(* The port never sends the messages of an image, or the first STOP, to a  *)
(* context its thread has destroyed, and never waits for one; a further    *)
(* STOP falls on a scaler that has been told to stop, or on none.          *)
THEOREM ContextOutlivesCalls == Spec => []SendsReachLiveContext
<1>1. IInv => SendsReachLiveContext
  <2>1. ASSUME IInv,
               xpc \in {"setForm", "sendUpdate", "sendRun", "receive", "sendStop"}
        PROVE  ctx \in Contexts /\ Live(ctx)
    <3>2. ctx \in Contexts /\ Serving(ctx)
      BY <2>1 DEF IInv, PortState, Serving
    <3>3. Shake(ctx)
      BY <2>1, <3>2 DEF IInv, Handshake, Shake
    <3>4. pc[ctx] # "absent"
      BY <2>1, <3>2, <3>3 DEF Shake, Failed, ServingPhase, Fresh, Quiet, Updating,
                              Converting, Done
    <3>5. QED  BY <3>2, <3>4 DEF Live
  <2>2. ASSUME IInv, xpc = "sendAgain", ctx # Unset, Live(ctx), pc[ctx] # "failed"
        PROVE  Holds(ctx, "STOP") \/ msg[ctx] = "STOP"
    <3>1. ctx \in Contexts /\ inMbox[ctx] \in Seq(Messages)
      BY <2>2 DEF IInv, TypeOK, ScalerTypeOK
    <3>2. Stopping(ctx)
      BY <2>2, <3>1 DEF IInv, Handshake, PortState, Serving, Failed, Absent, Live
    <3>3. CASE inMbox[ctx] # <<>>
      <4>1. 1 \in 1 .. Len(inMbox[ctx])
        BY <3>1, <3>3, EmptySeq
      <4>2. inMbox[ctx][1] = "STOP"
        BY <3>2, <4>1 DEF Stopping, OnlyStops
      <4>3. QED  BY <4>1, <4>2 DEF Holds
    <3>4. CASE inMbox[ctx] = <<>>
      BY <3>2, <3>4 DEF Stopping
    <3>5. QED  BY <3>3, <3>4
  <2>3. QED  BY <2>1, <2>2 DEF SendsReachLiveContext
<1>2. QED  BY <1>1, HandshakeHolds, PTL

(* No frame is scaled with filters computed for another size; what may be  *)
(* left of one is the way chroma is read where nothing is scaled.          *)
THEOREM FiltersFollowSizes == Spec => []FilterMatches
<1>1. IInv => FilterMatches
  BY DEF IInv, ArgsFit, FilterMatches
<1>2. QED  BY <1>1, HandshakeHolds, PTL

(* img_args is never written while an SPU program is about to read it.     *)
THEOREM ArgsNeverTorn == Spec => ArgsStable
<1>1. IInv /\ [Next]_vars =>
        [\A c \in Contexts : iargs'[c] # iargs[c] => ~WillFetch(c)]_vars
  <2>1. SUFFICES ASSUME IInv, Next, NEW c \in Contexts, iargs'[c] # iargs[c]
                 PROVE  ~WillFetch(c)
    OBVIOUS
  <2>2. Failed(c) \/ Absent(c) \/ Fresh(c) \/ Quiet(c)
    <3> USE <2>1 DEF IInv
    <3>1. ASSUME NEW img \in Images, NEW srcW \in SrcSizes, NEW place \in Places,
                 PutRunning(img, srcW, place)
          PROVE  Failed(c) \/ Quiet(c)
      <4>1. c = ctx /\ xpc = "idle" /\ Serving(c)
        BY <3>1, PutRunningArgs DEF PutRunning, Serving, TypeOK, ScalerTypeOK
      <4>2. QED  BY <4>1 DEF Handshake, ServingPhase
    <3>2. ASSUME NEW img \in Images, NEW srcW \in SrcSizes, NEW place \in Places,
                 NEW d \in Contexts, PutFirst(d, img, srcW, place)
          PROVE  Absent(c)
      <4>1. c = d /\ pc[c] = "absent" /\ ~Serving(c)
        BY <3>2 DEF PutFirst, Create, Serving, TypeOK, ScalerTypeOK
      <4>2. QED  BY <4>1 DEF Handshake, Failed, Stopping
    <3>3. CASE SetForm
      <4>1. c = ctx /\ xpc = "setForm" /\ Serving(c)
        BY <3>3 DEF SetForm, SetArgs, PortState, Serving, TypeOK, ScalerTypeOK
      <4>2. QED  BY <4>1 DEF Handshake, ServingPhase
    <3>4. \A img \in Images, srcW \in SrcSizes, place \in Places :
            ~PutPacked(img, srcW, place)
      BY DEF PutPacked, scalerVars
    <3>5. ~(StopVideo \/ SendUpdate \/ SendRun \/ SendStop \/ FlipBuffer \/ Receive
              \/ ReceiveNothing \/ PutClipped \/ SendAgain)
      BY DEF StopVideo, PutClipped, SendUpdate, SendRun, SendStop, SendAgain, FlipBuffer,
             Receive, ReceiveNothing, ReceiveHard, Send, scalerVars
    <3>6. ~Spu
      BY DEF Spu, SpuStep, Load, FirstMessage, Fetch, BeginFrame, Leave, Render, Post, Wait,
             Refetch, DestroyContext
    <3>7. QED
      BY <3>1, <3>2, <3>3, <3>4, <3>5, <3>6 DEF Next, Call, Continue
  <2>3. QED
    BY <2>2 DEF Failed, Absent, Fresh, Quiet, WillFetch, Holds
<1>2. QED  BY <1>1, HandshakeHolds, PTL DEF Spec, ArgsStable

(* A program that ends leaves no message unread but further STOPs, and no  *)
(* answer uncollected.                                                     *)
THEOREM StopIsClean == Spec => StopLosesNoFrame
<1>1. IInv =>
        \A c \in Contexts :
          pc[c] = "loop" /\ msg[c] = "STOP" => OnlyStops(c) /\ Silent(c)
  <2>1. SUFFICES ASSUME IInv, NEW c \in Contexts, pc[c] = "loop", msg[c] = "STOP"
                 PROVE  OnlyStops(c) /\ Silent(c)
    OBVIOUS
  <2>2. ~Failed(c) /\ ~Fresh(c) /\ ~Quiet(c) /\ ~Updating(c) /\ ~Converting(c) /\ ~Done(c)
        /\ ~Absent(c)
    BY <2>1 DEF Failed, Absent, Fresh, Quiet, Updating, Converting, Done
  <2>3. Stopping(c)
    <3>1. Shake(c) /\ PortState /\ TypeOK
      BY <2>1 DEF IInv, Handshake, Shake
    <3>2. Serving(c) => ~ServingPhase(c)
      BY <2>2, <3>1 DEF Serving, ServingPhase, PortState, TypeOK, XPCs
    <3>3. QED  BY <2>2, <3>1, <3>2 DEF Shake
  <2>4. QED  BY <2>1, <2>3 DEF Stopping
<1>2. ASSUME TypeOK, Next, NEW c \in Contexts, pc[c] = "loop", pc'[c] = "exited"
      PROVE  msg[c] = "STOP"
  <2>1. PICK d \in Contexts : SpuStep(d)
    <3>1. \A img \in Images, srcW \in SrcSizes, place \in Places :
            /\ ~PutRunning(img, srcW, place) /\ ~PutPacked(img, srcW, place)
            /\ \A d \in Contexts : ~PutFirst(d, img, srcW, place)
      BY <1>2 DEF PutRunning, PutFirst, PutPacked, SetArgs, Create, scalerVars, TypeOK,
                  ScalerTypeOK
    <3>2. ~(StopVideo \/ PutClipped \/ Continue)
      BY <1>2 DEF StopVideo, PutClipped, Continue, SetForm, SendUpdate, SendRun, SendStop,
                  SendAgain, FlipBuffer, Receive, ReceiveNothing, ReceiveHard, Send, SetArgs,
                  scalerVars
    <3>3. QED  BY <1>2, <3>1, <3>2 DEF Next, Call, Spu
  <2>2. c = d
    BY <1>2, <2>1 DEF TypeOK, ScalerTypeOK, SpuStep, Load, FirstMessage, Fetch, BeginFrame,
                      Leave, Render, Post, Wait, Refetch, DestroyContext
  <2>3. QED
    BY <1>2, <2>1, <2>2 DEF TypeOK, ScalerTypeOK, SpuStep, Load, FirstMessage, Fetch,
                            BeginFrame, Leave, Render, Post, Wait, Refetch, DestroyContext
<1>3. IInv /\ [Next]_vars =>
        [\A c \in Contexts :
           pc[c] = "loop" /\ pc'[c] = "exited" =>
             OnlyStops(c) /\ outMbox[c] = "empty" /\ outIntr[c] = "empty"]_vars
  BY <1>1, <1>2 DEF IInv, Silent
<1>4. QED  BY <1>3, HandshakeHolds, PTL DEF Spec, StopLosesNoFrame

(* A planar image whose program has been loaded is never waited for in     *)
(* vain: the frame is on its way, or its RDY is in the mailbox.            *)
THEOREM NoWaitInVain == Spec => []NoFutileWait
<1>1. IInv => NoFutileWait
  <2>1. SUFFICES ASSUME IInv, xpc = "receive", put.fmt = "planar", pc[ctx] # "failed"
                 PROVE  Working(ctx) \/ outMbox[ctx] = "RDY"
    BY DEF NoFutileWait
  <2>2. ctx \in Contexts /\ Serving(ctx)
    BY <2>1 DEF IInv, PortState, Serving
  <2>3. Converting(ctx) \/ Done(ctx)
    BY <2>1, <2>2 DEF IInv, Handshake, Failed, ServingPhase
  <2>4. QED  BY <2>2, <2>3, ConvertingWorks DEF Done
<1>2. QED  BY <1>1, HandshakeHolds, PTL

-----------------------------------------------------------------------------
(* The image of a port that is never taken away and is given planar images *)
(* only.                                                                   *)

(* What the handshake says of the context that is served.                  *)
LEMMA ServedFacts ==
  ASSUME IInv, running
  PROVE  /\ ctx \in Contexts /\ xpc \notin {"sendStop", "sendAgain", "lost"}
         /\ Failed(ctx) \/ ServingPhase(ctx)
         /\ xpc # "idle" => put \in Calls
BY DEF IInv, PortState, Handshake, Serving

LEMMA SpuImage ==
  ASSUME ImageInv, NEW c \in Contexts, SpuStep(c), UNCHANGED xvVars
  PROVE  ImageFit'
<1> USE DEF ImageInv, IInv, TypeOK, ScalerTypeOK
<1>1. UNCHANGED <<xpc, running, ctx, currentBuffer, old, put, iargs>> /\ Turn' = Turn
  BY DEF xvVars, Turn, SpuStep, Load, FirstMessage, Fetch, BeginFrame, Leave, Render, Post, Wait,
         Refetch, DestroyContext
<1>2. running
  BY DEF ImageFit, SpuStep, Load, FirstMessage, Fetch, BeginFrame, Leave, Render, Post, Wait,
         Refetch, DestroyContext
<1>3. CASE c # ctx
  <2>1. /\ pc'[ctx] = pc[ctx] /\ sel'[ctx] = sel[ctx] /\ outMbox'[ctx] = outMbox[ctx]
        /\ inMbox'[ctx] = inMbox[ctx] /\ largs'[ctx] = largs[ctx] /\ shown'[ctx] = shown[ctx]
    BY <1>2, <1>3, ServedFacts
       DEF SpuStep, Load, FirstMessage, Fetch, BeginFrame, Leave, Render, Post, Wait, Refetch,
           DestroyContext, Take
  <2>2. QED  BY <1>1, <1>2, <2>1 DEF ImageFit, HasArgs
<1>4. CASE c = ctx
  <2>1. ServingPhase(c) /\ xpc \in XPCs \ {"sendStop", "sendAgain", "lost"} /\ ~Failed(c)
    BY <1>2, <1>4, ServedFacts
       DEF Failed, SpuStep, Load, FirstMessage, Fetch, BeginFrame, Leave, Render, Post, Wait,
           Refetch, DestroyContext
  <2>2. Turn \in {0, 1} /\ Flip(Turn) \in {0, 1} /\ Flip(Flip(Turn)) = Turn
    BY DEF Turn, Flip
  <2>3. /\ Drawn[iargs[c].place] = old
        /\ xpc # "idle" => /\ put.fmt = "planar" /\ iargs[c].buf[Turn] = put.img
                           /\ old = Drawn[put.place]
    BY <1>2, <1>4 DEF ImageFit
  <2>4. SUFFICES /\ pc'[c] \in {"created", "boot", "fetch", "loop", "frame", "post"} =>
                      sel'[c] = Turn
                 /\ pc'[c] \in {"wait", "refetch"} =>
                      sel'[c] = IF outMbox'[c] = "RDY" THEN Turn ELSE Flip(Turn)
                 /\ HasArgs(c)' => largs'[c] = iargs[c]
                 /\ pc'[c] = "post" \/ outMbox'[c] = "RDY" =>
                      shown'[c].img = put.img /\ Drawn[shown'[c].place] = Drawn[put.place]
    BY <1>1, <1>2, <1>4, <2>3 DEF ImageFit
  <2>5. /\ pc[c] \in {"created", "boot", "fetch", "loop", "frame", "post"} => sel[c] = Turn
        /\ pc[c] \in {"wait", "refetch"} =>
             sel[c] = IF outMbox[c] = "RDY" THEN Turn ELSE Flip(Turn)
        /\ HasArgs(c) => largs[c] = iargs[c]
        /\ pc[c] = "post" \/ outMbox[c] = "RDY" =>
             shown[c].img = put.img /\ Drawn[shown[c].place] = Drawn[put.place]
    BY <1>2, <1>4 DEF ImageFit
  <2>6. CASE Load(c) \/ FirstMessage(c) \/ Fetch(c) \/ BeginFrame(c) \/ Leave(c)
    <3>1. outMbox[c] = "empty"
      BY <2>1, <2>6 DEF Load, FirstMessage, Fetch, BeginFrame, Leave, ServingPhase, XPCs, Quiet,
                        Fresh, Updating, Converting, Done, Silent
    <3>2. QED
      BY <1>1, <2>5, <2>6, <3>1
         DEF Load, FirstMessage, Fetch, BeginFrame, Leave, HasArgs
  <2>7. CASE Render(c)
    <3>1. pc[c] = "frame" /\ pc'[c] = "post" /\ largs[c] = iargs[c] /\ sel[c] = Turn
          /\ xpc # "idle"
      BY <2>1, <2>5, <2>7 DEF Render, HasArgs, ServingPhase, Quiet
    <3>2. shown'[c] = Frame(iargs[c], Turn)
      BY <2>7, <3>1 DEF Render
    <3>3. QED  BY <1>1, <2>3, <2>5, <2>7, <3>1, <3>2 DEF Render, Frame, HasArgs
  <2>8. CASE Post(c)
    <3>1. pc[c] = "post" /\ largs[c].form = "HARD"
      BY <2>8 DEF Post, ArgsFit
    <3>2. pc'[c] = "wait" /\ outMbox'[c] = "RDY"
          /\ UNCHANGED <<sel, largs, shown, inMbox>>
      BY <2>8, <3>1 DEF Post
    <3>3. QED  BY <1>1, <2>5, <3>1, <3>2 DEF HasArgs
  <2>9. CASE Wait(c)
    <3>1. /\ pc[c] = "wait" /\ inMbox[c] # <<>> /\ UNCHANGED <<outMbox, largs, shown>>
          /\ inMbox'[c] = Tail(inMbox[c]) /\ msg'[c] = Head(inMbox[c])
      BY <2>9 DEF Wait, Take
    <3>2. /\ outMbox[c] = "empty" /\ xpc \in {"sendRun", "flip", "receive"}
          /\ inMbox[c] \in {<<"UPDATE">>, <<"UPDATE", "RUN">>, <<"RUN">>}
      BY <2>1, <3>1 DEF ServingPhase, XPCs, Quiet, Fresh, Updating, Converting, Done, Silent
    <3>3. CASE inMbox[c] = <<"RUN">>
      <4>1. msg'[c] = "RUN" /\ inMbox[c] \notin {<<"UPDATE">>, <<"UPDATE", "RUN">>}
        BY <3>1, <3>3, MailboxFacts DEF Messages
      <4>2. pc'[c] = "loop" /\ sel'[c] = Flip(sel[c])
        BY <2>9, <4>1 DEF Wait
      <4>3. largs[c] = iargs[c] /\ sel[c] = Flip(Turn)
        BY <2>5, <3>1, <3>2, <4>1 DEF HasArgs
      <4>4. QED  BY <2>2, <3>1, <3>2, <4>2, <4>3
    <3>4. CASE inMbox[c] # <<"RUN">>
      <4>1. msg'[c] = "UPDATE"
        BY <3>1, <3>2, <3>4, MailboxFacts DEF Messages
      <4>2. pc'[c] = "refetch" /\ sel'[c] = sel[c]
        BY <2>9, <4>1 DEF Wait
      <4>3. QED  BY <2>5, <3>1, <3>2, <4>2 DEF HasArgs
    <3>5. QED  BY <3>3, <3>4
  <2>10. CASE Refetch(c)
    <3>1. pc[c] = "refetch" /\ pc'[c] = "wait" /\ largs'[c] = iargs[c]
          /\ UNCHANGED <<sel, outMbox, shown>>
      BY <2>10 DEF Refetch
    <3>2. outMbox[c] = "empty"
      BY <2>1, <3>1 DEF ServingPhase, XPCs, Quiet, Fresh, Updating, Converting, Done, Silent
    <3>3. QED  BY <2>5, <3>1, <3>2
  <2>11. CASE DestroyContext(c)
    BY <2>1, <2>11
       DEF DestroyContext, ServingPhase, XPCs, Quiet, Fresh, Updating, Converting, Done
  <2>12. QED  BY <2>6, <2>7, <2>8, <2>9, <2>10, <2>11 DEF SpuStep
<1>5. QED  BY <1>3, <1>4

LEMMA PortImage ==
  ASSUME ImageInv, ~MayStop, Formats \subseteq {"planar"}, Call \/ Continue
  PROVE  ImageFit'
<1> USE DEF ImageInv, IInv, TypeOK, ScalerTypeOK
<1>1. ASSUME NEW img \in Images, NEW srcW \in SrcSizes, NEW place \in Places,
             PutRunning(img, srcW, place)
      PROVE  ImageFit'
  <2>1. ctx \in Contexts /\ (Failed(ctx) \/ Quiet(ctx)) /\ Drawn[iargs[ctx].place] = old
        /\ iargs[ctx] \in Args
    BY <1>1, ServedFacts DEF PutRunning, ServingPhase, ImageFit, ArgsFit, Failed, Quiet
  <2>2. /\ xpc' = "sendUpdate" /\ running' = running /\ running /\ old' = Drawn[place]
        /\ put' = [fmt |-> "planar", img |-> img, srcW |-> srcW, place |-> place]
        /\ UNCHANGED <<ctx, currentBuffer, pc, sel, outMbox, inMbox, largs, shown>>
        /\ Turn' = currentBuffer /\ Turn = currentBuffer
    BY <1>1 DEF PutRunning, SetArgs, Turn
  <2>3. /\ Drawn[iargs'[ctx].place] = Drawn[place]
        /\ iargs'[ctx].buf[currentBuffer] = img
    BY <1>1, <2>1 DEF PutRunning, SetArgs, Args
  <2>4. QED  BY <2>1, <2>2, <2>3 DEF ImageFit, HasArgs, Failed, Quiet, Silent
<1>2. ASSUME NEW img \in Images, NEW srcW \in SrcSizes, NEW place \in Places,
             NEW c \in Contexts, PutFirst(c, img, srcW, place)
      PROVE  ImageFit'
  <2>1. /\ xpc' = "setForm" /\ running' = TRUE /\ ctx' = c /\ old' = Drawn[place]
        /\ put' = [fmt |-> "planar", img |-> img, srcW |-> srcW, place |-> place]
        /\ currentBuffer' = 0 /\ Turn' = 0
        /\ iargs'[c] = [srcW |-> srcW, place |-> place, form |-> "INTR",
                        buf |-> [i \in {0, 1} |-> IF i = 0 THEN img ELSE img]]
        /\ pc'[c] = "created" /\ sel'[c] = 0 /\ outMbox' = outMbox
    BY <1>2 DEF PutFirst, Create, ImageFit, Turn
  <2>2. outMbox[c] = "empty"
    BY <1>2 DEF PutFirst, Create, Handshake, Failed, Absent, Stopping, Silent, ServingPhase,
                Serving, ImageFit
  <2>3. QED  BY <2>1, <2>2 DEF ImageFit, HasArgs
<1>3. ASSUME running, UNCHANGED <<running, ctx, old, put>>, xpc # "idle",
             xpc' \notin {"sendStop", "sendAgain", "lost"},
             Turn' = Turn, iargs'[ctx].place = iargs[ctx].place,
             iargs'[ctx].buf = iargs[ctx].buf,
             UNCHANGED <<pc, sel, outMbox, largs, shown>>,
             HasArgs(ctx)' => HasArgs(ctx) /\ iargs'[ctx] = iargs[ctx]
      PROVE  ImageFit'
  BY <1>3 DEF ImageFit
<1>4. CASE SetForm
  <2>1. running /\ ctx \in Contexts /\ (Failed(ctx) \/ Fresh(ctx)) /\ iargs[ctx] \in Args
    BY <1>4, ServedFacts
       DEF SetForm, PortState, ServingPhase, ArgsFit, Failed, Fresh
  <2>2. iargs'[ctx].place = iargs[ctx].place /\ iargs'[ctx].buf = iargs[ctx].buf
    BY <1>4, <2>1 DEF SetForm, SetArgs, Args
  <2>3. QED
    BY <1>3, <1>4, <2>1, <2>2 DEF SetForm, SetArgs, HasArgs, Failed, Fresh, Turn
<1>5. CASE SendUpdate
  <2>1. running /\ ctx \in Contexts /\ (Failed(ctx) \/ Quiet(ctx))
    BY <1>5, ServedFacts DEF SendUpdate, PortState, ServingPhase
  <2>2. ~HasArgs(ctx)'
    BY <1>5, <2>1, MailboxFacts DEF SendUpdate, Send, HasArgs, Failed, Quiet
  <2>3. QED  BY <1>3, <1>5, <2>1, <2>2 DEF SendUpdate, Send, Turn
<1>6. CASE SendRun
  <2>1. running /\ ctx \in Contexts /\ (Failed(ctx) \/ Fresh(ctx) \/ Updating(ctx))
    BY <1>6, ServedFacts DEF SendRun, PortState, ServingPhase
  <2>2. HasArgs(ctx)' => HasArgs(ctx)
    <3>1. /\ UNCHANGED <<pc, ctx>> /\ xpc = "sendRun"
          /\ inMbox'[ctx] = Append(inMbox[ctx], "RUN")
      BY <1>6, <2>1 DEF SendRun, Send
    <3>2. pc[ctx] = "wait" => inMbox[ctx] \in {<<"UPDATE">>, <<>>}
      BY <2>1 DEF Failed, Fresh, Updating
    <3>3. inMbox[ctx] = <<"UPDATE">> => inMbox'[ctx] = <<"UPDATE", "RUN">>
      BY <3>1, MailboxFacts
    <3>4. <<>> \notin {<<"UPDATE">>, <<"UPDATE", "RUN">>}
      OBVIOUS
    <3>5. QED  BY <3>1, <3>2, <3>3, <3>4 DEF HasArgs
  <2>3. QED  BY <1>3, <1>6, <2>1, <2>2 DEF SendRun, Send, Turn
<1>7. CASE FlipBuffer
  <2>1. running /\ ctx \in Contexts /\ Turn' = Turn
    BY <1>7, ServedFacts DEF FlipBuffer, ImageFit, Turn, Flip
  <2>2. HasArgs(ctx)' => HasArgs(ctx)
    BY <1>7 DEF FlipBuffer, HasArgs, scalerVars
  <2>3. QED  BY <1>3, <1>7, <2>1, <2>2 DEF FlipBuffer, scalerVars
<1>8. CASE Receive \/ ReceiveNothing
  <2>1. /\ running /\ ctx \in Contexts /\ xpc = "receive" /\ xpc' = "idle"
        /\ UNCHANGED <<running, ctx, old, currentBuffer, pc, sel, inMbox, largs, shown, iargs>>
    BY <1>8, ServedFacts DEF Receive, ReceiveNothing, ReceiveHard, PortState, scalerVars
  <2>2. Turn = Flip(Turn') /\ Turn' \in {0, 1} /\ Flip(Turn') \in {0, 1}
    BY <2>1 DEF Turn, Flip
  <2>3. Failed(ctx) \/ Converting(ctx) \/ Done(ctx)
    BY <2>1, ServedFacts DEF ServingPhase, ImageFit
  <2>4. Failed(ctx) \/ Done(ctx)
    BY <1>8, <2>1, <2>3, ConvertingWorks DEF Receive, ReceiveHard, ReceiveNothing
  <2>5. outMbox'[ctx] = "empty"
    BY <1>8, <2>1 DEF Receive, ReceiveHard, ReceiveNothing, scalerVars
  <2>6. QED  BY <2>1, <2>2, <2>4, <2>5 DEF ImageFit, HasArgs, Failed, Done
<1>9. CASE PutClipped
  BY <1>9 DEF PutClipped, scalerVars, ImageFit, HasArgs, Turn
<1>10. QED
  BY <1>1, <1>2, <1>4, <1>5, <1>6, <1>7, <1>8, <1>9
     DEF Call, Continue, PutPacked, StopVideo, SendStop, SendAgain, ImageFit

(* While the port waits for a message, the program works on the image and   *)
(* the place it was given last, or has shown them.                         *)
THEOREM ImageFollowed ==
  ASSUME ~MayStop, Formats \subseteq {"planar"}
  PROVE  Spec => []ImageInv
<1>1. Init => ImageInv
  BY InitIInv DEF Init, ScalerInit, ImageInv, ImageFit
<1>2. ImageInv /\ [Next]_vars => ImageInv'
  <2>1. SUFFICES ASSUME ImageInv, [Next]_vars  PROVE  ImageFit'
    BY StepIInv DEF ImageInv
  <2>2. CASE UNCHANGED vars
    BY <2>1, <2>2 DEF ImageInv, ImageFit, HasArgs, Turn, vars, scalerVars, xvVars
  <2>3. QED  BY <2>1, <2>2, SpuImage, PortImage DEF Next, Spu
<1>3. QED  BY <1>1, <1>2, PTL DEF Spec

(* The image a call waited for is the one it was given, where it is drawn. *)
THEOREM ImageIsProcessed ==
  ASSUME ~MayStop, Formats \subseteq {"planar"}
  PROVE  Spec => []ImageProcessed
<1>1. ImageInv => ImageProcessed
  <2>1. SUFFICES ASSUME ImageInv, xpc = "receive", outMbox[ctx] = "RDY"
                 PROVE  /\ shown[ctx].img = put.img
                        /\ Drawn[shown[ctx].place] = Drawn[put.place]
    BY DEF ImageProcessed
  <2>2. QED  BY <2>1 DEF ImageInv, IInv, PortState, ImageFit
<1>2. QED  BY <1>1, ImageFollowed, PTL

-----------------------------------------------------------------------------
(* The port as a frame service: one scaler, images of one width that is    *)
(* whole groups of 16 pixels, and a program that is loaded.                *)

(* The program gives no frame another width.                               *)
LEMMA SpuWidth ==
  ASSUME NEW w, ~LoadMayFail, ServiceInv(w), NEW c \in Contexts, SpuStep(c),
         UNCHANGED xvVars
  PROVE  OneWidth(w)'
<1> USE DEF ServiceInv, OneWidth, ImageInv, IInv, TypeOK, ScalerTypeOK
<1>1. UNCHANGED <<running, ctx, iargs>>
  BY DEF xvVars, SpuStep, Load, FirstMessage, Fetch, BeginFrame, Leave, Render, Post, Wait,
         Refetch, DestroyContext
<1>2. \A d \in Contexts \ {c} :
        /\ pc'[d] = pc[d] /\ outMbox'[d] = outMbox[d]
        /\ largs'[d] = largs[d] /\ shown'[d] = shown[d]
  BY DEF SpuStep, Load, FirstMessage, Fetch, BeginFrame, Leave, Render, Post, Wait, Refetch,
         DestroyContext
<1>3. SUFFICES /\ pc'[c] # "failed"
               /\ pc'[c] # "absent" => iargs'[c].srcW = w
               /\ pc'[c] \in {"loop", "frame", "post", "wait", "refetch"} =>
                    largs'[c].srcW = w
               /\ shown'[c] \in Frames => shown'[c].srcW = w
               /\ pc'[c] = "post" \/ outMbox'[c] = "RDY" => shown'[c] \in Frames
  BY <1>1, <1>2
<1>4. CASE Render(c)
  <2>1. largs[c] \in Args /\ sel[c] \in {0, 1} /\ shown'[c] = Frame(largs[c], sel[c])
    BY <1>4 DEF Render, ArgsFit
  <2>2. shown'[c] \in Frames /\ shown'[c].srcW = largs[c].srcW
    BY <2>1 DEF Frame, Frames, Args
  <2>3. QED  BY <1>4, <2>1, <2>2 DEF Render
<1>5. CASE Load(c)
  BY <1>5 DEF Load
<1>6. CASE FirstMessage(c) \/ BeginFrame(c) \/ Leave(c) \/ Post(c) \/ Wait(c)
  BY <1>6 DEF FirstMessage, BeginFrame, Leave, Post, Wait
<1>7. CASE Fetch(c) \/ Refetch(c) \/ DestroyContext(c)
  BY <1>7 DEF Fetch, Refetch, DestroyContext
<1>8. QED  BY <1>4, <1>5, <1>6, <1>7 DEF SpuStep

(* Nor does the port, whether or not it rounds the width.                  *)
LEMMA PortWidth ==
  ASSUME NEW w, SrcSizes = {w}, Align16(w) = w, ~MayStop, Formats \subseteq {"planar"},
         ServiceInv(w), Call \/ Continue
  PROVE  OneWidth(w)'
<1> USE DEF ServiceInv, OneWidth, ImageInv, IInv, TypeOK, ScalerTypeOK
<1>1. ASSUME NEW img \in Images, NEW srcW \in SrcSizes, NEW place \in Places,
             PutRunning(img, srcW, place)
      PROVE  OneWidth(w)'
  <2>1. ctx \in Contexts /\ iargs[ctx] \in Args /\ pc[ctx] # "absent"
    BY <1>1, ServedFacts DEF PutRunning, ServingPhase, ArgsFit, Failed, Quiet
  <2>2. iargs'[ctx].srcW = w /\ \A c \in Contexts \ {ctx} : iargs'[c] = iargs[c]
    BY <1>1, <2>1 DEF PutRunning, SetArgs, Args
  <2>3. UNCHANGED <<running, ctx, pc, outMbox, largs, shown>>
    BY <1>1 DEF PutRunning, SetArgs
  <2>4. QED  BY <2>1, <2>2, <2>3
<1>2. ASSUME NEW img \in Images, NEW srcW \in SrcSizes, NEW place \in Places,
             NEW c \in Contexts, PutFirst(c, img, srcW, place)
      PROVE  OneWidth(w)'
  <2>1. running' /\ UNCHANGED <<largs, outMbox>> /\ pc'[c] = "created"
        /\ iargs'[c].srcW = w /\ shown'[c] = Unset
        /\ \A d \in Contexts \ {c} :
             pc'[d] = pc[d] /\ iargs'[d] = iargs[d] /\ shown'[d] = shown[d]
    BY <1>2 DEF PutFirst, Create
  <2>2. outMbox[c] = "empty"
    BY <1>2 DEF PutFirst, Create, Handshake, Failed, Absent, Stopping, Silent, Serving, ImageFit
  <2>3. Unset \notin Frames
    BY XvAssumption
  <2>4. ASSUME NEW d \in Contexts
        PROVE  /\ pc'[d] # "failed"
               /\ pc'[d] # "absent" => iargs'[d].srcW = w
               /\ pc'[d] \in {"loop", "frame", "post", "wait", "refetch"} =>
                    largs'[d].srcW = w
               /\ shown'[d] \in Frames => shown'[d].srcW = w
               /\ pc'[d] = "post" \/ outMbox'[d] = "RDY" => shown'[d] \in Frames
    <3>1. CASE d = c
      BY <2>1, <2>2, <2>3, <3>1
    <3>2. CASE d # c
      BY <2>1, <3>2
    <3>3. QED  BY <3>1, <3>2
  <2>5. QED  BY <2>1, <2>4
<1>3. CASE SetForm
  <2>1. ctx \in Contexts /\ iargs[ctx] \in Args /\ pc[ctx] # "absent"
    BY <1>3, ServedFacts DEF SetForm, PortState, ServingPhase, ArgsFit, Failed, Fresh
  <2>2. iargs'[ctx].srcW = w /\ \A c \in Contexts \ {ctx} : iargs'[c] = iargs[c]
    BY <1>3, <2>1 DEF SetForm, SetArgs, Args
  <2>3. UNCHANGED <<running, ctx, pc, outMbox, largs, shown>>
    BY <1>3 DEF SetForm, SetArgs
  <2>4. QED  BY <2>1, <2>2, <2>3
<1>4. CASE SendUpdate \/ SendRun \/ FlipBuffer \/ Receive \/ ReceiveNothing
  BY <1>4 DEF SendUpdate, SendRun, Send, FlipBuffer, Receive, ReceiveHard, ReceiveNothing,
              scalerVars
<1>5. QED
  BY <1>1, <1>2, <1>3, <1>4
     DEF Call, Continue, PutPacked, PutClipped, StopVideo, SendStop, SendAgain, ImageFit,
         scalerVars

(* SPUPutImage asks.                                                       *)
LEMMA PutAsks ==
  ASSUME NEW w, SrcSizes = {w}, ServiceInv(w),
         NEW img \in Images, NEW srcW \in SrcSizes, NEW place \in Places,
         PutRunning(img, srcW, place) \/ \E c \in Contexts : PutFirst(c, img, srcW, place)
  PROVE  Service!Next
<1> USE DEF ServiceInv, OneWidth, ImageInv, IInv, TypeOK, ScalerTypeOK
<1>1. xpc = "idle" /\ xpc' # "idle"
      /\ put' = [fmt |-> "planar", img |-> img, srcW |-> srcW, place |-> place]
  BY DEF PutRunning, PutFirst
<1>2. Asked = Unset /\ Asked' = [img |-> img, srcW |-> srcW, place |-> place]
  BY <1>1 DEF Asked
<1>3. Screen' = Screen
  <2>1. CASE PutRunning(img, srcW, place)
    BY <2>1 DEF PutRunning, SetArgs, Screen
  <2>2. ASSUME NEW c \in Contexts, PutFirst(c, img, srcW, place)
        PROVE  Screen' = Screen
    <3>1. ctx = Unset /\ ctx' = c /\ shown'[c] = Unset
      BY <2>2 DEF PutFirst, Create
    <3>2. QED  BY <3>1 DEF Screen
  <2>3. QED  BY <2>1, <2>2
<1>4. QED  BY <1>2, <1>3 DEF Service!Next, Service!Ask, Asks

(* Places that differ are drawn in different places: the pixmap has one    *)
(* width, which SPUPutImage does not compare.                              *)
DrawnApart == \A p, q \in Places : Drawn[p] = Drawn[q] => p = q

(* The program converts the image of the call under way.                   *)
LEMMA RenderConverts ==
  ASSUME NEW w, ServiceInv(w), SrcSizes = {w}, DrawnApart,
         NEW c \in Contexts, Render(c), UNCHANGED xvVars
  PROVE  Service!Next
<1> USE DEF ServiceInv, OneWidth, ImageInv, IInv, TypeOK, ScalerTypeOK
<1>1. c = ctx /\ running /\ ctx # Unset
  <2>1. Serving(c) /\ xpc # "sendStop"
    BY DEF Render, Handshake, Failed, Absent, Stopping, ServingPhase, Quiet
  <2>2. QED  BY <2>1, XvAssumption DEF Serving
<1>2. pc[c] = "frame" /\ xpc # "idle" /\ put \in Calls /\ largs[c] \in Args
  BY <1>1, ServedFacts DEF Render, Failed, ServingPhase, Quiet, ArgsFit
<1>3. largs[c] = iargs[c] /\ sel[c] = Turn /\ iargs[c].buf[Turn] = put.img
      /\ iargs[c].place = put.place
  <2>1. largs[c] = iargs[c] /\ sel[c] = Turn /\ iargs[c].buf[Turn] = put.img
        /\ Drawn[iargs[c].place] = Drawn[put.place]
    BY <1>1, <1>2 DEF ImageFit, HasArgs
  <2>2. iargs[c].place \in Places /\ put.place \in Places
    BY <1>2, <2>1 DEF Args, Calls
  <2>3. QED  BY <2>1, <2>2 DEF DrawnApart
<1>4. put.srcW = w /\ largs[c].srcW = w
  BY <1>2 DEF Calls
<1>5. shown'[c] = [img |-> put.img, srcW |-> put.srcW, place |-> put.place]
  BY <1>2, <1>3, <1>4 DEF Render, Frame
<1>6. Asked = [img |-> put.img, srcW |-> put.srcW, place |-> put.place] /\ Asked' = Asked
  BY <1>2 DEF Asked, xvVars
<1>7. Asked # Unset
  BY <1>2, <1>6, XvAssumption, ScalerAssumption DEF Calls, Frames
<1>8. Screen' = Asked
  BY <1>1, <1>5, <1>6 DEF Screen, xvVars
<1>9. QED  BY <1>6, <1>7, <1>8 DEF Service!Next, Service!Convert

(* SPUPutImage returns when it has its answer, and has one to wait for.    *)
LEMMA ReceiveReturns ==
  ASSUME NEW w, ServiceInv(w), SrcSizes = {w}, DrawnApart, Receive \/ ReceiveNothing
  PROVE  Service!Next
<1> USE DEF ServiceInv, OneWidth, ImageInv, IInv, TypeOK, ScalerTypeOK
<1>1. running /\ xpc = "receive" /\ xpc' = "idle" /\ UNCHANGED <<ctx, shown>>
  BY DEF Receive, ReceiveNothing, ReceiveHard, PortState, scalerVars
<1>2. ctx \in Contexts /\ ctx # Unset /\ put \in Calls /\ (Converting(ctx) \/ Done(ctx))
  BY <1>1, ServedFacts, XvAssumption DEF Failed, ServingPhase, ImageFit
<1>3. outMbox[ctx] = "RDY"
  BY <1>2, ConvertingWorks DEF Receive, ReceiveHard, ReceiveNothing, Done
<1>4. /\ shown[ctx] \in Frames /\ shown[ctx].srcW = put.srcW
      /\ shown[ctx].img = put.img /\ shown[ctx].place = put.place
  <2>1. /\ shown[ctx] \in Frames /\ shown[ctx].srcW = put.srcW
        /\ shown[ctx].img = put.img /\ Drawn[shown[ctx].place] = Drawn[put.place]
    BY <1>1, <1>2, <1>3 DEF ImageFit, Calls
  <2>2. shown[ctx].place \in Places /\ put.place \in Places
    BY <1>2, <2>1 DEF Frames, Calls
  <2>3. QED  BY <2>1, <2>2 DEF DrawnApart
<1>5. shown[ctx] = [img |-> put.img, srcW |-> put.srcW, place |-> put.place]
  BY <1>4 DEF Frames
<1>6. Asked = shown[ctx] /\ Asked' = Unset /\ Screen = shown[ctx] /\ Screen' = Screen
  BY <1>1, <1>2, <1>5 DEF Asked, Screen
<1>7. Asked # Unset
  BY <1>4, <1>6, XvAssumption
<1>8. QED  BY <1>6, <1>7 DEF Service!Next, Service!Return

(* The safety part of the refinement, for ports that are never taken away, *)
(* planar images of one width in whole groups of 16 pixels, a pixmap of    *)
(* one width, and a program that is loaded: the picture changes only to    *)
(* the image of the SPUPutImage under way, which does not return before it *)
(* has.                                                                    *)
THEOREM PortServesFrames ==
  ASSUME NEW w, SrcSizes = {w}, Align16(w) = w,
         DrawnApart, ~MayStop, ~LoadMayFail, Formats \subseteq {"planar"}
  PROVE  Spec => ShowsOnlyAsked
<1>1. Init => Service!Init
  BY DEF Init, Service!Init, Asked, Screen
<1>2. Init => ServiceInv(w)
  <2>1. SUFFICES ASSUME Init  PROVE  ServiceInv(w)
    OBVIOUS
  <2>2. ImageInv
    BY <2>1, InitIInv DEF Init, ScalerInit, ImageInv, ImageFit
  <2>3. \A c \in Contexts : iargs[c] = Unset /\ largs[c] = Unset /\ shown[c] = Unset
    BY <2>1 DEF Init, ScalerInit
  <2>5. QED  BY <2>1, <2>2, <2>3, XvAssumption DEF ServiceInv, OneWidth, Init, ScalerInit
<1>3. ServiceInv(w) /\ [Next]_vars => ServiceInv(w)'
  <2>1. SUFFICES ASSUME ServiceInv(w), [Next]_vars  PROVE  ServiceInv(w)'
    OBVIOUS
  <2>2. ImageInv /\ IInv
    BY <2>1 DEF ServiceInv, ImageInv
  <2>3. CASE UNCHANGED vars
    <3>1. IInv' /\ ImageFit'
      BY <2>1, <2>2, <2>3, StepIInv
         DEF ImageInv, ImageFit, HasArgs, Turn, vars, scalerVars, xvVars
    <3>2. OneWidth(w)'
      BY <2>1, <2>3 DEF ServiceInv, OneWidth, vars, scalerVars, xvVars
    <3>3. QED  BY <3>1, <3>2 DEF ServiceInv, ImageInv
  <2>4. CASE Next
    <3>1. IInv' /\ ImageFit'
      BY <2>2, <2>4, StepIInv, SpuImage, PortImage DEF Next, Spu
    <3>2. OneWidth(w)'
      BY <2>1, <2>4, SpuWidth, PortWidth DEF Next, Spu
    <3>3. QED  BY <3>1, <3>2 DEF ServiceInv, ImageInv
  <2>5. QED  BY <2>1, <2>3, <2>4
<1>4. ASSUME ServiceInv(w), [Next]_vars  PROVE  [Service!Next]_(Service!vars)
  <2>1. CASE SetForm \/ SendUpdate \/ SendRun
    <3>1. UNCHANGED <<ctx, shown, put>> /\ xpc # "idle" /\ xpc' # "idle"
      BY <2>1 DEF SetForm, SendUpdate, SendRun, Send, SetArgs
    <3>2. QED  BY <3>1 DEF Service!vars, Asked, Screen
  <2>2. CASE FlipBuffer
    <3>1. UNCHANGED <<ctx, shown, put>> /\ xpc # "idle" /\ xpc' # "idle"
      BY <1>4, <2>2 DEF FlipBuffer, ServiceInv, ImageInv, ImageFit, scalerVars
    <3>2. QED  BY <3>1 DEF Service!vars, Asked, Screen
  <2>3. ASSUME NEW c \in Contexts, SpuStep(c), ~Render(c), UNCHANGED xvVars
        PROVE  UNCHANGED Service!vars
    <3>1. UNCHANGED <<shown, xpc, ctx, put>>
      BY <2>3 DEF SpuStep, Load, FirstMessage, Fetch, BeginFrame, Leave, Post, Wait, Refetch,
                  DestroyContext, xvVars
    <3>2. QED  BY <3>1 DEF Service!vars, Asked, Screen
  <2>4. CASE UNCHANGED vars
    BY <2>4 DEF vars, scalerVars, xvVars, Service!vars, Asked, Screen
  <2>5. CASE PutClipped
    BY <2>5 DEF PutClipped, scalerVars, Service!vars, Asked, Screen
  <2>6. QED
    BY <1>4, <2>1, <2>2, <2>3, <2>4, <2>5, PutAsks, RenderConverts, ReceiveReturns
       DEF Next, Call, Continue, Spu, PutPacked, StopVideo, SendStop, SendAgain, ServiceInv,
           ImageInv, ImageFit
<1>5. QED  BY <1>1, <1>2, <1>3, <1>4, PTL DEF Spec, ShowsOnlyAsked

-----------------------------------------------------------------------------
(* Progress: the safety half of CallReturns and StoppedContextGoes.        *)

(* The guards of Continue.                                                 *)
PortCan ==
  \/ xpc \in {"setForm", "flip"}
  \/ xpc \in {"sendUpdate", "sendRun", "sendStop"} /\ Len(inMbox[ctx]) < InMboxSize
  \/ xpc = "sendAgain" /\ (ctx = Unset \/ ~Live(ctx) \/ Len(inMbox[ctx]) < InMboxSize)
  \/ xpc = "receive" /\ (outMbox[ctx] = "RDY" \/ ~Working(ctx))

(* In a call of the X server, waiting for room or for RDY.                 *)
Blocked == xpc \notin {"idle", "lost"} /\ ~PortCan

NeverStuck ==
  Blocked => StepsLeft(ctx) \in 0 .. 22 /\ (CanStep(ctx) \/ pc[ctx] = "failed")

OneAdvances ==
  \E c \in Contexts :
    /\ StepsLeft(c)' < StepsLeft(c)
    /\ \A d \in Contexts \ {c} : StepsLeft(d)' = StepsLeft(d)

WaitsShorten == [][Blocked => UNCHANGED xvVars /\ OneAdvances]_vars

(* The steps to the end of a program that was sent STOP: take it, leave    *)
(* the frame loop, be destroyed.                                           *)
ToEnd(p) ==
  CASE p = "wait" -> 3 [] p = "loop" -> 2 [] p = "exited" -> 1 [] OTHER -> 0

(* A program that was sent STOP is never blocked.                          *)
EndsAlone ==
  \A c \in Contexts :
    /\ Holds(c, "STOP") => pc[c] = "failed" \/ Stopping(c)
    /\ Stopping(c) => CanStep(c) /\ ToEnd(pc[c]) \in 1 .. 3

EndComesNearer ==
  [][\A c \in Contexts : Stopping(c) =>
       /\ Stopping(c)' \/ ~Live(c)'
       /\ \/ SpuStep(c) /\ ToEnd(pc[c])' < ToEnd(pc[c])
          \/ UNCHANGED pc[c]]_vars

LEMMA StuckNever ==
  ASSUME IInv, MailboxHolds
  PROVE  NeverStuck
<1> USE DEF IInv, TypeOK
<1>1. SUFFICES ASSUME Blocked, pc[ctx] # "failed"  PROVE  CanStep(ctx)
  <2>1. Blocked => ctx \in Contexts
    BY DEF Blocked, PortCan, PortState, XPCs
  <2>2. QED  BY <2>1, StepsLeftType DEF NeverStuck
<1>2. CASE xpc = "sendAgain"
  <2>1. ctx \in Contexts /\ Live(ctx)
    BY <1>1, <1>2 DEF Blocked, PortCan
  <2>2. Stopping(ctx)
    BY <1>1, <1>2, <2>1 DEF Handshake, PortState, Serving, Failed, Absent, Live
  <2>3. QED  BY <2>2 DEF Stopping, CanStep
<1>3. ASSUME xpc # "sendAgain"
      PROVE  /\ xpc \in {"sendUpdate", "sendRun", "sendStop", "receive"}
             /\ ctx \in Contexts /\ Serving(ctx) /\ ServingPhase(ctx)
  BY <1>1, <1>3 DEF Blocked, PortCan, PortState, XPCs, Serving, Handshake, Failed
<1>4. CASE xpc \in {"sendUpdate", "sendRun", "sendStop"}
  <2>1. inMbox[ctx] \in {<<>>, <<"UPDATE">>}
    BY <1>3, <1>4 DEF ServingPhase, Quiet, Fresh, Updating
  <2>2. Len(<<>>) = 0 /\ Len(<<"UPDATE">>) = 1
    OBVIOUS
  <2>3. inMbox[ctx] = <<>> \/ inMbox[ctx] = <<"UPDATE">>
    BY <2>1
  <2>4. Len(inMbox[ctx]) < 4
    <3>1. CASE inMbox[ctx] = <<>>
      BY <2>2, <3>1
    <3>2. CASE inMbox[ctx] = <<"UPDATE">>
      BY <2>2, <3>2
    <3>3. QED  BY <2>3, <3>1, <3>2
  <2>5. QED  BY <1>1, <1>4, <2>4 DEF Blocked, PortCan, InMboxSize
<1>5. CASE xpc = "receive"
  <2>1. outMbox[ctx] # "RDY" /\ Working(ctx)
    BY <1>1, <1>5 DEF Blocked, PortCan
  <2>2. Converting(ctx)
    BY <1>3, <1>5, <2>1, NotWorking DEF ServingPhase, Done
  <2>3. ctx \in Contexts
    BY <1>3, <1>5
  <2>4. pc[ctx] = "post" => largs[ctx].form = "HARD" /\ outMbox[ctx] = "empty"
    BY <2>2, <2>3 DEF ArgsFit, Converting, Silent
  <2>5. <<"RUN">> # <<>> /\ <<"UPDATE", "RUN">> # <<>>
    OBVIOUS
  <2>6. QED  BY <2>2, <2>4, <2>5 DEF Converting, CanStep
<1>6. QED  BY <1>3, <1>4, <1>5, <1>2

(* A program reports in the mailbox the port polls.                        *)
LEMMA NoneRunsOn ==
  ASSUME IInv, NEW c \in Contexts, SpuStep(c)
  PROVE  /\ StepsLeft(c)' < StepsLeft(c)
         /\ \A d \in Contexts \ {c} : StepsLeft(d)' = StepsLeft(d)
<1>1. ~RunsOn(c)
  BY DEF RunsOn, IInv, ArgsFit
<1>2. QED  BY <1>1, ProgramAdvances DEF IInv, TypeOK

(* While the X server waits, only SPU programs move.                       *)
LEMMA WaitSteps ==
  ASSUME IInv, Blocked, Next
  PROVE  UNCHANGED xvVars /\ OneAdvances
<1>1. ~Call
  BY DEF Blocked, Call, PutRunning, PutFirst, PutPacked, PutClipped, StopVideo
<1>2. ~Continue
  BY DEF Blocked, PortCan, Continue, SetForm, SendUpdate, SendRun, SendStop, SendAgain,
         FlipBuffer, Receive, ReceiveNothing, ReceiveHard, Send
<1>3. PICK c \in Contexts : SpuStep(c) /\ UNCHANGED xvVars
  BY <1>1, <1>2 DEF Next, Spu
<1>4. QED  BY <1>3, NoneRunsOn DEF OneAdvances

LEMMA StepMailbox ==
  ASSUME IInv, MailboxHolds, [Next]_vars
  PROVE  MailboxHolds'
<1>1. CASE \E c \in Contexts : SpuStep(c)
  BY <1>1, MailboxSteps DEF IInv, TypeOK
<1>2. CASE SendUpdate \/ SendRun \/ SendStop
  <2>1. ctx \in Contexts /\ \E m \in Messages : Send(ctx, m)
    BY <1>2 DEF SendUpdate, SendRun, SendStop, Messages, IInv, PortState
  <2>2. QED  BY <2>1, MailboxSteps DEF IInv, TypeOK
<1>3. CASE SendAgain
  <2>1. CASE inMbox' = inMbox
    BY <2>1 DEF MailboxHolds
  <2>2. CASE inMbox' # inMbox
    <3>1. ctx \in Contexts /\ \E m \in Messages : Send(ctx, m)
      BY <1>3, <2>2 DEF SendAgain, Messages, IInv, TypeOK, scalerVars
    <3>2. QED  BY <3>1, MailboxSteps DEF IInv, TypeOK
  <2>3. QED  BY <2>1, <2>2
<1>4. CASE /\ ~(\E c \in Contexts : SpuStep(c))
           /\ ~(SendUpdate \/ SendRun \/ SendStop \/ SendAgain)
  <2>1. CASE Call
    <3>1. ASSUME NEW img \in Images, NEW srcW \in SrcSizes, NEW place \in Places,
                 \/ PutRunning(img, srcW, place)
                 \/ \E c \in Contexts : PutFirst(c, img, srcW, place)
                 \/ PutPacked(img, srcW, place)
          PROVE  inMbox' = inMbox
      BY <3>1 DEF PutRunning, PutFirst, PutPacked, Create, SetArgs, scalerVars
    <3>2. StopVideo \/ PutClipped => inMbox' = inMbox
      BY DEF StopVideo, PutClipped, scalerVars
    <3>3. inMbox' = inMbox
      BY <2>1, <3>1, <3>2 DEF Call
    <3>4. QED  BY <3>3 DEF MailboxHolds
  <2>2. CASE SetForm \/ FlipBuffer \/ Receive \/ ReceiveNothing
    BY <2>2 DEF SetForm, SetArgs, FlipBuffer, Receive, ReceiveHard, ReceiveNothing, scalerVars,
                MailboxHolds
  <2>3. CASE UNCHANGED vars
    BY <2>3 DEF vars, scalerVars, MailboxHolds
  <2>4. QED  BY <1>4, <2>1, <2>2, <2>3 DEF Next, Continue, Spu
<1>5. QED  BY <1>1, <1>2, <1>4, <1>3

(* The port has nothing more to say to a context that was sent STOP.       *)
LEMMA StoppingIsLeft ==
  ASSUME IInv, NEW c \in Contexts, Stopping(c)
  PROVE  ~Serving(c)
<1>1. inMbox[c] \notin {<<"UPDATE">>, <<"RUN">>, <<"UPDATE", "RUN">>}
  <2>1. /\ <<"UPDATE">>[1] = "UPDATE" /\ <<"RUN">>[1] = "RUN"
        /\ <<"UPDATE", "RUN">>[1] = "UPDATE"
        /\ 1 \in 1 .. Len(<<"UPDATE">>) /\ 1 \in 1 .. Len(<<"RUN">>)
        /\ 1 \in 1 .. Len(<<"UPDATE", "RUN">>)
    OBVIOUS
  <2>2. 1 \in 1 .. Len(inMbox[c]) => inMbox[c][1] = "STOP"
    BY DEF Stopping, OnlyStops
  <2>3. inMbox[c] # <<"UPDATE">>
    BY <2>1, <2>2
  <2>4. inMbox[c] # <<"RUN">>
    BY <2>1, <2>2
  <2>5. inMbox[c] # <<"UPDATE", "RUN">>
    BY <2>1, <2>2
  <2>6. QED  BY <2>3, <2>4, <2>5
<1>2. /\ ~Failed(c) /\ ~Quiet(c) /\ ~Fresh(c) /\ ~Updating(c) /\ ~Converting(c) /\ ~Done(c)
  BY <1>1 DEF Stopping, Failed, Quiet, Fresh, Updating, Converting, Done
<1>3. QED
  BY <1>2 DEF IInv, Handshake, Serving, ServingPhase, PortState, TypeOK, XPCs

LEMMA StopTaken ==
  ASSUME IInv
  PROVE  EndsAlone
<1>1. SUFFICES ASSUME NEW c \in Contexts
               PROVE  /\ Holds(c, "STOP") => pc[c] = "failed" \/ Stopping(c)
                      /\ Stopping(c) => CanStep(c) /\ ToEnd(pc[c]) \in 1 .. 3
  BY DEF EndsAlone
<1>2. ASSUME Holds(c, "STOP"), ~Failed(c)  PROVE  Stopping(c)
  <2>1. inMbox[c] \notin {<<>>, <<"UPDATE">>, <<"RUN">>, <<"UPDATE", "RUN">>}
    <3>1. PICK i \in 1 .. Len(inMbox[c]) : inMbox[c][i] = "STOP"
      BY <1>2 DEF Holds
    <3>2. CASE inMbox[c] = <<>>
      BY <3>1, <3>2
    <3>3. CASE inMbox[c] = <<"UPDATE">>
      BY <3>1, <3>3
    <3>4. CASE inMbox[c] = <<"RUN">>
      BY <3>1, <3>4
    <3>5. CASE inMbox[c] = <<"UPDATE", "RUN">>
      BY <3>1, <3>5
    <3>6. QED  BY <3>2, <3>3, <3>4, <3>5
  <2>2. /\ ~Quiet(c) /\ ~Fresh(c) /\ ~Absent(c) /\ ~Done(c)
        /\ Updating(c) => FALSE
    BY <2>1 DEF Quiet, Fresh, Absent, Done, Updating
  <2>3. ~Converting(c)
    BY <2>1 DEF Converting
  <2>4. QED
    BY <1>2, <2>2, <2>3 DEF IInv, Handshake, Serving, ServingPhase, PortState, TypeOK, XPCs
<1>3. ASSUME Stopping(c)  PROVE  CanStep(c) /\ ToEnd(pc[c]) \in 1 .. 3
  BY <1>3 DEF Stopping, CanStep, ToEnd
<1>4. QED  BY <1>2, <1>3 DEF Failed

(* The other steps leave such a program alone, or send it a further STOP.  *)
LEMMA StoppingLeftAlone ==
  ASSUME IInv, NEW c \in Contexts, Stopping(c), Next, ~SpuStep(c)
  PROVE  UNCHANGED pc[c] /\ Stopping(c)'
<1> USE DEF IInv, TypeOK, ScalerTypeOK
<1>1. ~Serving(c) /\ pc[c] # "absent"
  BY StoppingIsLeft DEF Stopping
<1>2. UNCHANGED <<pc[c], msg[c], outMbox[c], outIntr[c]>>
  <2>1. CASE Spu
    <3>1. PICK d \in Contexts : SpuStep(d)
      BY <2>1 DEF Spu
    <3>2. c # d
      BY <3>1
    <3>3. QED
      BY <3>1, <3>2 DEF SpuStep, Load, FirstMessage, Fetch, BeginFrame, Leave, Render, Post, Wait,
                  Refetch, DestroyContext, Take
  <2>2. CASE Call
    <3>1. ASSUME NEW img \in Images, NEW srcW \in SrcSizes, NEW place \in Places,
                 NEW d \in Contexts, PutFirst(d, img, srcW, place)
          PROVE  pc'[c] = pc[c] /\ UNCHANGED <<outMbox, outIntr, msg>>
      BY <1>1, <3>1 DEF PutFirst, Create
    <3>2. ASSUME NEW img \in Images, NEW srcW \in SrcSizes, NEW place \in Places,
                 PutRunning(img, srcW, place) \/ PutPacked(img, srcW, place)
          PROVE  UNCHANGED <<pc, outMbox, outIntr, msg>>
      BY <3>2 DEF PutRunning, PutPacked, SetArgs, scalerVars
    <3>3. StopVideo \/ PutClipped => UNCHANGED <<pc, outMbox, outIntr, msg>>
      BY DEF StopVideo, PutClipped, scalerVars
    <3>4. QED  BY <2>2, <3>1, <3>2, <3>3 DEF Call
  <2>3. CASE Receive
    <3>1. ctx # c /\ ctx \in Contexts
      BY <1>1, <2>3 DEF Receive, PortState, Serving
    <3>2. QED  BY <2>3, <3>1 DEF Receive, ReceiveHard
  <2>4. CASE \/ SetForm \/ SendUpdate \/ SendRun \/ SendStop \/ SendAgain \/ FlipBuffer
             \/ ReceiveNothing
    BY <2>4 DEF SetForm, SetArgs, SendUpdate, SendRun, SendStop, SendAgain, Send, FlipBuffer,
                ReceiveNothing, scalerVars
  <2>5. QED  BY <2>1, <2>2, <2>3, <2>4 DEF Next, Continue
<1>3. inMbox'[c] = inMbox[c] \/ inMbox'[c] = Append(inMbox[c], "STOP")
  <2>1. CASE Spu
    <3>1. PICK d \in Contexts : SpuStep(d)
      BY <2>1 DEF Spu
    <3>2. c # d
      BY <3>1
    <3>3. QED
      BY <3>1, <3>2 DEF SpuStep, Load, FirstMessage, Fetch, BeginFrame, Leave, Render, Post, Wait,
                  Refetch, DestroyContext, Take
  <2>2. CASE Call
    <3>1. ASSUME NEW img \in Images, NEW srcW \in SrcSizes, NEW place \in Places,
                 \/ PutRunning(img, srcW, place)
                 \/ \E d \in Contexts : PutFirst(d, img, srcW, place)
                 \/ PutPacked(img, srcW, place)
          PROVE  inMbox' = inMbox
      BY <3>1 DEF PutRunning, PutFirst, PutPacked, Create, SetArgs, scalerVars
    <3>2. StopVideo \/ PutClipped => inMbox' = inMbox
      BY DEF StopVideo, PutClipped, scalerVars
    <3>3. QED  BY <2>2, <3>1, <3>2 DEF Call
  <2>3. CASE SendUpdate \/ SendRun
    <3>1. ctx # c /\ ctx \in Contexts
      BY <1>1, <2>3 DEF SendUpdate, SendRun, PortState, Serving
    <3>2. QED  BY <2>3, <3>1 DEF SendUpdate, SendRun, Send
  <2>4. CASE SendStop \/ SendAgain
    BY <2>4 DEF SendStop, SendAgain, Send, PortState, scalerVars
  <2>5. CASE SetForm \/ FlipBuffer \/ Receive \/ ReceiveNothing
    BY <2>5 DEF SetForm, SetArgs, FlipBuffer, Receive, ReceiveHard, ReceiveNothing, scalerVars
  <2>6. QED  BY <2>1, <2>2, <2>3, <2>4, <2>5 DEF Next, Continue
<1>4. CASE inMbox'[c] = inMbox[c]
  BY <1>2, <1>4 DEF Stopping, OnlyStops, Silent
<1>5. CASE inMbox'[c] = Append(inMbox[c], "STOP")
  <2>1. inMbox[c] \in Seq(Messages) /\ \A i \in 1 .. Len(inMbox[c]) : inMbox[c][i] = "STOP"
    BY DEF Stopping, OnlyStops
  <2>2. inMbox'[c] # <<>> /\ OnlyStops(c)'
    BY <1>5, <2>1, StopFacts DEF OnlyStops
  <2>3. QED  BY <1>2, <2>2 DEF Stopping, Silent
<1>6. QED  BY <1>2, <1>3, <1>4, <1>5

(* While a call of the X server waits, for room in the mailbox or for RDY, *)
(* its SPU program can take a step, unless it could not be loaded: the two *)
(* never wait for each other.  And it has at most 22 steps to take.        *)
THEOREM PortNeverStuck == Spec => []NeverStuck
<1>1. Init => MailboxHolds
  BY NoMailYet DEF Init
<1>2. IInv /\ MailboxHolds /\ [Next]_vars => MailboxHolds'
  BY StepMailbox
<1>3. IInv /\ MailboxHolds => NeverStuck
  BY StuckNever
<1>4. QED  BY <1>1, <1>2, <1>3, HandshakeHolds, PTL DEF Spec

(* And every step that is taken while it waits is that of an SPU program,  *)
(* with fewer steps left to it and as many to the others: a program that   *)
(* is still ending cannot make the call wait for ever.                     *)
THEOREM PortWaitsShorten == Spec => WaitsShorten
<1>1. IInv /\ [Next]_vars => [Blocked => UNCHANGED xvVars /\ OneAdvances]_vars
  BY WaitSteps
<1>2. QED  BY <1>1, HandshakeHolds, PTL DEF Spec, WaitsShorten

(* SPUStopVideo waits for nothing, and need not: the program that was sent *)
(* STOP is never blocked and has at most three steps to its end; whatever  *)
(* the port and the next scaler do, further STOPs to it included, does not *)
(* add to them.                                                            *)
THEOREM StoppedEndsAlone == Spec => []EndsAlone /\ EndComesNearer
<1>1. IInv => EndsAlone
  BY StopTaken
<1>2. IInv /\ [Next]_vars =>
        [\A c \in Contexts : Stopping(c) =>
           /\ Stopping(c)' \/ ~Live(c)'
           /\ \/ SpuStep(c) /\ ToEnd(pc[c])' < ToEnd(pc[c])
              \/ UNCHANGED pc[c]]_vars
  <2>1. SUFFICES ASSUME IInv, Next, NEW c \in Contexts, Stopping(c)
                 PROVE  /\ Stopping(c)' \/ ~Live(c)'
                        /\ \/ SpuStep(c) /\ ToEnd(pc[c])' < ToEnd(pc[c])
                           \/ UNCHANGED pc[c]
    OBVIOUS
  <2>2. CASE SpuStep(c)
    <3>1. Stopping(c)' \/ Absent(c)'
      BY <2>1, <2>2, PhaseSteps
    <3>2. ToEnd(pc[c])' < ToEnd(pc[c])
      <4>1. \/ pc[c] = "wait" /\ pc'[c] = "loop"
            \/ pc[c] = "loop" /\ pc'[c] = "exited"
            \/ pc[c] = "exited" /\ pc'[c] = "absent"
        <5> USE DEF IInv, TypeOK, ScalerTypeOK
        <5>1. CASE Wait(c)
          <6>1. inMbox[c] # <<>> /\ pc[c] = "wait"
            BY <5>1 DEF Wait, Take
          <6>2. \A i \in 1 .. Len(inMbox[c]) : inMbox[c][i] = "STOP"
            BY <2>1 DEF Stopping, OnlyStops
          <6>3. inMbox[c] \in Seq(Messages)
            BY <2>1
          <6>4. Head(inMbox[c]) = "STOP"
            BY <6>1, <6>2, <6>3, StopFacts
          <6>5. msg'[c] = "STOP"
            BY <2>1, <5>1, <6>4 DEF Wait, Take
          <6>6. pc'[c] = "loop"
            BY <2>1, <5>1, <6>5 DEF Wait
          <6>7. QED  BY <6>1, <6>6
        <5>2. CASE Leave(c)
          BY <2>1, <5>2 DEF Leave
        <5>3. CASE DestroyContext(c)
          BY <2>1, <5>3 DEF DestroyContext
        <5>4. QED
          BY <2>1, <2>2, <5>1, <5>2, <5>3
             DEF Stopping, SpuStep, Load, FirstMessage, Fetch, BeginFrame, Render, Post, Refetch
      <4>2. pc[c] \in {"wait", "loop", "exited"}
        BY <2>1 DEF Stopping
      <4>3. QED  BY <4>1, <4>2 DEF ToEnd
    <3>3. QED  BY <2>2, <3>1, <3>2 DEF Absent, Live
  <2>3. CASE ~SpuStep(c)
    BY <2>1, <2>3, StoppingLeftAlone
  <2>4. QED  BY <2>2, <2>3
<1>3. QED  BY <1>1, <1>2, HandshakeHolds, PTL DEF Spec, EndComesNearer
=============================================================================
