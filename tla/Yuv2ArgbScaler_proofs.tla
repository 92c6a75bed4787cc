----------------------- MODULE Yuv2ArgbScaler_proofs ------------------------
(***************************************************************************)
(* Facts about the steps of the SPU program that hold under every caller:  *)
(* the types they keep, what lets them be taken, and how many are left     *)
(* before the program waits for its caller again.                          *)
(***************************************************************************)
EXTENDS Yuv2ArgbScaler, SequenceTheorems, TLAPS

(* What a frame is made from, and what the filters are computed for.       *)
LEMMA FrameType ==
  ASSUME NEW a \in Args, NEW i \in {0, 1}, NEW before
  PROVE  Frame(a, i) \in Frames /\ Sized(a, before) \in Sizes
<1>1. Frame(a, i) \in Frames
  BY DEF Args, Frame, Frames
<1>2. SmallAfter(a, before) \in BOOLEAN
  BY DEF SmallAfter, Small
<1>3. QED  BY <1>1, <1>2 DEF Args, Sized, Sizes

(* Computed filters fit, whatever was left of earlier ones.                *)
LEMMA SizedFits ==
  ASSUME NEW a \in Args, NEW before
  PROVE  Fits(Sized(a, before), a)
BY DEF Fits, Sized, SmallAfter, Small

(* A step of the program keeps the types, if it has its arguments before   *)
(* it uses them.                                                           *)
LEMMA SpuType ==
  ASSUME ScalerTypeOK, NEW c \in Contexts, SpuStep(c),
         pc[c] \in {"loop", "frame"} => largs[c] \in Args
  PROVE  ScalerTypeOK'
<1> USE DEF ScalerTypeOK
<1>1. CASE Load(c)
  BY <1>1 DEF Load, PCs
<1>2. CASE FirstMessage(c)
  BY <1>2 DEF FirstMessage, Take, PCs
<1>3. CASE Fetch(c)
  BY <1>3 DEF Fetch, PCs
<1>4. CASE BeginFrame(c)
  <2>1. largs[c] \in Args
    BY <1>4 DEF BeginFrame
  <2>2. Sized(largs[c], filter[c]) \in Sizes
    BY <2>1, FrameType
  <2>3. QED  BY <1>4, <2>2 DEF BeginFrame, PCs
<1>5. CASE Leave(c)
  BY <1>5 DEF Leave, PCs
<1>6. CASE Render(c)
  <2>1. largs[c] \in Args
    BY <1>6 DEF Render
  <2>2. Frame(largs[c], sel[c]) \in Frames
    BY <2>1, FrameType
  <2>3. QED  BY <1>6, <2>2 DEF Render, PCs
<1>7. CASE Post(c)
  BY <1>7 DEF Post, PCs, Outbound, Messages
<1>8. CASE Wait(c)
  <2>1. msg' \in [Contexts -> Messages] /\ inMbox' \in [Contexts -> Seq(Messages)]
    BY <1>8 DEF Wait, Take
  <2>2. sel' \in [Contexts -> {0, 1}]
    BY <1>8 DEF Wait, Flip
  <2>3. pc' \in [Contexts -> PCs]
    BY <1>8 DEF Wait, PCs
  <2>4. QED  BY <1>8, <2>1, <2>2, <2>3 DEF Wait
<1>9. CASE Refetch(c)
  BY <1>9 DEF Refetch, PCs
<1>10. CASE DestroyContext(c)
  BY <1>10 DEF DestroyContext, PCs, Outbound, Messages
<1>11. QED
  BY <1>1, <1>2, <1>3, <1>4, <1>5, <1>6, <1>7, <1>8, <1>9, <1>10 DEF SpuStep

-----------------------------------------------------------------------------
(* Progress.  What is left of liveness without fairness: when the program  *)
(* can take a step, and how many it can take until it waits for a message. *)

(* The guards of SpuStep.                                                  *)
CanStep(c) ==
  \/ pc[c] \in {"created", "fetch", "loop", "frame", "refetch", "exited"}
  \/ pc[c] \in {"boot", "wait"} /\ inMbox[c] # <<>>
  \/ /\ pc[c] = "post"
     /\ \/ largs[c].form = "INTR" /\ outIntr[c] = "empty"
        \/ largs[c].form = "HARD" /\ outMbox[c] = "empty"
        \/ largs[c].form = "SOFT"

LEMMA StepsAreGuarded ==
  ASSUME NEW c \in Contexts, SpuStep(c)
  PROVE  CanStep(c)
<1>1. CASE FirstMessage(c) \/ Wait(c)
  BY <1>1 DEF CanStep, FirstMessage, Wait, Take
<1>2. CASE Post(c)
  BY <1>2 DEF CanStep, Post
<1>3. CASE \/ Load(c) \/ Fetch(c) \/ BeginFrame(c) \/ Leave(c) \/ Render(c)
           \/ Refetch(c) \/ DestroyContext(c)
  BY <1>3 DEF CanStep, Load, Fetch, BeginFrame, Leave, Render, Refetch, DestroyContext
<1>4. QED  BY <1>1, <1>2, <1>3 DEF SpuStep

(* The steps to the next wait, or to the end.                              *)
ToWait(p) ==
  CASE p = "created" -> 6
    [] p = "boot" -> 5
    [] p = "fetch" -> 4
    [] p = "loop" -> 3
    [] p = "frame" -> 2
    [] p \in {"post", "refetch", "exited"} -> 1
    [] p \in {"wait", "failed", "absent"} -> 0

(* At most so many steps are left with the messages the mailbox has now.   *)
StepsLeft(c) == 4 * Len(inMbox[c]) + ToWait(pc[c])

(* A SOFT program starts the next frame without being told to.             *)
RunsOn(c) == pc[c] = "post" /\ largs[c].form = "SOFT"

LEMMA ToWaitType ==
  ASSUME NEW p \in PCs
  PROVE  ToWait(p) \in 0 .. 6
BY DEF ToWait, PCs

(* No caller writes to a full mailbox, so that there are never many.       *)
MailboxHolds == \A c \in Contexts : Len(inMbox[c]) <= InMboxSize

LEMMA NoMailYet == ScalerInit => MailboxHolds
<1>1. SUFFICES ASSUME ScalerInit, NEW c \in Contexts  PROVE  Len(inMbox[c]) <= 4
  BY DEF MailboxHolds, InMboxSize
<1>2. inMbox[c] = <<>>
  BY <1>1 DEF ScalerInit
<1>3. Len(inMbox[c]) = 0
  BY <1>2
<1>4. QED  BY <1>3

LEMMA StepsLeftType ==
  ASSUME ScalerTypeOK, MailboxHolds, NEW c \in Contexts
  PROVE  StepsLeft(c) \in 0 .. 22
<1>1. inMbox[c] \in Seq(Messages) /\ Len(inMbox[c]) <= 4 /\ pc[c] \in PCs
  BY DEF ScalerTypeOK, MailboxHolds, InMboxSize
<1>2. Len(inMbox[c]) \in Nat /\ ToWait(pc[c]) \in 0 .. 6
  BY <1>1, ToWaitType, LenProperties
<1>3. \A n \in Nat, t \in 0 .. 6 : n <= 4 => 4 * n + t \in 0 .. 22
  OBVIOUS
<1>4. QED  BY <1>1, <1>2, <1>3 DEF StepsLeft

LEMMA MailboxSteps ==
  ASSUME ScalerTypeOK, MailboxHolds, NEW c \in Contexts,
         \/ SpuStep(c)
         \/ \E m \in Messages : Send(c, m)
         \/ inMbox' = inMbox
  PROVE  MailboxHolds'
<1> USE DEF ScalerTypeOK, MailboxHolds, InMboxSize
<1>1. CASE \E m \in Messages : Send(c, m)
  <2>1. PICK m \in Messages : Send(c, m)
    BY <1>1
  <2>2. inMbox[c] \in Seq(Messages) /\ Len(inMbox[c]) < 4
    BY <2>1 DEF Send
  <2>3. Len(Append(inMbox[c], m)) = Len(inMbox[c]) + 1 /\ Len(inMbox[c]) \in Nat
    BY <2>2, LenProperties, AppendProperties
  <2>4. QED  BY <2>1, <2>2, <2>3 DEF Send
<1>2. CASE FirstMessage(c) \/ Wait(c)
  <2>1. inMbox' = [inMbox EXCEPT ![c] = Tail(@)] /\ inMbox[c] # <<>>
    BY <1>2 DEF FirstMessage, Wait, Take
  <2>2. inMbox[c] \in Seq(Messages)
    OBVIOUS
  <2>3. Len(Tail(inMbox[c])) = Len(inMbox[c]) - 1 /\ Len(inMbox[c]) \in Nat
    BY <2>1, <2>2, LenProperties, HeadTailProperties
  <2>4. Len(Tail(inMbox[c])) <= 4
    BY <2>3
  <2>5. QED  BY <2>1, <2>4
<1>3. CASE DestroyContext(c)
  <2>1. inMbox' = [inMbox EXCEPT ![c] = <<>>] /\ Len(<<>>) = 0
    BY <1>3 DEF DestroyContext
  <2>2. QED  BY <2>1
<1>4. CASE \/ Load(c) \/ Fetch(c) \/ BeginFrame(c) \/ Leave(c) \/ Render(c)
           \/ Post(c) \/ Refetch(c) \/ inMbox' = inMbox
  BY <1>4 DEF Load, Fetch, BeginFrame, Leave, Render, Post, Refetch
<1>5. QED  BY <1>1, <1>2, <1>3, <1>4 DEF SpuStep

(* Every other step brings the program nearer to a wait with no message,   *)
(* or to its end, and no other program farther from it.                    *)
LEMMA ProgramAdvances ==
  ASSUME ScalerTypeOK, NEW c \in Contexts, SpuStep(c), ~RunsOn(c)
  PROVE  /\ StepsLeft(c)' < StepsLeft(c)
         /\ \A d \in Contexts \ {c} : StepsLeft(d)' = StepsLeft(d)
<1> USE DEF ScalerTypeOK
<1> DEFINE fewer(p, q) ==
      pc[c] = p /\ pc' = [pc EXCEPT ![c] = q] /\ inMbox' = [inMbox EXCEPT ![c] = Tail(@)]
<1> DEFINE ahead(p, q) ==
      pc[c] = p /\ pc' = [pc EXCEPT ![c] = q] /\ inMbox' = inMbox
<1>1. /\ Len(inMbox[c]) \in Nat
      /\ inMbox[c] # <<>> => /\ Len(Tail(inMbox[c])) = Len(inMbox[c]) - 1
                            /\ Len(Tail(inMbox[c])) \in Nat
  BY EmptySeq
<1>2. \A d \in Contexts \ {c} : pc'[d] = pc[d] /\ inMbox'[d] = inMbox[d]
  BY DEF SpuStep, Load, FirstMessage, Fetch, BeginFrame, Leave, Render, Post, Wait, Refetch,
         DestroyContext, Take
<1>3. /\ StepsLeft(c) = 4 * Len(inMbox[c]) + ToWait(pc[c])
      /\ StepsLeft(c)' = 4 * Len(inMbox'[c]) + ToWait(pc'[c])
  BY DEF StepsLeft
<1>4. ASSUME FirstMessage(c) \/ Wait(c)
      PROVE  StepsLeft(c)' < StepsLeft(c)
  <2>1. PICK p \in {"boot", "wait"}, q \in {"fetch", "loop", "refetch", "wait"} :
          fewer(p, q) /\ inMbox[c] # <<>> /\ (p = "wait" => q # "fetch")
    BY <1>4 DEF FirstMessage, Wait, Take
  <2>2. /\ pc'[c] = q /\ pc[c] = p /\ Len(inMbox'[c]) = Len(inMbox[c]) - 1
    BY <1>1, <2>1
  <2>3. ToWait(q) \in 0 .. 4 /\ ToWait(p) \in 0 .. 6 /\ ToWait(q) < ToWait(p) + 4
    BY <2>1 DEF ToWait
  <2>4. QED  BY <1>1, <1>3, <2>1, <2>2, <2>3
<1>5. ASSUME \/ Load(c) \/ Fetch(c) \/ BeginFrame(c) \/ Leave(c) \/ Render(c)
             \/ Post(c) \/ Refetch(c)
      PROVE  StepsLeft(c)' < StepsLeft(c)
  <2>1. \/ ahead("created", "boot") \/ ahead("created", "failed") \/ ahead("fetch", "loop")
        \/ ahead("loop", "frame") \/ ahead("loop", "exited") \/ ahead("frame", "post")
        \/ ahead("post", "wait") \/ ahead("refetch", "wait")
    BY <1>5 DEF Load, Fetch, BeginFrame, Leave, Render, Post, Refetch, RunsOn
  <2>2. inMbox' = inMbox /\ ToWait(pc'[c]) < ToWait(pc[c]) /\ ToWait(pc[c]) \in 0 .. 6
        /\ ToWait(pc'[c]) \in 0 .. 6
    BY <2>1 DEF ToWait
  <2>3. QED  BY <1>1, <1>3, <2>2
<1>6. ASSUME DestroyContext(c)
      PROVE  StepsLeft(c)' < StepsLeft(c)
  <2>1. pc[c] = "exited" /\ pc'[c] = "absent" /\ inMbox'[c] = <<>>
    BY <1>6 DEF DestroyContext
  <2>2. Len(<<>>) = 0
    OBVIOUS
  <2>3. ToWait("exited") = 1 /\ ToWait("absent") = 0
    BY DEF ToWait
  <2>4. QED  BY <1>1, <1>3, <2>1, <2>2, <2>3
<1>7. StepsLeft(c)' < StepsLeft(c)
  BY <1>4, <1>5, <1>6 DEF SpuStep
<1>8. QED  BY <1>2, <1>7 DEF StepsLeft
=============================================================================
