-------------------------- MODULE ScalerApi_proofs --------------------------
(***************************************************************************)
(* Theorems about the scaler service under any caller, for every set of    *)
(* contexts, images, sizes, places and forms, however far ahead the caller *)
(* runs, and whether or not the program fails to load.                     *)
(***************************************************************************)
EXTENDS ScalerApi, Yuv2ArgbScaler_proofs, FiniteSetTheorems, SequenceTheorems, TLAPS

(* Where in q the message m is; Unread(c, m) for the mailbox of c.         *)
At(q, m) == {i \in 1 .. Len(q) : q[i] = m}
Count(q, m) == Cardinality(At(q, m))

Asked == {"RUN", "UPDATE", "STOP"}

(* Counts are numbers, and zero of what is not there.                      *)
LEMMA CountType ==
  ASSUME NEW q \in Seq(Asked), NEW m
  PROVE  /\ IsFiniteSet(At(q, m))
         /\ Count(q, m) \in Nat
         /\ Count(q, m) = 0 <=> At(q, m) = {}
         /\ q = <<>> => Count(q, m) = 0 /\ At(q, m) = {}
<1>1. Len(q) \in Nat
  OBVIOUS
<1>2. IsFiniteSet(1 .. Len(q))
  BY <1>1, FS_Interval
<1>3. IsFiniteSet(At(q, m))
  BY <1>2, FS_Subset DEF At
<1>4. q = <<>> => At(q, m) = {}
  BY DEF At
<1>5. Count(q, m) \in Nat /\ (Count(q, m) = 0 <=> At(q, m) = {})
  BY <1>3, FS_CardinalityType, FS_EmptySet DEF Count
<1>6. QED  BY <1>3, <1>4, <1>5

(* Sending a message adds it to those of its kind.                         *)
LEMMA SendCount ==
  ASSUME NEW q \in Seq(Asked), NEW n \in Asked, NEW m
  PROVE  /\ Append(q, n) \in Seq(Asked)
         /\ Append(q, n) # <<>>
         /\ q # <<>> => Head(Append(q, n)) = Head(q)
         /\ q = <<>> => Head(Append(q, n)) = n
         /\ At(Append(q, n), m) = At(q, m) \cup (IF n = m THEN {Len(q) + 1} ELSE {})
         /\ Count(Append(q, n), m) = Count(q, m) + (IF n = m THEN 1 ELSE 0)
<1>1. /\ Append(q, n) \in Seq(Asked) /\ Len(q) \in Nat
      /\ Len(Append(q, n)) = Len(q) + 1 /\ Append(q, n)[Len(q) + 1] = n
      /\ \A i \in 1 .. Len(q) : Append(q, n)[i] = q[i]
  OBVIOUS
<1>2. Append(q, n) # <<>> /\ Head(Append(q, n)) = Append(q, n)[1]
  BY <1>1
<1>3. q # <<>> => Head(Append(q, n)) = Head(q)
  BY <1>1, <1>2
<1>4. q = <<>> => Head(Append(q, n)) = n
  BY <1>1, <1>2
<1>5. At(Append(q, n), m) = At(q, m) \cup (IF n = m THEN {Len(q) + 1} ELSE {})
  <2>1. \A i : i \in 1 .. Len(q) + 1 <=> i \in 1 .. Len(q) \/ i = Len(q) + 1
    BY <1>1
  <2>2. QED  BY <1>1, <2>1 DEF At
<1>6. Count(Append(q, n), m) = Count(q, m) + (IF n = m THEN 1 ELSE 0)
  <2>1. Len(q) + 1 \notin At(q, m)
    BY <1>1 DEF At
  <2>2. IsFiniteSet(At(q, m)) /\ Count(q, m) \in Nat
    BY CountType
  <2>3. Cardinality(At(q, m) \cup {Len(q) + 1}) = Cardinality(At(q, m)) + 1
    BY <2>1, <2>2, FS_AddElement
  <2>4. CASE n = m
    BY <1>5, <2>3, <2>4 DEF Count
  <2>5. CASE n # m
    BY <1>5, <2>2, <2>5 DEF Count
  <2>6. QED  BY <2>4, <2>5
<1>7. QED  BY <1>1, <1>2, <1>3, <1>4, <1>5, <1>6

(* Reading a message takes away one of its kind and moves the others up.   *)
LEMMA TakeCount ==
  ASSUME NEW q \in Seq(Asked), q # <<>>, NEW m
  PROVE  /\ Head(q) \in Asked /\ Tail(q) \in Seq(Asked)
         /\ \A i \in At(q, m) : i = 1 \/ i - 1 \in At(Tail(q), m)
         /\ 1 \in At(q, m) <=> Head(q) = m
         /\ Count(q, m) = Count(Tail(q), m) + (IF Head(q) = m THEN 1 ELSE 0)
<1>1. /\ Len(q) \in Nat /\ Len(q) > 0 /\ Head(q) = q[1] /\ Head(q) \in Asked
      /\ Tail(q) \in Seq(Asked) /\ Len(Tail(q)) = Len(q) - 1
      /\ \A i \in 1 .. Len(q) - 1 : Tail(q)[i] = q[i + 1]
  OBVIOUS
<1>2. 1 \in At(q, m) <=> Head(q) = m
  BY <1>1 DEF At
<1>3. \A i \in At(q, m) : i = 1 \/ i - 1 \in At(Tail(q), m)
  <2>1. SUFFICES ASSUME NEW i \in At(q, m), i # 1  PROVE  i - 1 \in At(Tail(q), m)
    OBVIOUS
  <2>2. i \in 2 .. Len(q) /\ q[i] = m
    BY <1>1, <2>1 DEF At
  <2>3. i - 1 \in 1 .. Len(q) - 1 /\ (i - 1) + 1 = i
    BY <1>1, <2>2
  <2>4. QED  BY <1>1, <2>2, <2>3 DEF At
<1>4. \A i \in At(Tail(q), m) : i \in Nat /\ i >= 1 /\ i + 1 \in At(q, m) \ {1}
  <2>1. SUFFICES ASSUME NEW i \in At(Tail(q), m)
                 PROVE  i \in Nat /\ i >= 1 /\ i + 1 \in At(q, m) \ {1}
    OBVIOUS
  <2>2. i \in 1 .. Len(q) - 1 /\ Tail(q)[i] = m
    BY <1>1 DEF At
  <2>3. i + 1 \in 2 .. Len(q) /\ q[i + 1] = m
    BY <1>1, <2>2
  <2>4. QED  BY <1>1, <2>2, <2>3 DEF At
<1>5. Cardinality(At(Tail(q), m)) = Cardinality(At(q, m) \ {1})
  <2> DEFINE S == At(Tail(q), m)
             T == At(q, m) \ {1}
             f == [i \in S |-> i + 1]
  <2>1. f \in [S -> T]
    BY <1>4
  <2>2. \A a, b \in S : f[a] = f[b] => a = b
    BY <1>4
  <2>3. \A t \in T : \E a \in S : f[a] = t
    <3>1. SUFFICES ASSUME NEW t \in T  PROVE  t - 1 \in S /\ f[t - 1] = t
      OBVIOUS
    <3>2. t - 1 \in S
      BY <1>3
    <3>3. t \in Nat
      BY DEF At
    <3>4. QED  BY <3>2, <3>3
  <2>4. ExistsBijection(S, T)
    BY <2>1, <2>2, <2>3
       DEF ExistsBijection, Bijection, Injection, Surjection, IsInjective
  <2>5. IsFiniteSet(S)
    BY <1>1, CountType
  <2>6. QED  BY <2>4, <2>5, FS_Bijection
<1>6. /\ IsFiniteSet(At(q, m)) /\ Count(q, m) \in Nat
      /\ Count(Tail(q), m) \in Nat
  BY <1>1, CountType
<1>7. Cardinality(At(q, m) \ {1})
        = IF 1 \in At(q, m) THEN Count(q, m) - 1 ELSE Count(q, m)
  BY <1>6, FS_RemoveElement DEF Count
<1>8. Count(q, m) = Count(Tail(q), m) + (IF Head(q) = m THEN 1 ELSE 0)
  BY <1>2, <1>5, <1>6, <1>7 DEF Count
<1>9. QED  BY <1>1, <1>2, <1>3, <1>8

(* One RUN more, and the other buffer.                                     *)
LEMMA Parity ==
  ASSUME NEW n \in Nat, NEW i \in {0, 1}
  PROVE  /\ (i + (n + 1)) % 2 = 1 - ((i + n) % 2)
         /\ (i + (n + 1)) % 2 = ((1 - i) + n) % 2
         /\ i % 2 = i
<1>1. CASE i = 0
  BY <1>1
<1>2. CASE i = 1
  BY <1>2
<1>3. QED  BY <1>1, <1>2

-----------------------------------------------------------------------------
(* A step of an SPU program is one of the program of the caller's scaler.  *)
LEMMA OwnProgram ==
  ASSUME AInv, NEW c \in Contexts, SpuStep(c), UNCHANGED apiVars
  PROVE  /\ c = ctx /\ c # Unset /\ Serves(c) /\ pc[c] # "absent"
         /\ iargs' = iargs
         /\ UNCHANGED <<apc, ctx, order, started, owed, turn, since>>
<1>1. pc[c] # "absent"
  BY DEF SpuStep, Load, FirstMessage, Fetch, BeginFrame, Leave, Render, Post, Wait,
         Refetch, DestroyContext
<1>2. c = ctx /\ c # Unset
  BY <1>1, ApiAssumption DEF AInv, Alone
<1>3. iargs' = iargs
  BY DEF SpuStep, Load, FirstMessage, Fetch, BeginFrame, Leave, Render, Post, Wait,
         Refetch, DestroyContext
<1>4. QED  BY <1>1, <1>2, <1>3 DEF AInv, apiVars

(* What such a step has to keep.                                           *)
LEMMA StepOfOwn ==
  ASSUME AInv, NEW c \in Contexts, SpuStep(c), UNCHANGED apiVars,
         pc'[c] = "absent" => Blank(c)',
         Serves(c)'
  PROVE  AInv'
<1>1. c = ctx /\ ctx' = ctx /\ pc[c] # "absent" /\ Serves(c) /\ iargs' = iargs
      /\ UNCHANGED <<apc, order, started, owed, turn, since>>
  BY OwnProgram
<1>2. ApiTypeOK'
  <2>1. pc[c] \in {"loop", "frame"} => largs[c] \in Args
    BY <1>1 DEF Serves, Program
  <2>2. ScalerTypeOK'
    BY <2>1, SpuType DEF AInv, ApiTypeOK
  <2>3. QED  BY <1>1, <2>2 DEF AInv, ApiTypeOK
<1>3. Caller'
  BY <1>1 DEF AInv, Caller
<1>4. \A d \in Contexts \ {c} :
        /\ pc'[d] = pc[d] /\ inMbox'[d] = inMbox[d] /\ outMbox'[d] = outMbox[d]
        /\ outIntr'[d] = outIntr[d] /\ sel'[d] = sel[d] /\ msg'[d] = msg[d]
  BY DEF SpuStep, Load, FirstMessage, Fetch, BeginFrame, Leave, Render, Post, Wait,
         Refetch, DestroyContext, Take, AInv, ApiTypeOK, ScalerTypeOK
<1>5. Alone'
  BY <1>1, <1>4 DEF AInv, Alone, Blank, Silent
<1>6. QED  BY <1>1, <1>2, <1>3, <1>5 DEF AInv

(* What is unread does not change when the mailbox does not.               *)
LEMMA SameMail ==
  ASSUME NEW c, inMbox'[c] = inMbox[c]
  PROVE  /\ Unread(c, "RUN")' = Unread(c, "RUN")
         /\ Unread(c, "UPDATE")' = Unread(c, "UPDATE")
         /\ Cardinality(Unread(c, "RUN"))' = Cardinality(Unread(c, "RUN"))
BY DEF Unread

(* The steps that read no message.                                         *)
LEMMA ConvertSteps ==
  ASSUME AInv, NEW c \in Contexts, UNCHANGED apiVars,
         \/ Load(c) \/ Fetch(c) \/ BeginFrame(c) \/ Leave(c) \/ Render(c)
         \/ Post(c) \/ Refetch(c) \/ DestroyContext(c)
  PROVE  AInv'
<1>1. SpuStep(c)
  BY DEF SpuStep
<1>2. /\ c = ctx /\ c # Unset /\ Serves(c) /\ pc[c] # "absent" /\ iargs' = iargs
      /\ UNCHANGED <<apc, ctx, order, started, owed, turn, since>>
  BY <1>1, OwnProgram
<1>3. ScalerTypeOK
  BY DEF AInv, ApiTypeOK
<1>4. ASSUME inMbox'[c] = inMbox[c]
      PROVE  /\ Unread(c, "RUN")' = Unread(c, "RUN")
             /\ Unread(c, "UPDATE")' = Unread(c, "UPDATE")
             /\ Cardinality(Unread(c, "RUN"))' = Cardinality(Unread(c, "RUN"))
  BY <1>4, SameMail
<1>5. SUFFICES (pc'[c] = "absent" => Blank(c)') /\ Serves(c)'
  BY <1>1, StepOfOwn
<1> DEFINE n == Cardinality(Unread(c, "RUN"))
<1>6. n \in Nat
  BY <1>2, CountType DEF Serves, Mail, Asked, Count, At, Unread
<1>7. CASE Load(c)
  <2>1. /\ pc[c] = "created" /\ pc'[c] \in {"boot", "failed"}
        /\ inMbox' = inMbox /\ outMbox' = outMbox /\ outIntr' = outIntr /\ msg' = msg
        /\ largs' = largs /\ sel' = sel /\ shown' = shown
    BY <1>3, <1>7 DEF Load, ScalerTypeOK
  <2>2. Mail(c)'
    BY <1>2, <2>1 DEF Serves, Mail, Unstarted, Silent
  <2>3. Program(c)'
    BY <1>2, <2>1 DEF Serves, Program, Unstarted, Silent
  <2>4. Accounted(c)'
    BY <1>2, <1>4, <2>1 DEF Serves, Accounted, UnderWay, Answers
  <2>5. InTurn(c)'
    BY <1>2, <1>4, <2>1 DEF Serves, InTurn, Unstarted
  <2>6. InPlace(c)'
    BY <1>2, <1>4, <2>1 DEF Serves, InPlace, Current, Unstarted
  <2>7. Ended(c)'
    BY <1>2, <2>1 DEF Serves, Ended, Answers
  <2>8. QED  BY <2>1, <2>2, <2>3, <2>4, <2>5, <2>6, <2>7 DEF Serves
<1>8. CASE Fetch(c)
  <2>1. /\ pc[c] = "fetch" /\ pc'[c] = "loop" /\ largs'[c] = iargs[c]
        /\ inMbox' = inMbox /\ outMbox' = outMbox /\ outIntr' = outIntr /\ msg' = msg
        /\ sel' = sel /\ shown' = shown
    BY <1>3, <1>8 DEF Fetch, ScalerTypeOK
  <2>2. Mail(c)'
    BY <1>2, <2>1 DEF Serves, Mail, Unstarted, Silent
  <2>3. Program(c)'
    BY <1>2, <2>1 DEF Serves, Program, Unstarted, Silent
  <2>4. Accounted(c)'
    BY <1>2, <1>4, <2>1 DEF Serves, Accounted, UnderWay, Answers
  <2>5. InTurn(c)'
    BY <1>2, <1>4, <2>1 DEF Serves, InTurn, Unstarted
  <2>6. InPlace(c)'
    BY <1>2, <1>4, <2>1 DEF Serves, InPlace, Current, Unstarted
  <2>7. Ended(c)'
    BY <1>2, <2>1 DEF Serves, Ended, Answers
  <2>8. QED  BY <2>1, <2>2, <2>3, <2>4, <2>5, <2>6, <2>7 DEF Serves
<1>9. CASE BeginFrame(c)
  <2>1. /\ pc[c] = "loop" /\ pc'[c] = "frame" /\ msg[c] # "STOP"
        /\ inMbox' = inMbox /\ outMbox' = outMbox /\ outIntr' = outIntr /\ msg' = msg
        /\ largs' = largs /\ sel' = sel /\ shown' = shown
    BY <1>3, <1>9 DEF BeginFrame, ScalerTypeOK
  <2>2. Mail(c)'
    BY <1>2, <2>1 DEF Serves, Mail, Unstarted, Silent
  <2>3. Program(c)'
    BY <1>2, <2>1 DEF Serves, Program, Unstarted, Silent
  <2>4. Accounted(c)'
    BY <1>2, <1>4, <2>1 DEF Serves, Accounted, UnderWay, Answers
  <2>5. InTurn(c)'
    BY <1>2, <1>4, <2>1 DEF Serves, InTurn, Unstarted
  <2>6. InPlace(c)'
    BY <1>2, <1>4, <2>1 DEF Serves, InPlace, Current, Unstarted
  <2>7. Ended(c)'
    BY <1>2, <2>1 DEF Serves, Ended, Answers
  <2>8. QED  BY <2>1, <2>2, <2>3, <2>4, <2>5, <2>6, <2>7 DEF Serves
<1>10. CASE Leave(c)
  <2>1. /\ pc[c] = "loop" /\ pc'[c] = "exited" /\ msg[c] = "STOP"
        /\ inMbox' = inMbox /\ outMbox' = outMbox /\ outIntr' = outIntr /\ msg' = msg
        /\ largs' = largs /\ sel' = sel /\ shown' = shown
    BY <1>3, <1>10 DEF Leave, ScalerTypeOK
  <2>2. Mail(c)'
    BY <1>2, <2>1 DEF Serves, Mail, Unstarted, Silent
  <2>3. Program(c)'
    BY <1>2, <2>1 DEF Serves, Program, Unstarted, Silent
  <2>4. Accounted(c)'
    BY <1>2, <1>4, <2>1 DEF Serves, Accounted, UnderWay, Answers
  <2>5. InTurn(c)'
    BY <1>2, <1>4, <2>1 DEF Serves, InTurn, Unstarted
  <2>6. InPlace(c)'
    BY <1>2, <2>1 DEF InPlace
  <2>7. Ended(c)'
    BY <1>2, <2>1 DEF Serves, Ended, Answers
  <2>8. QED  BY <2>1, <2>2, <2>3, <2>4, <2>5, <2>6, <2>7 DEF Serves
<1>11. CASE Render(c)
  <2>1. /\ pc[c] = "frame" /\ pc'[c] = "post" /\ shown'[c] = Frame(largs[c], sel[c])
        /\ inMbox' = inMbox /\ outMbox' = outMbox /\ outIntr' = outIntr /\ msg' = msg
        /\ largs' = largs /\ sel' = sel
    BY <1>3, <1>11 DEF Render, ScalerTypeOK
  <2>2. Mail(c)'
    BY <1>2, <2>1 DEF Serves, Mail, Unstarted, Silent
  <2>3. Program(c)'
    BY <1>2, <2>1 DEF Serves, Program, Unstarted, Silent
  <2>4. Accounted(c)'
    BY <1>2, <1>4, <2>1 DEF Serves, Accounted, UnderWay, Answers
  <2>5. /\ shown'[c] \in Frames /\ shown'[c].img = iargs[c].buf[sel[c]]
        /\ shown'[c].place = largs[c].place
    <3>1. /\ largs[c] \in Args /\ largs[c].buf = iargs[c].buf /\ sel[c] \in {0, 1}
      BY <1>2, <1>3, <2>1 DEF Serves, Program, ScalerTypeOK
    <3>2. Frame(largs[c], sel[c]) \in Frames
      BY <3>1, FrameType
    <3>3. QED  BY <2>1, <3>1, <3>2 DEF Frame
  <2>6. InTurn(c)'
    BY <1>2, <1>4, <2>1, <2>5 DEF Serves, InTurn, Unstarted
  <2>7. InPlace(c)'
    BY <1>2, <1>4, <2>1, <2>5 DEF Serves, InPlace, Current, Unstarted
  <2>8. Ended(c)'
    BY <1>2, <2>1 DEF Serves, Ended, Program
  <2>9. QED  BY <2>1, <2>2, <2>3, <2>4, <2>6, <2>7, <2>8 DEF Serves
<1>12. CASE Post(c)
  <2>1. /\ pc[c] = "post" /\ msg[c] = "RUN"
        /\ inMbox' = inMbox /\ largs' = largs /\ sel' = sel /\ shown' = shown
        /\ largs[c].form = iargs[c].form /\ iargs[c].form \in Forms
        /\ outMbox[c] \in {"empty", "RDY"} /\ outIntr[c] \in {"empty", "RDY"}
    BY <1>2, <1>3, <1>12 DEF Post, ScalerTypeOK, Serves, Program, Args, Outbound
  <2>2. \/ /\ iargs[c].form # "SOFT" /\ pc'[c] = "wait" /\ msg'[c] = "RDY"
           /\ Answers(c)' = Answers(c) + 1
        \/ /\ iargs[c].form = "SOFT" /\ pc'[c] = "loop" /\ msg'[c] = "RUN"
           /\ outMbox' = outMbox /\ outIntr' = outIntr
    BY <1>3, <1>12, <2>1 DEF Post, ScalerTypeOK, Answers
  <2>3. Mail(c)'
    BY <1>2, <2>1, <2>2 DEF Serves, Mail, Unstarted
  <2>4. Program(c)'
    BY <1>2, <2>1, <2>2 DEF Serves, Program, Unstarted, Silent
  <2>5. Accounted(c)'
    <3>1. Answers(c) \in Nat
      BY DEF Answers
    <3>2. QED  BY <1>2, <1>4, <1>6, <2>1, <2>2, <3>1 DEF Serves, Accounted, UnderWay
  <2>6. InTurn(c)'
    BY <1>2, <1>4, <2>1, <2>2 DEF Serves, InTurn, Unstarted
  <2>7. InPlace(c)'
    BY <1>2, <1>4, <2>1, <2>2 DEF Serves, InPlace, Current, Unstarted
  <2>8. Ended(c)'
    BY <2>2 DEF Ended
  <2>9. QED  BY <2>2, <2>3, <2>4, <2>5, <2>6, <2>7, <2>8 DEF Serves
<1>13. CASE Refetch(c)
  <2>1. /\ pc[c] = "refetch" /\ pc'[c] = "wait" /\ largs'[c] = iargs[c]
        /\ inMbox' = inMbox /\ outMbox' = outMbox /\ outIntr' = outIntr /\ msg' = msg
        /\ sel' = sel /\ shown' = shown
    BY <1>3, <1>13 DEF Refetch, ScalerTypeOK
  <2>2. Mail(c)'
    BY <1>2, <2>1 DEF Serves, Mail, Unstarted, Silent
  <2>3. Program(c)'
    BY <1>2, <2>1 DEF Serves, Program, Unstarted, Silent
  <2>4. Accounted(c)'
    BY <1>2, <1>4, <2>1 DEF Serves, Accounted, UnderWay, Answers
  <2>5. InTurn(c)'
    BY <1>2, <1>4, <2>1 DEF Serves, InTurn, Unstarted
  <2>6. InPlace(c)'
    BY <1>2, <1>4, <2>1 DEF Serves, InPlace, Current, Unstarted
  <2>7. Ended(c)'
    BY <1>2, <2>1 DEF Serves, Ended, Answers
  <2>8. QED  BY <2>1, <2>2, <2>3, <2>4, <2>5, <2>6, <2>7 DEF Serves
<1>14. CASE DestroyContext(c)
  <2>1. /\ pc[c] = "exited" /\ pc'[c] = "absent" /\ msg'[c] = "WAIT"
        /\ inMbox'[c] = <<>> /\ outMbox'[c] = "empty" /\ outIntr'[c] = "empty"
        /\ sel'[c] = 0
    BY <1>3, <1>14 DEF DestroyContext, ScalerTypeOK
  <2>2. apc = "join" /\ started
    BY <1>2, <2>1 DEF Serves, Program, Mail, AInv, Caller
  <2>3. Mail(c)'
    BY <1>2, <2>1 DEF Mail, Unstarted
  <2>4. Program(c)'
    BY <1>2, <2>1, <2>2 DEF Serves, Program, Silent
  <2>5. Accounted(c)' /\ InTurn(c)' /\ InPlace(c)' /\ Ended(c)'
    BY <2>1 DEF Accounted, InTurn, InPlace, Ended
  <2>6. QED  BY <2>1, <2>3, <2>4, <2>5 DEF Serves, Blank, Silent
<1>15. QED
  BY <1>7, <1>8, <1>9, <1>10, <1>11, <1>12, <1>13, <1>14

(* What reading a message does to those unread.                            *)
LEMMA TakeMail ==
  ASSUME AInv, NEW c \in Contexts, Mail(c), Take(c)
  PROVE  /\ inMbox[c] # <<>> /\ msg'[c] = Head(inMbox[c])
         /\ msg'[c] \in Asked
         /\ inMbox'[c] \in Seq(Asked)
         /\ msg'[c] = "STOP" => apc = "join" /\ inMbox'[c] = <<>>
         /\ \A i \in 1 .. Len(inMbox'[c]) :
              inMbox'[c][i] = "STOP" => apc = "join" /\ i = Len(inMbox'[c])
         /\ Cardinality(Unread(c, "RUN"))' \in Nat
         /\ Cardinality(Unread(c, "RUN"))
              = Cardinality(Unread(c, "RUN"))' + (IF msg'[c] = "RUN" THEN 1 ELSE 0)
         /\ \A m \in {"RUN", "UPDATE"} : \A i \in Unread(c, m) :
              IF i = 1 THEN msg'[c] = m ELSE i - 1 \in Unread(c, m)'
         /\ \A m \in {"RUN", "UPDATE"} : Unread(c, m) \subseteq Nat \ {0}
<1> DEFINE q == inMbox[c]
<1>1. q \in Seq(Asked) /\ q # <<>>
  BY DEF Mail, Take, Asked
<1>2. msg'[c] = Head(q) /\ inMbox'[c] = Tail(q)
  BY DEF Take, AInv, ApiTypeOK, ScalerTypeOK
<1>3. /\ Len(q) \in Nat /\ Len(q) > 0 /\ Head(q) = q[1]
      /\ Tail(q) \in Seq(Asked) /\ Len(Tail(q)) = Len(q) - 1
      /\ \A i \in 1 .. Len(q) - 1 : Tail(q)[i] = q[i + 1]
  BY <1>1
<1>4. msg'[c] \in Asked /\ inMbox'[c] \in Seq(Asked)
  BY <1>1, <1>2, TakeCount
<1>5. ASSUME msg'[c] = "STOP"  PROVE  apc = "join" /\ inMbox'[c] = <<>>
  <2>0. 1 \in 1 .. Len(q) /\ q[1] = "STOP"
    BY <1>2, <1>3, <1>5
  <2>1. apc = "join" /\ 1 = Len(q)
    BY <2>0 DEF Mail
  <2>2. Len(Tail(q)) = 0
    BY <1>3, <2>1
  <2>3. QED  BY <1>2, <1>3, <2>1, <2>2, EmptySeq
<1>6. ASSUME NEW i \in 1 .. Len(Tail(q)), Tail(q)[i] = "STOP"
      PROVE  apc = "join" /\ i = Len(Tail(q))
  <2>1. i + 1 \in 1 .. Len(q) /\ q[i + 1] = "STOP"
    BY <1>3, <1>6
  <2>2. apc = "join" /\ i + 1 = Len(q)
    BY <2>1 DEF Mail
  <2>3. QED  BY <1>3, <2>2
<1>7. \A m : Unread(c, m) = At(q, m)
  BY DEF Unread, At
<1>8. Unread(c, "RUN")' = At(Tail(q), "RUN") /\ Unread(c, "UPDATE")' = At(Tail(q), "UPDATE")
  BY <1>2 DEF Unread, At
<1>9. /\ Count(Tail(q), "RUN") \in Nat
      /\ Count(q, "RUN") = Count(Tail(q), "RUN") + (IF Head(q) = "RUN" THEN 1 ELSE 0)
  BY <1>1, <1>3, CountType, TakeCount
<1>10. /\ Cardinality(Unread(c, "RUN"))' = Count(Tail(q), "RUN")
       /\ Cardinality(Unread(c, "RUN")) = Count(q, "RUN")
  BY <1>7, <1>8 DEF Count
<1>11. ASSUME NEW m \in {"RUN", "UPDATE"}, NEW i \in At(q, m)
       PROVE  IF i = 1 THEN Head(q) = m ELSE i - 1 \in At(Tail(q), m)
  BY <1>1, <1>11, TakeCount
<1>12. \A m : At(q, m) \subseteq Nat \ {0}
  BY <1>3 DEF At
<1>13. \A m \in {"RUN", "UPDATE"} : \A i \in Unread(c, m) :
         IF i = 1 THEN msg'[c] = m ELSE i - 1 \in Unread(c, m)'
  BY <1>2, <1>7, <1>8, <1>11
<1> HIDE DEF q
<1>14. QED
  BY <1>1, <1>2, <1>4, <1>5, <1>6, <1>7, <1>9, <1>10, <1>12, <1>13 DEF q

(* The steps that read a message.                                          *)
LEMMA MessageSteps ==
  ASSUME AInv, NEW c \in Contexts, UNCHANGED apiVars, FirstMessage(c) \/ Wait(c)
  PROVE  AInv'
<1>1. SpuStep(c) /\ Take(c)
  BY DEF SpuStep, FirstMessage, Wait
<1>2. /\ c = ctx /\ c # Unset /\ Serves(c) /\ pc[c] # "absent" /\ iargs' = iargs
      /\ UNCHANGED <<apc, ctx, order, started, owed, turn, since>>
  BY <1>1, OwnProgram
<1>3. ScalerTypeOK
  BY DEF AInv, ApiTypeOK
<1> DEFINE n == Cardinality(Unread(c, "RUN"))
           k == Cardinality(Unread(c, "RUN"))'
<1>4. /\ inMbox[c] # <<>> /\ msg'[c] = Head(inMbox[c]) /\ msg'[c] \in Asked
      /\ inMbox'[c] \in Seq(Asked)
      /\ msg'[c] = "STOP" => apc = "join" /\ inMbox'[c] = <<>>
      /\ \A i \in 1 .. Len(inMbox'[c]) :
           inMbox'[c][i] = "STOP" => apc = "join" /\ i = Len(inMbox'[c])
      /\ k \in Nat
      /\ n = k + (IF msg'[c] = "RUN" THEN 1 ELSE 0)
  BY <1>1, <1>2, TakeMail DEF Serves
<1>5. /\ \A i \in Unread(c, "RUN") :
           IF i = 1 THEN msg'[c] = "RUN" ELSE i - 1 \in Unread(c, "RUN")'
      /\ \A i \in Unread(c, "UPDATE") :
           IF i = 1 THEN msg'[c] = "UPDATE" ELSE i - 1 \in Unread(c, "UPDATE")'
      /\ Unread(c, "RUN") \subseteq Nat \ {0} /\ Unread(c, "UPDATE") \subseteq Nat \ {0}
  BY <1>1, <1>2, TakeMail DEF Serves
<1>6. SUFFICES pc'[c] # "absent" /\ Serves(c)'
  BY <1>1, StepOfOwn
<1>7. CASE FirstMessage(c)
  <2>1. /\ pc[c] = "boot" /\ pc'[c] = "fetch"
        /\ outMbox' = outMbox /\ outIntr' = outIntr
        /\ sel' = sel /\ shown' = shown /\ largs' = largs
    BY <1>3, <1>7 DEF FirstMessage, ScalerTypeOK
  <2>2. msg'[c] # "UPDATE" /\ Silent(c) /\ sel[c] = 0 /\ started /\ msg[c] # "STOP"
    BY <1>2, <1>4, <2>1 DEF Serves, Mail, Unstarted
  <2>3. Mail(c)'
    BY <1>2, <1>4, <2>1 DEF Mail, Unstarted, Asked
  <2>4. Program(c)'
    BY <1>2, <1>4, <2>1, <2>2 DEF Serves, Program, Silent, Asked
  <2>5. Accounted(c)'
    BY <1>2, <1>4, <2>1 DEF Serves, Accounted, UnderWay, Answers
  <2>6. InTurn(c)'
    <3>1. SUFFICES ASSUME msg'[c] = "RUN"  PROVE  turn = k % 2
      BY <1>2, <1>4, <2>1, <2>2 DEF InTurn, Unstarted, Asked
    <3>2. turn = (1 + n) % 2 /\ n = k + 1
      BY <1>2, <1>4, <2>1, <2>2, <3>1 DEF Serves, InTurn, Unstarted
    <3>3. QED  BY <1>4, <3>2
  <2>7. InPlace(c)'
    BY <2>1 DEF InPlace, Current
  <2>8. Ended(c)'
    BY <2>1, <2>2 DEF Ended, Answers, Silent
  <2>9. QED  BY <2>1, <2>3, <2>4, <2>5, <2>6, <2>7, <2>8 DEF Serves
<1>8. CASE Wait(c)
  <2>1. /\ pc[c] = "wait" /\ msg[c] # "STOP"
        /\ pc'[c] = (CASE msg'[c] \in {"RUN", "STOP"} -> "loop"
                       [] msg'[c] = "UPDATE" -> "refetch"
                       [] OTHER -> "wait")
        /\ sel'[c] = (IF msg'[c] = "RUN" THEN 1 - sel[c] ELSE sel[c])
        /\ outMbox' = outMbox /\ outIntr' = outIntr
        /\ shown' = shown /\ largs' = largs
    BY <1>2, <1>3, <1>8 DEF Wait, Flip, ScalerTypeOK, Serves, Program
  <2>2. \/ msg'[c] \in {"RUN", "STOP"} /\ pc'[c] = "loop"
        \/ msg'[c] = "UPDATE" /\ pc'[c] = "refetch"
    BY <1>4, <2>1 DEF Asked
  <2>3. sel[c] \in {0, 1} /\ turn = (sel[c] + n) % 2 /\ shown[c].img = iargs[c].buf[sel[c]]
        /\ shown[c] \in Frames
    BY <1>2, <1>3, <2>1 DEF Serves, InTurn, Unstarted, ScalerTypeOK
  <2>4. Mail(c)'
    BY <1>2, <1>4, <2>2 DEF Mail, Unstarted, Asked
  <2>5. Program(c)'
    BY <1>2, <2>1, <2>2 DEF Serves, Program, Silent, Unstarted
  <2>6. Accounted(c)'
    BY <1>2, <1>4, <2>1, <2>2 DEF Serves, Accounted, UnderWay, Answers
  <2>7. InTurn(c)'
    <3>1. CASE msg'[c] = "RUN"
      <4>1. n = k + 1 /\ sel'[c] = 1 - sel[c] /\ pc'[c] = "loop"
        BY <1>4, <2>1, <2>2, <3>1
      <4>2. turn = (sel'[c] + k) % 2
        BY <1>4, <2>3, <4>1, Parity
      <4>3. QED  BY <1>2, <4>1, <4>2 DEF InTurn, Unstarted
    <3>2. CASE msg'[c] # "RUN"
      <4>1. n = k /\ sel'[c] = sel[c]
        BY <1>4, <2>1, <3>2
      <4>2. QED  BY <1>2, <2>1, <2>2, <2>3, <4>1 DEF InTurn, Unstarted
    <3>3. QED  BY <3>1, <3>2
  <2>8. InPlace(c)'
    <3>1. CASE msg'[c] = "STOP"
      BY <3>1 DEF InPlace
    <3>2. CASE msg'[c] = "UPDATE"
      <4>1. pc'[c] = "refetch" /\ Current(c)'
        BY <2>2, <3>2 DEF Current
      <4>2. \A i \in Unread(c, "RUN") : i - 1 \in Unread(c, "RUN")'
        BY <1>5, <3>2
      <4>3. QED  BY <1>2, <2>1, <4>1, <4>2 DEF Serves, InPlace
    <3>3. CASE msg'[c] = "RUN"
      <4>1. pc'[c] = "loop" /\ (Current(c)' <=> Current(c))
        BY <1>2, <2>1, <2>2, <3>3 DEF Current, Unstarted
      <4>2. \A i \in Unread(c, "UPDATE") : i # 1 /\ i - 1 \in Unread(c, "UPDATE")'
        BY <1>5, <3>3
      <4>3. since # "set" => Current(c)' \/ Unread(c, "UPDATE")' # {}
        BY <1>2, <2>1, <4>1, <4>2 DEF Serves, InPlace
      <4>4. ASSUME since = "RUN", ~Current(c)
            PROVE  \E i \in Unread(c, "RUN")' : \E j \in Unread(c, "UPDATE")' : j < i
        <5>1. PICK i \in Unread(c, "RUN") : \E j \in Unread(c, "UPDATE") : j < i
          BY <1>2, <2>1, <4>4 DEF Serves, InPlace
        <5>2. PICK j \in Unread(c, "UPDATE") : j < i
          BY <5>1
        <5>3. i \in Nat /\ j \in Nat /\ j # 0 /\ i # 1 /\ i - 1 \in Unread(c, "RUN")'
          BY <1>5, <5>2
        <5>4. j - 1 \in Unread(c, "UPDATE")' /\ j - 1 < i - 1
          BY <4>2, <5>2, <5>3
        <5>5. QED  BY <5>3, <5>4
      <4>5. QED  BY <1>2, <4>1, <4>3, <4>4 DEF InPlace
    <3>4. QED  BY <2>2, <3>1, <3>2, <3>3
  <2>9. Ended(c)'
    <3>1. SUFFICES ASSUME msg'[c] = "STOP", owed = 1, Answers(c) = 1
                   PROVE  /\ shown[c].img = iargs[c].buf[turn]
                          /\ since = "RUN" => shown[c].place = iargs[c].place
      BY <1>2, <2>1 DEF Ended, Answers
    <3>2. n = 0
      <4>1. iargs[c].form # "SOFT"
        BY <1>2, <3>1 DEF Serves, Program, Silent, Answers
      <4>2. UnderWay(c) = 0
        BY <2>1 DEF UnderWay
      <4>3. owed = n + UnderWay(c) + Answers(c)
        BY <1>2, <4>1 DEF Serves, Accounted
      <4>4. n \in Nat
        BY <1>4
      <4>5. QED  BY <3>1, <4>2, <4>3, <4>4
    <3>3. turn = sel[c]
      BY <2>3, <3>2
    <3>4. Unread(c, "RUN") = {}
      BY <1>2, <3>2, CountType DEF Serves, Mail, Asked, Count, At, Unread
    <3>5. since = "RUN" => shown[c].place = iargs[c].place
      BY <1>2, <2>1, <3>4 DEF Serves, InPlace
    <3>6. QED  BY <2>3, <3>3, <3>5
  <2>10. QED  BY <2>2, <2>4, <2>5, <2>6, <2>7, <2>8, <2>9 DEF Serves
<1>9. QED  BY <1>7, <1>8

-----------------------------------------------------------------------------
(* The caller's steps.                                                     *)
LEMMA OpenStep ==
  ASSUME AInv, NEW c \in Contexts, NEW place \in Places, Open(c, place)
  PROVE  AInv'
<1> USE DEF ScalerTypeOK
<1>1. /\ ctx = Unset /\ apc = "idle" /\ pc[c] = "absent"
      /\ apc' = "form" /\ ctx' = c /\ started' = FALSE /\ owed' = 0 /\ turn' = 1
      /\ since' = "UPDATE" /\ order' = order
      /\ pc' = [pc EXCEPT ![c] = "created"] /\ shown' = [shown EXCEPT ![c] = Unset]
      /\ UNCHANGED <<inMbox, outMbox, outIntr, msg, largs, sel, first, filter>>
  BY DEF Open, Create
<1>2. ApiTypeOK
  BY DEF AInv
<1> DEFINE args == [srcW |-> SrcW, place |-> place, form |-> "INTR",
                    buf |-> [i \in {0, 1} |-> IF i = 0 THEN Front ELSE Back]]
<1>3. iargs' = [iargs EXCEPT ![c] = args]
  BY DEF Open, Create
<1>4. args \in Args /\ args.form = "INTR"
  BY ApiAssumption, ScalerAssumption DEF Args, Forms
<1> HIDE DEF args
<1>5. iargs'[c] = args /\ pc'[c] = "created"
  BY <1>1, <1>2, <1>3 DEF ApiTypeOK
<1>6. /\ \A d \in Contexts : pc[d] = "absent"
      /\ Blank(c)
  BY <1>1, ApiAssumption DEF AInv, Alone, Blank
<1>7. ApiTypeOK'
  <2>1. ScalerTypeOK'
    BY <1>1, <1>2, <1>3, <1>4 DEF ApiTypeOK, PCs
  <2>2. owed' \in 0 .. Ahead
    BY <1>1, ApiAssumption
  <2>3. QED  BY <1>1, <1>2, <2>1, <2>2 DEF ApiTypeOK
<1>8. Caller'
  BY <1>1, <1>4, <1>5, ApiAssumption DEF Caller
<1>9. Alone'
  BY <1>1, <1>2, <1>6 DEF AInv, Alone, ApiTypeOK, Blank, Silent
<1>10. Serves(c)'
  <2>1. Cardinality(Unread(c, "RUN"))' = 0
    <3>1. Unread(c, "RUN")' = {}
      BY <1>1, <1>6 DEF Unread, Blank
    <3>2. QED  BY <3>1, FS_EmptySet
  <2>2. Mail(c)'
    BY <1>1, <1>5, <1>6 DEF Mail, Blank, Silent
  <2>3. Program(c)'
    BY <1>1, <1>4, <1>5 DEF Program, Unstarted
  <2>4. Accounted(c)'
    <3>1. UnderWay(c)' = 0 /\ Answers(c)' = 0
      BY <1>1, <1>5, <1>6 DEF UnderWay, Answers, Blank, Silent
    <3>2. QED  BY <1>1, <2>1, <3>1 DEF Accounted
  <2>5. InTurn(c)'
    BY <1>1, <1>5, <2>1 DEF InTurn, Unstarted
  <2>6. InPlace(c)'
    BY <1>1, <1>5 DEF InPlace, Current, Unstarted
  <2>7. Ended(c)'
    BY <1>1 DEF Ended
  <2>8. QED  BY <2>2, <2>3, <2>4, <2>5, <2>6, <2>7 DEF Serves
<1>11. QED  BY <1>1, <1>7, <1>8, <1>9, <1>10 DEF AInv

(* The setters write into the arguments of the caller's context.           *)
LEMMA SetStep ==
  ASSUME AInv, ctx # Unset, NEW args \in Args, SetArgs(ctx, args),
         args.buf = iargs[ctx].buf,
         args.form = iargs[ctx].form \/ pc[ctx] \in Unstarted,
         since' = "set" \/ (since' = since /\ args.place = iargs[ctx].place),
         apc' = "idle", apc \in {"idle", "form"},
         UNCHANGED <<ctx, order, started, owed, turn>>,
         args.form # "SOFT" => iargs[ctx].form # "SOFT"
  PROVE  AInv'
<1> DEFINE c == ctx
<1>1. c \in Contexts /\ Serves(c) /\ ApiTypeOK
  BY DEF AInv, ApiTypeOK
<1>2. /\ iargs' = [iargs EXCEPT ![c] = args] /\ iargs'[c] = args
      /\ UNCHANGED <<inMbox, outMbox, outIntr, pc, msg, largs, sel, first, filter, shown>>
  BY <1>1 DEF SetArgs, ApiTypeOK, ScalerTypeOK
<1>3. ApiTypeOK'
  BY <1>1, <1>2 DEF ApiTypeOK, ScalerTypeOK
<1>4. Caller' /\ Alone'
  BY <1>2 DEF AInv, Caller, Alone, Blank, Silent
<1>5. /\ Unread(c, "RUN")' = Unread(c, "RUN")
      /\ Unread(c, "UPDATE")' = Unread(c, "UPDATE")
      /\ Cardinality(Unread(c, "RUN"))' = Cardinality(Unread(c, "RUN"))
  BY <1>2 DEF Unread
<1>6. msg[c] # "STOP"
  BY <1>1 DEF Serves, Mail
<1>7. Mail(c)'
  BY <1>1, <1>2 DEF Serves, Mail, Silent
<1>8. Program(c)'
  BY <1>1, <1>2 DEF Serves, Program, Mail, Unstarted, Silent
<1>9. Accounted(c)'
  BY <1>1, <1>2, <1>5 DEF Serves, Accounted, UnderWay, Answers
<1>10. InTurn(c)'
  BY <1>1, <1>2, <1>5 DEF Serves, InTurn
<1>11. InPlace(c)'
  BY <1>1, <1>2, <1>5 DEF Serves, InPlace, Current
<1>12. Ended(c)'
  BY <1>2, <1>6 DEF Ended
<1>13. QED
  BY <1>3, <1>4, <1>7, <1>8, <1>9, <1>10, <1>11, <1>12 DEF AInv, Serves

(* The setters, which leave form, buffers and mailboxes alone.             *)
LEMMA SetSteps ==
  ASSUME AInv,
         \/ \E form \in AskedForms : ChooseForm(form)
         \/ \E place \in Places : SetPlace(place)
  PROVE  AInv'
<1>1. ASSUME NEW form \in AskedForms, ChooseForm(form)  PROVE  AInv'
  <2> DEFINE args == [iargs[ctx] EXCEPT !.form = form]
  <2>1. ctx # Unset /\ Serves(ctx) /\ ~started /\ iargs[ctx].form = "INTR"
    BY <1>1 DEF ChooseForm, AInv, Caller
  <2>2. pc[ctx] \in Unstarted
    BY <2>1 DEF Serves, Program
  <2>3. /\ args \in Args /\ args.buf = iargs[ctx].buf
        /\ args.place = iargs[ctx].place
    BY <2>1, ApiAssumption DEF Serves, Program, Args
  <2>4. SetArgs(ctx, args)
    BY <1>1 DEF ChooseForm
  <2> HIDE DEF args
  <2>5. QED  BY <1>1, <2>1, <2>2, <2>3, <2>4, SetStep DEF ChooseForm
<1>2. ASSUME NEW place \in Places, SetPlace(place)  PROVE  AInv'
  <2> DEFINE args == [iargs[ctx] EXCEPT !.place = place]
  <2>1. ctx # Unset /\ Serves(ctx)
    BY <1>2 DEF SetPlace, AInv
  <2>2. /\ args \in Args /\ args.buf = iargs[ctx].buf
        /\ args.form = iargs[ctx].form
    BY <2>1 DEF Serves, Program, Args
  <2>3. SetArgs(ctx, args)
    BY <1>2 DEF SetPlace
  <2> HIDE DEF args
  <2>4. /\ since' = "set" /\ apc = "idle" /\ apc' = "idle"
        /\ UNCHANGED <<ctx, order, started, owed, turn>>
    BY <1>2 DEF SetPlace
  <2>5. /\ args.form = iargs[ctx].form \/ pc[ctx] \in Unstarted
        /\ since' = "set" \/ (since' = since /\ args.place = iargs[ctx].place)
        /\ apc \in {"idle", "form"}
        /\ args.form # "SOFT" => iargs[ctx].form # "SOFT"
    BY <2>2, <2>4
  <2>6. QED  BY <2>1, <2>2, <2>3, <2>4, <2>5, SetStep
<1>3. QED  BY <1>1, <1>2

(* Entering a call, and the return of pthread_join, change nothing but     *)
(* where the caller is.                                                    *)
LEMMA EnterSteps ==
  ASSUME AInv, (\E m \in {"RUN", "UPDATE", "STOP"} : CallSend(m)) \/ CallReceive \/ Join
  PROVE  AInv'
<1>1. /\ UNCHANGED scalerVars /\ UNCHANGED <<started, owed, turn, since>>
      /\ order' \in {"RUN", "UPDATE", "STOP"}
  BY DEF CallSend, CallReceive, Join, AInv, ApiTypeOK
<1>2. /\ UNCHANGED <<iargs, inMbox, outMbox, outIntr, pc, msg, largs, sel, first, filter, shown>>
  BY <1>1 DEF scalerVars
<1>3. CASE \E m \in {"RUN", "UPDATE", "STOP"} : CallSend(m)
  <2>1. PICK m \in {"RUN", "UPDATE", "STOP"} : CallSend(m)
    BY <1>3
  <2>2. /\ apc = "idle" /\ ctx # Unset /\ apc' = "send" /\ order' = m /\ ctx' = ctx
        /\ m = "RUN" => owed < Ahead
        /\ m = "UPDATE" => started
    BY <2>1 DEF CallSend
  <2>3. ApiTypeOK' /\ Caller' /\ Alone'
    BY <1>1, <1>2, <2>2
       DEF AInv, ApiTypeOK, ScalerTypeOK, Caller, Alone, Blank, Silent
  <2>4. Serves(ctx)'
    BY <1>1, <1>2, <2>2
       DEF AInv, Serves, Mail, Program, Accounted, InTurn, InPlace, Ended, Unread,
           UnderWay, Answers, Current, Silent
  <2>5. QED  BY <2>3, <2>4 DEF AInv
<1>4. CASE CallReceive
  <2>1. /\ apc = "idle" /\ ctx # Unset /\ apc' = "receive" /\ order' = order /\ ctx' = ctx
        /\ owed > 0
    BY <1>4 DEF CallReceive
  <2>2. ApiTypeOK' /\ Caller' /\ Alone'
    BY <1>1, <1>2, <2>1
       DEF AInv, ApiTypeOK, ScalerTypeOK, Caller, Alone, Blank, Silent
  <2>3. Serves(ctx)'
    BY <1>1, <1>2, <2>1
       DEF AInv, Serves, Mail, Program, Accounted, InTurn, InPlace, Ended, Unread,
           UnderWay, Answers, Current, Silent
  <2>4. QED  BY <2>2, <2>3 DEF AInv
<1>5. CASE Join
  <2>1. /\ apc = "join" /\ pc[ctx] = "absent" /\ apc' = "idle" /\ ctx' = Unset
        /\ order' = order
    BY <1>5 DEF Join, Live
  <2>2. ApiTypeOK' /\ Caller'
    BY <1>1, <1>2, <2>1 DEF AInv, ApiTypeOK, ScalerTypeOK, Caller
  <2>3. Alone'
    BY <1>1, <1>2, <2>1 DEF AInv, Alone, Blank, Silent
  <2>4. QED  BY <2>1, <2>2, <2>3 DEF AInv
<1>6. QED  BY <1>3, <1>4, <1>5

(* yuvscsc_receive_message and its polling form.                           *)
LEMMA ReceiveStep ==
  ASSUME AInv, DoReceive
  PROVE  AInv'
<1> DEFINE c == ctx
<1>1. /\ apc = "receive" /\ apc' = "idle" /\ owed' = owed - 1
      /\ UNCHANGED <<ctx, order, started, turn, since>>
  BY DEF DoReceive
<1>2. c # Unset /\ c \in Contexts /\ Serves(c) /\ ApiTypeOK /\ owed > 0
  BY <1>1 DEF AInv, Caller, ApiTypeOK
<1>3. /\ UNCHANGED <<iargs, inMbox, pc, msg, largs, sel, first, filter, shown>>
      /\ \/ /\ outIntr[c] = "RDY" /\ outMbox' = outMbox
            /\ outIntr' = [outIntr EXCEPT ![c] = "empty"]
         \/ /\ outMbox[c] = "RDY" /\ outIntr' = outIntr
            /\ outMbox' = [outMbox EXCEPT ![c] = "empty"]
  BY DEF DoReceive, ReceiveIntr, ReceiveHard
<1>4. /\ Answers(c)' = Answers(c) - 1 /\ Answers(c) \in Nat
      /\ \A d \in Contexts : d # c => outMbox'[d] = outMbox[d] /\ outIntr'[d] = outIntr[d]
      /\ outMbox[c] = "empty" => outMbox'[c] = "empty"
      /\ outIntr[c] = "empty" => outIntr'[c] = "empty"
      /\ ~Silent(c)
  <2>1. /\ outMbox = [d \in Contexts |-> outMbox[d]]
        /\ outIntr = [d \in Contexts |-> outIntr[d]]
    BY <1>2 DEF ApiTypeOK, ScalerTypeOK
  <2>2. CASE /\ outIntr[c] = "RDY" /\ outMbox' = outMbox
             /\ outIntr' = [outIntr EXCEPT ![c] = "empty"]
    <3>1. outIntr'[c] = "empty" /\ \A d \in Contexts : d # c => outIntr'[d] = outIntr[d]
      BY <1>2, <2>1, <2>2
    <3>2. QED  BY <2>2, <3>1, <1>1 DEF Answers, Silent
  <2>3. CASE /\ outMbox[c] = "RDY" /\ outIntr' = outIntr
             /\ outMbox' = [outMbox EXCEPT ![c] = "empty"]
    <3>1. outMbox'[c] = "empty" /\ \A d \in Contexts : d # c => outMbox'[d] = outMbox[d]
      BY <1>2, <2>1, <2>3
    <3>2. QED  BY <2>3, <3>1, <1>1 DEF Answers, Silent
  <2>4. QED  BY <1>3, <2>2, <2>3
<1>5. ApiTypeOK'
  <2>1. ScalerTypeOK'
    BY <1>2, <1>3 DEF ApiTypeOK, ScalerTypeOK, Outbound
  <2>2. owed' \in 0 .. Ahead
    BY <1>1, <1>2, ApiAssumption DEF ApiTypeOK
  <2>3. QED  BY <1>1, <1>2, <2>1, <2>2 DEF ApiTypeOK
<1>6. Caller' /\ Alone'
  BY <1>1, <1>2, <1>3, <1>4 DEF AInv, Caller, Alone, Blank, Silent
<1>7. /\ Unread(c, "RUN")' = Unread(c, "RUN")
      /\ Unread(c, "UPDATE")' = Unread(c, "UPDATE")
      /\ Cardinality(Unread(c, "RUN"))' = Cardinality(Unread(c, "RUN"))
  BY <1>1, <1>3 DEF Unread
<1>8. msg[c] # "STOP"
  BY <1>1, <1>2 DEF Serves, Mail
<1>9. Mail(c)'
  BY <1>1, <1>2, <1>3, <1>4 DEF Serves, Mail, Silent
<1>10. Program(c)'
  BY <1>1, <1>2, <1>3, <1>4 DEF Serves, Program, Silent
<1>11. Accounted(c)'
  <2>1. SUFFICES ASSUME pc[c] # "absent", iargs[c].form # "SOFT"
                 PROVE  owed - 1 = Cardinality(Unread(c, "RUN")) + UnderWay(c)
                                   + (Answers(c) - 1)
    BY <1>1, <1>3, <1>4, <1>7 DEF Accounted, UnderWay
  <2>2. owed = Cardinality(Unread(c, "RUN")) + UnderWay(c) + Answers(c)
    BY <1>2, <2>1 DEF Serves, Accounted
  <2>3. Cardinality(Unread(c, "RUN")) \in Nat /\ UnderWay(c) \in Nat
    BY <1>2, CountType DEF Serves, Mail, Asked, Count, At, Unread, UnderWay
  <2>4. QED  BY <1>4, <2>2, <2>3
<1>12. InTurn(c)'
  BY <1>1, <1>2, <1>3, <1>7 DEF Serves, InTurn
<1>13. InPlace(c)'
  BY <1>1, <1>2, <1>3, <1>7 DEF Serves, InPlace, Current
<1>14. Ended(c)'
  BY <1>1, <1>3, <1>8 DEF Ended
<1>15. QED
  BY <1>1, <1>5, <1>6, <1>9, <1>10, <1>11, <1>12, <1>13, <1>14 DEF AInv, Serves

(* yuvscsc_send_message.                                                   *)
LEMMA SendStep ==
  ASSUME AInv, DoSend
  PROVE  AInv'
<1> DEFINE c == ctx
           q == inMbox[c]
<1>1. /\ apc = "send" /\ apc' = (IF order = "STOP" THEN "join" ELSE "idle")
      /\ started' = TRUE /\ ctx' = c /\ order' = order
      /\ IF order = "RUN" THEN owed' = owed + 1 /\ turn' = 1 - turn
                          ELSE owed' = owed /\ turn' = turn
      /\ inMbox' = [inMbox EXCEPT ![c] = Append(q, order)]
      /\ UNCHANGED <<iargs, outMbox, outIntr, pc, msg, largs, sel, first, filter, shown>>
  BY DEF DoSend, Send, Flip
<1>2. since' = (CASE order = "UPDATE" /\ since = "set" -> "UPDATE"
                  [] order = "RUN" /\ since = "UPDATE" -> "RUN"
                  [] OTHER -> since)
  BY DEF DoSend
<1>3. c # Unset /\ c \in Contexts /\ Serves(c) /\ ApiTypeOK
  BY <1>1 DEF AInv, Caller, ApiTypeOK
<1>4. /\ order \in Asked /\ owed \in Nat /\ turn \in {0, 1} /\ pc[c] # "absent"
      /\ msg[c] # "STOP" /\ since \in {"set", "UPDATE", "RUN"}
      /\ order = "UPDATE" => started
      /\ order = "RUN" => owed < Ahead
  BY <1>1, <1>3, ApiAssumption DEF AInv, Caller, Serves, Program, Mail, ApiTypeOK, Asked
<1>5. q \in Seq(Asked)
  BY <1>3 DEF Serves, Mail, Asked
<1>6. inMbox'[c] = Append(q, order) /\ \A d \in Contexts : d # c => inMbox'[d] = inMbox[d]
  BY <1>1, <1>3 DEF ApiTypeOK, ScalerTypeOK
<1> DEFINE n == Cardinality(Unread(c, "RUN"))
<1>7. /\ n \in Nat
      /\ Cardinality(Unread(c, "RUN"))' = n + (IF order = "RUN" THEN 1 ELSE 0)
  <2>1. Unread(c, "RUN") = At(q, "RUN") /\ Unread(c, "RUN")' = At(Append(q, order), "RUN")
    BY <1>1, <1>6 DEF Unread, At
  <2>2. QED  BY <1>4, <1>5, <2>1, SendCount, CountType DEF Count
<1>8. /\ Len(q) \in Nat /\ Len(q) + 1 \in Nat
      /\ \A m \in Asked : /\ Unread(c, m)' = Unread(c, m) \cup (IF order = m THEN {Len(q) + 1} ELSE {})
                          /\ Unread(c, m) \subseteq 1 .. Len(q)
  <2>1. \A m \in Asked : Unread(c, m) = At(q, m) /\ Unread(c, m)' = At(Append(q, order), m)
    BY <1>1, <1>6 DEF Unread, At
  <2>2. \A m \in Asked : At(Append(q, order), m) = At(q, m) \cup (IF order = m THEN {Len(q) + 1} ELSE {})
    BY <1>4, <1>5, SendCount
  <2>3. Len(q) \in Nat /\ \A m : At(q, m) \subseteq 1 .. Len(q)
    BY <1>5 DEF At
  <2>4. QED  BY <2>1, <2>2, <2>3
<1>9. ApiTypeOK'
  <2>1. Append(q, order) \in Seq(Messages)
    BY <1>3, <1>4 DEF ApiTypeOK, ScalerTypeOK, Messages, Asked
  <2>2. ScalerTypeOK'
    BY <1>1, <1>3, <2>1 DEF ApiTypeOK, ScalerTypeOK
  <2>3. owed' \in 0 .. Ahead
    BY <1>1, <1>3, <1>4, ApiAssumption DEF ApiTypeOK
  <2>4. turn' \in {0, 1}
    BY <1>1, <1>4
  <2>5. since' \in {"set", "UPDATE", "RUN"}
    BY <1>2, <1>4
  <2>6. QED  BY <1>1, <1>3, <2>2, <2>3, <2>4, <2>5 DEF ApiTypeOK
<1>10. Caller' /\ Alone'
  BY <1>1, <1>3, <1>4, <1>6 DEF AInv, Caller, Alone, Blank, Silent
<1>11. Mail(c)'
  <2>1. /\ Append(q, order) \in Seq(Asked) /\ Append(q, order) # <<>>
        /\ q # <<>> => Head(Append(q, order)) = Head(q)
        /\ q = <<>> => Head(Append(q, order)) = order
    BY <1>4, <1>5, SendCount
  <2>2. ASSUME NEW i \in 1 .. Len(Append(q, order)), Append(q, order)[i] = "STOP"
        PROVE  apc' = "join" /\ i = Len(Append(q, order))
    <3>1. /\ Len(Append(q, order)) = Len(q) + 1 /\ Append(q, order)[Len(q) + 1] = order
          /\ \A j \in 1 .. Len(q) : Append(q, order)[j] = q[j]
      BY <1>4, <1>5
    <3>2. \A j \in 1 .. Len(q) : q[j] # "STOP"
      BY <1>1, <1>3 DEF Serves, Mail
    <3>3. i = Len(q) + 1
      BY <1>8, <2>2, <3>1, <3>2
    <3>4. QED  BY <1>1, <2>2, <3>1, <3>3
  <2>3. pc[c] \in Unstarted =>
          /\ Head(Append(q, order)) # "UPDATE"
          /\ Silent(c) /\ sel[c] = 0
    BY <1>3, <1>4, <2>1 DEF Serves, Mail
  <2>4. QED  BY <1>1, <1>4, <1>6, <2>1, <2>2, <2>3 DEF Mail, Silent, Asked
<1>12. Program(c)'
  BY <1>1, <1>3, <1>4 DEF Serves, Program, Silent
<1>13. Accounted(c)'
  <2>1. SUFFICES ASSUME iargs[c].form # "SOFT"
                 PROVE  owed' = n + (IF order = "RUN" THEN 1 ELSE 0) + UnderWay(c) + Answers(c)
    BY <1>1, <1>7 DEF Accounted, UnderWay, Answers
  <2>2. owed = n + UnderWay(c) + Answers(c)
    BY <1>3, <1>4, <2>1 DEF Serves, Accounted
  <2>3. UnderWay(c) \in Nat /\ Answers(c) \in Nat
    BY DEF UnderWay, Answers
  <2>4. CASE order = "RUN"
    BY <1>1, <1>7, <2>2, <2>3, <2>4
  <2>5. CASE order # "RUN"
    BY <1>1, <1>7, <2>2, <2>3, <2>5
  <2>6. QED  BY <2>4, <2>5
<1>14. InTurn(c)'
  <2>1. sel[c] \in {0, 1}
    BY <1>3 DEF ApiTypeOK, ScalerTypeOK
  <2> DEFINE base == IF pc[c] \in Unstarted THEN 1 ELSE sel[c]
  <2>2. base \in {0, 1}
    BY <2>1
  <2>3. turn = (base + n) % 2
    BY <1>3, <1>4 DEF Serves, InTurn
  <2>4. turn' = (base + (n + (IF order = "RUN" THEN 1 ELSE 0))) % 2
    <3>1. CASE order = "RUN"
      <4>1. turn' = 1 - turn
        BY <1>1, <3>1
      <4>2. (base + (n + 1)) % 2 = 1 - ((base + n) % 2)
        BY <1>7, <2>2, Parity
      <4> HIDE DEF base, n
      <4>3. QED  BY <2>3, <3>1, <4>1, <4>2
    <3>2. CASE order # "RUN"
      BY <1>1, <1>7, <2>3, <3>2
    <3>3. QED  BY <3>1, <3>2
  <2>5. pc[c] \in {"post", "wait", "refetch"} =>
          shown[c] \in Frames /\ shown[c].img = iargs[c].buf[sel[c]]
    BY <1>3 DEF Serves, InTurn
  <2>6. QED  BY <1>1, <1>7, <2>4, <2>5 DEF InTurn
<1>15. InPlace(c)'
  <2>1. /\ Unread(c, "RUN") \subseteq Unread(c, "RUN")'
        /\ Unread(c, "UPDATE") \subseteq Unread(c, "UPDATE")'
        /\ order = "RUN" => Len(q) + 1 \in Unread(c, "RUN")'
        /\ order = "UPDATE" => Len(q) + 1 \in Unread(c, "UPDATE")'
        /\ \A j \in Unread(c, "UPDATE") : j < Len(q) + 1
    BY <1>8 DEF Asked
  <2>2. Current(c)' <=> Current(c)
    BY <1>1 DEF Current
  <2>3. since' # "set" => Current(c) \/ Unread(c, "UPDATE")' # {}
    <3>1. since # "set" => Current(c) \/ Unread(c, "UPDATE") # {}
      BY <1>3, <1>4 DEF Serves, InPlace
    <3>2. since' # "set" => since # "set" \/ order = "UPDATE"
      BY <1>2, <1>4
    <3>3. QED  BY <2>1, <3>1, <3>2
  <2>4. ASSUME since' = "RUN"
        PROVE  \/ \E i \in Unread(c, "RUN")' :
                    Current(c) \/ \E j \in Unread(c, "UPDATE")' : j < i
               \/ /\ Current(c)
                  /\ \/ pc[c] \in {"fetch", "loop", "frame"}
                     \/ pc[c] \in {"post", "wait", "refetch"} /\ shown[c].place = iargs[c].place
    <3>1. CASE since = "RUN"
      BY <1>3, <1>4, <2>1, <3>1 DEF Serves, InPlace
    <3>2. CASE since # "RUN"
      <4>1. order = "RUN" /\ since = "UPDATE"
        BY <1>2, <1>4, <2>4, <3>2
      <4>2. Current(c) \/ Unread(c, "UPDATE") # {}
        BY <1>3, <1>4, <4>1 DEF Serves, InPlace
      <4>3. QED  BY <2>1, <4>1, <4>2
    <3>3. QED  BY <3>1, <3>2
  <2>5. QED  BY <1>1, <2>2, <2>3, <2>4 DEF InPlace
<1>16. Ended(c)'
  BY <1>1, <1>4 DEF Ended
<1>17. QED
  BY <1>1, <1>9, <1>10, <1>11, <1>12, <1>13, <1>14, <1>15, <1>16 DEF AInv, Serves

-----------------------------------------------------------------------------
(* With no context there is nothing to account for.                        *)
LEMMA InitAInv == Init => AInv
<1> SUFFICES ASSUME Init  PROVE  AInv
  OBVIOUS
<1>1. /\ apc = "idle" /\ ctx = Unset /\ order = "RUN" /\ started = FALSE
      /\ owed = 0 /\ turn = 1 /\ since = "set" /\ ScalerInit
  BY DEF Init
<1>2. ScalerTypeOK
  BY <1>1 DEF ScalerInit, ScalerTypeOK, PCs, Outbound, Messages
<1>3. ApiTypeOK
  <2>1. 0 \in 0 .. Ahead
    BY ApiAssumption
  <2>2. QED  BY <1>1, <1>2, <2>1 DEF ApiTypeOK
<1>4. Caller /\ Alone
  BY <1>1 DEF Caller, Alone, Blank, Silent, ScalerInit
<1>5. QED  BY <1>1, <1>3, <1>4 DEF AInv

(* Every call of the library and every step of the program keeps it.       *)
LEMMA StepAInv == AInv /\ [Next]_vars => AInv'
<1> SUFFICES ASSUME AInv, [Next]_vars  PROVE  AInv'
  OBVIOUS
<1>1. CASE Call
  BY <1>1, OpenStep, SetSteps, EnterSteps DEF Call
<1>2. CASE Continue
  BY <1>2, SetSteps, SendStep, ReceiveStep, EnterSteps DEF Continue
<1>3. CASE Spu
  BY <1>3, ConvertSteps, MessageSteps DEF Spu, SpuStep
<1>4. CASE UNCHANGED vars
  BY <1>4 DEF vars, scalerVars, apiVars, AInv, ApiTypeOK, ScalerTypeOK, Caller, Alone,
              Blank, Silent, Serves, Mail, Program, Accounted, InTurn, InPlace, Ended,
              Unread, UnderWay, Answers, Current
<1>5. QED  BY <1>1, <1>2, <1>3, <1>4 DEF Next

(* What caller and program hold fits together at every moment: messages,   *)
(* arguments, RUNs and answers, buffers and sizes.                         *)
THEOREM ServiceHolds == Spec => []AInv
BY InitAInv, StepAInv, PTL DEF Spec

(* No RUN is lost and none is answered twice: in every form that answers,  *)
(* what the caller is owed is unread, being converted or in its mailbox.   *)
THEOREM NoAnswerLost == Spec => []AnswersAccounted
<1>1. AInv => AnswersAccounted
  BY DEF AInv, Serves, Program, Accounted, AnswersAccounted
<1>2. QED  BY <1>1, ServiceHolds, PTL

(* When the answer of its last RUN has come, the caller finds converted    *)
(* the buffer that RUN was for, with the sizes of its last UPDATE.         *)
THEOREM LastRunIsShown == Spec => []LastRunShown
<1>1. AInv => LastRunShown
  <2>1. SUFFICES ASSUME AInv, ctx # Unset, owed = 1, Answers(ctx) = 1
                 PROVE  /\ shown[ctx].img = iargs[ctx].buf[turn]
                        /\ since = "RUN" => shown[ctx].place = iargs[ctx].place
    BY DEF LastRunShown
  <2> DEFINE c == ctx
  <2>2. c \in Contexts /\ Serves(c) /\ sel[c] \in {0, 1} /\ pc[c] \in PCs
    BY <2>1 DEF AInv, ApiTypeOK, ScalerTypeOK
  <2>3. ~Silent(c)
    BY <2>1 DEF Silent, Answers
  <2>4. CASE msg[c] = "STOP"
    BY <2>1, <2>2, <2>4 DEF Serves, Ended
  <2>5. CASE msg[c] # "STOP"
    <3>1. iargs[c].form # "SOFT" /\ pc[c] \notin {"fetch", "exited"} \cup Unstarted
      BY <2>2, <2>3, <2>5 DEF Serves, Program, Mail
    <3>2. pc[c] # "absent"
      BY <2>1, <2>2, <2>3 DEF AInv, Alone, Blank
    <3>3. owed = Cardinality(Unread(c, "RUN")) + UnderWay(c) + Answers(c)
      BY <2>2, <3>1, <3>2 DEF Serves, Accounted
    <3>4. /\ Cardinality(Unread(c, "RUN")) \in Nat
          /\ Cardinality(Unread(c, "RUN")) = 0 <=> Unread(c, "RUN") = {}
      BY <2>2, CountType DEF Serves, Mail, Asked, Count, At, Unread
    <3>5. UnderWay(c) \in {0, 1}
      BY DEF UnderWay
    <3>6. Cardinality(Unread(c, "RUN")) = 0 /\ UnderWay(c) = 0
      BY <2>1, <3>3, <3>4, <3>5
    <3>7. pc[c] \in {"wait", "refetch"}
      BY <2>2, <2>5, <3>1, <3>2, <3>6 DEF Serves, Program, UnderWay, PCs, Unstarted
    <3>8. turn = sel[c] /\ shown[c].img = iargs[c].buf[sel[c]]
      <4>1. turn = (sel[c] + 0) % 2
        BY <2>2, <2>5, <3>2, <3>6, <3>7 DEF Serves, InTurn, Unstarted
      <4>2. QED  BY <2>2, <3>7, <4>1 DEF Serves, InTurn
    <3>9. since = "RUN" => shown[c].place = iargs[c].place
      BY <2>2, <2>5, <3>2, <3>4, <3>6, <3>7 DEF Serves, InPlace
    <3>10. QED  BY <3>8, <3>9
  <2>6. QED  BY <2>4, <2>5
<1>2. QED  BY <1>1, ServiceHolds, PTL

-----------------------------------------------------------------------------
(* Progress: the safety half of ApiCallsReturn.                            *)

(* The guards of Continue.                                                 *)
CallerCan ==
  \/ apc = "form"
  \/ apc = "send" /\ Len(inMbox[ctx]) < InMboxSize
  \/ /\ apc = "receive"
     /\ IF iargs[ctx].form = "INTR" THEN outIntr[ctx] = "RDY" ELSE outMbox[ctx] = "RDY"
  \/ apc = "join" /\ ~Live(ctx)

(* In a call, waiting for room, for an answer or for the thread's end.     *)
Blocked == apc # "idle" /\ ~CallerCan

NeverStuck ==
  Blocked /\ Answering =>
    StepsLeft(ctx) \in 0 .. 22 /\ (CanStep(ctx) \/ pc[ctx] = "failed")

WaitsShorten ==
  [][Blocked /\ Answering =>
       UNCHANGED apiVars /\ StepsLeft(ctx)' < StepsLeft(ctx)]_vars

(* UPDATE and STOP are sent with at most one answer owed.                  *)
Brief == apc = "send" /\ order # "RUN" => owed <= 1

(* Answers are in the mailbox of the form asked for.                       *)
FormFits(c) ==
  /\ iargs[c].form # "INTR" => outIntr[c] = "empty"
  /\ iargs[c].form # "HARD" => outMbox[c] = "empty"

(* So that before an UPDATE or STOP there is at most one RUN that was not  *)
(* answered when it was sent: under way or answered now, or unread.        *)
HeldBack(c) ==
  iargs[c].form # "SOFT" =>
    \A j \in 1 .. Len(inMbox[c]) : inMbox[c][j] # "RUN" =>
      /\ UnderWay(c) + Answers(c) <= 1
      /\ \A i \in Unread(c, "RUN") : i < j => UnderWay(c) + Answers(c) = 0
      /\ \A i, k \in Unread(c, "RUN") : i < j /\ k < j => i = k

(* A STOP that was sent is the last message, or was read.                  *)
StopSent(c) ==
  apc = "join" /\ pc[c] # "absent" =>
    msg[c] = "STOP" \/ (inMbox[c] # <<>> /\ inMbox[c][Len(inMbox[c])] = "STOP")

PInv ==
  /\ Brief /\ MailboxHolds
  /\ ctx # Unset => FormFits(ctx) /\ HeldBack(ctx) /\ StopSent(ctx)

LEMMA HeldKept ==
  ASSUME NEW c, HeldBack(c), inMbox'[c] = inMbox[c],
         iargs'[c].form = "SOFT" <=> iargs[c].form = "SOFT",
         UnderWay(c) \in {0, 1}, Answers(c) \in 0 .. 2,
         UnderWay(c)' \in {0, 1}, Answers(c)' \in 0 .. 2,
         UnderWay(c)' + Answers(c)' <= UnderWay(c) + Answers(c)
  PROVE  HeldBack(c)'
<1>1. Unread(c, "RUN")' = Unread(c, "RUN")
  BY SameMail
<1> DEFINE s == UnderWay(c) + Answers(c)
           t == UnderWay(c)' + Answers(c)'
<1>2. (s <= 1 => t <= 1) /\ (s = 0 => t = 0)
  OBVIOUS
<1>3. QED  BY <1>1, <1>2 DEF HeldBack

(* How many answers there are, and whether a RUN is under way.             *)
LEMMA SumType ==
  ASSUME NEW c
  PROVE  /\ UnderWay(c) \in {0, 1} /\ Answers(c) \in 0 .. 2
         /\ UnderWay(c)' \in {0, 1} /\ Answers(c)' \in 0 .. 2
BY DEF UnderWay, Answers

(* Steps of the program that read no message.                              *)
LEMMA ConvertHeld ==
  ASSUME AInv, PInv, NEW c \in Contexts, UNCHANGED apiVars,
         \/ Load(c) \/ Fetch(c) \/ BeginFrame(c) \/ Leave(c) \/ Render(c)
         \/ Post(c) \/ Refetch(c) \/ DestroyContext(c)
  PROVE  FormFits(c)' /\ HeldBack(c)' /\ StopSent(c)'
<1>1. SpuStep(c)
  BY DEF SpuStep
<1>2. /\ c = ctx /\ c # Unset /\ Serves(c) /\ pc[c] # "absent" /\ iargs' = iargs
      /\ UNCHANGED <<apc, ctx, order, started, owed, turn, since>>
  BY <1>1, OwnProgram
<1>3. FormFits(c) /\ HeldBack(c) /\ StopSent(c) /\ ScalerTypeOK
  BY <1>2 DEF PInv, AInv, ApiTypeOK
<1>4. CASE \/ Load(c) \/ Fetch(c) \/ BeginFrame(c) \/ Leave(c) \/ Render(c) \/ Refetch(c)
  <2>1. /\ UNCHANGED <<inMbox, outMbox, outIntr, msg>>
        /\ pc'[c] \in {"fetch", "loop", "frame", "post"} =>
             pc[c] \in {"fetch", "loop", "frame", "post"}
    BY <1>3, <1>4 DEF Load, Fetch, BeginFrame, Leave, Render, Refetch, ScalerTypeOK
  <2>2. Answers(c)' = Answers(c) /\ (UnderWay(c)' = UnderWay(c) \/ UnderWay(c)' = 0)
    BY <2>1 DEF Answers, UnderWay
  <2>3. UnderWay(c)' + Answers(c)' <= UnderWay(c) + Answers(c)
    BY <2>2, SumType
  <2>4. HeldBack(c)'
    BY <1>2, <1>3, <2>1, <2>3, SumType, HeldKept
  <2>5. QED  BY <1>2, <1>3, <2>1, <2>4 DEF FormFits, StopSent
<1>5. CASE Post(c)
  <2>1. /\ pc[c] = "post" /\ inMbox' = inMbox /\ msg[c] = "RUN"
        /\ largs[c].form = iargs[c].form
    BY <1>2, <1>5 DEF Post, Serves, Program
  <2>2. CASE largs[c].form = "SOFT"
    <3>1. UNCHANGED <<outMbox, outIntr, msg>>
      BY <1>5, <2>2 DEF Post
    <3>2. QED  BY <1>2, <1>3, <2>1, <2>2, <3>1 DEF FormFits, HeldBack, StopSent
  <2>3. CASE largs[c].form # "SOFT"
    <3>1. /\ pc'[c] = "wait" /\ msg'[c] = "RDY"
          /\ \/ /\ largs[c].form = "INTR" /\ outIntr[c] = "empty" /\ outIntr'[c] = "RDY"
                /\ outMbox' = outMbox
             \/ /\ largs[c].form = "HARD" /\ outMbox[c] = "empty" /\ outMbox'[c] = "RDY"
                /\ outIntr' = outIntr
      BY <1>3, <1>5, <2>3 DEF Post, ScalerTypeOK
    <3>2. UnderWay(c) = 1 /\ UnderWay(c)' = 0
      BY <2>1, <3>1 DEF UnderWay
    <3>3. Answers(c)' = Answers(c) + 1
      BY <3>1 DEF Answers
    <3>4. UnderWay(c)' + Answers(c)' <= UnderWay(c) + Answers(c)
      BY <3>2, <3>3, SumType
    <3>5. HeldBack(c)'
      BY <1>2, <1>3, <2>1, <3>4, SumType, HeldKept
    <3>6. FormFits(c)'
      BY <1>2, <1>3, <2>1, <3>1 DEF FormFits
    <3>7. StopSent(c)'
      BY <1>2, <1>3, <2>1, <3>1 DEF StopSent
    <3>8. QED  BY <3>5, <3>6, <3>7
  <2>4. QED  BY <2>2, <2>3
<1>6. CASE DestroyContext(c)
  <2>1. /\ pc'[c] = "absent" /\ inMbox'[c] = <<>>
        /\ outMbox'[c] = "empty" /\ outIntr'[c] = "empty"
    BY <1>3, <1>6 DEF DestroyContext, ScalerTypeOK
  <2>2. Len(inMbox'[c]) = 0
    BY <2>1
  <2>3. HeldBack(c)'
    BY <2>2 DEF HeldBack
  <2>4. QED  BY <2>1, <2>3 DEF FormFits, StopSent
<1>7. QED  BY <1>4, <1>5, <1>6

(* Steps of the program that read a message.                               *)
LEMMA MessageHeld ==
  ASSUME AInv, PInv, NEW c \in Contexts, UNCHANGED apiVars, FirstMessage(c) \/ Wait(c)
  PROVE  FormFits(c)' /\ HeldBack(c)' /\ StopSent(c)'
<1>1. SpuStep(c) /\ Take(c)
  BY DEF SpuStep, FirstMessage, Wait
<1>2. /\ c = ctx /\ c # Unset /\ Serves(c) /\ pc[c] # "absent" /\ iargs' = iargs
      /\ UNCHANGED <<apc, ctx, order, started, owed, turn, since>>
  BY <1>1, OwnProgram
<1>3. FormFits(c) /\ HeldBack(c) /\ StopSent(c) /\ ScalerTypeOK
  BY <1>2 DEF PInv, AInv, ApiTypeOK
<1> DEFINE q == inMbox[c]
           r == inMbox'[c]
<1>4. /\ q \in Seq(Asked) /\ q # <<>> /\ msg'[c] = q[1] /\ r = Tail(q)
      /\ outMbox' = outMbox /\ outIntr' = outIntr
      /\ pc[c] \in {"boot", "wait"}
  BY <1>1, <1>2, <1>3 DEF Take, FirstMessage, Wait, Serves, Mail, Asked, ScalerTypeOK
<1>5. /\ Len(q) \in Nat /\ Len(q) > 0 /\ Len(r) = Len(q) - 1 /\ Len(r) \in Nat
      /\ \A i \in 1 .. Len(r) : r[i] = q[i + 1] /\ i + 1 \in 1 .. Len(q)
  BY <1>4
<1> HIDE DEF q, r
<1>6. FormFits(c)'
  BY <1>2, <1>3, <1>4 DEF FormFits
<1>7. HeldBack(c)'
  <2>1. SUFFICES ASSUME iargs[c].form # "SOFT",
                        NEW j \in 1 .. Len(r), r[j] # "RUN"
                 PROVE  /\ UnderWay(c)' + Answers(c)' <= 1
                        /\ \A i \in Unread(c, "RUN")' : i < j => UnderWay(c)' + Answers(c)' = 0
                        /\ \A i, k \in Unread(c, "RUN")' : i < j /\ k < j => i = k
    BY <1>2 DEF HeldBack, r
  <2>2. /\ j + 1 \in 1 .. Len(q) /\ q[j + 1] # "RUN"
    BY <1>5, <2>1
  <2>3. /\ UnderWay(c) + Answers(c) <= 1
        /\ \A i \in Unread(c, "RUN") : i < j + 1 => UnderWay(c) + Answers(c) = 0
        /\ \A i, k \in Unread(c, "RUN") : i < j + 1 /\ k < j + 1 => i = k
    BY <1>3, <2>1, <2>2 DEF HeldBack, q
  <2>4. \A i \in Unread(c, "RUN")' : i \in Nat /\ i > 0 /\ i + 1 \in Unread(c, "RUN")
    BY <1>5 DEF Unread, q, r
  <2>5. UnderWay(c) = 0 /\ Answers(c)' = Answers(c)
    BY <1>4 DEF UnderWay, Answers
  <2>6. CASE q[1] = "RUN"
    <3>1. 1 \in Unread(c, "RUN") /\ 1 < j + 1
      BY <1>5, <2>1, <2>6 DEF Unread, q
    <3>2. Answers(c) = 0
      BY <2>3, <2>5, <3>1, SumType
    <3>3. UnderWay(c)' + Answers(c)' <= 1
      BY <2>5, <3>2, SumType
    <3>4. \A i \in Unread(c, "RUN")' : ~(i < j)
      BY <1>5, <2>1, <2>3, <2>4, <3>1
    <3>5. QED  BY <3>3, <3>4
  <2>7. CASE q[1] # "RUN"
    <3>1. UnderWay(c)' = 0
      BY <1>4, <2>7 DEF UnderWay
    <3>2. \A i \in Unread(c, "RUN")' : i < j => i + 1 < j + 1
      BY <1>5, <2>1, <2>4
    <3>3. UnderWay(c)' + Answers(c)' = UnderWay(c) + Answers(c)
      BY <2>5, <3>1
    <3>4. ASSUME NEW i \in Unread(c, "RUN")', NEW k \in Unread(c, "RUN")', i < j, k < j
          PROVE  i = k
      <4>1. i + 1 = k + 1
        BY <2>3, <2>4, <3>2, <3>4
      <4>2. QED  BY <2>4, <4>1
    <3>5. QED  BY <2>3, <2>4, <3>2, <3>3, <3>4
  <2>8. QED  BY <2>6, <2>7
<1>8. StopSent(c)'
  <2>1. SUFFICES ASSUME apc = "join", q[1] # "STOP"
                 PROVE  r # <<>> /\ r[Len(r)] = "STOP"
    BY <1>2, <1>4 DEF StopSent, r
  <2>2. msg[c] # "STOP"
    BY <1>2, <1>4 DEF Serves, Program, Mail, Unstarted
  <2>3. q[Len(q)] = "STOP"
    BY <1>2, <1>3, <2>1, <2>2 DEF StopSent, q
  <2>4. Len(q) # 1
    BY <2>1, <2>3
  <2>5. Len(r) \in 1 .. Len(r) /\ r[Len(r)] = q[Len(q)]
    BY <1>5, <2>4
  <2>6. r # <<>>
    BY <1>5, <2>4
  <2>7. QED  BY <2>3, <2>5, <2>6
<1>9. QED  BY <1>6, <1>7, <1>8

(* A message is sent: UPDATE and STOP after at most one unanswered RUN.    *)
LEMMA SendHeld ==
  ASSUME AInv, PInv, DoSend
  PROVE  FormFits(ctx)' /\ HeldBack(ctx)' /\ StopSent(ctx)'
<1> DEFINE c == ctx
           q == inMbox[c]
           r == inMbox'[c]
<1>1. /\ apc = "send" /\ apc' = (IF order = "STOP" THEN "join" ELSE "idle") /\ ctx' = ctx
      /\ inMbox' = [inMbox EXCEPT ![c] = Append(q, order)]
      /\ UNCHANGED <<iargs, outMbox, outIntr, pc, msg>>
  BY DEF DoSend, Send
<1>2. /\ c # Unset /\ c \in Contexts /\ Serves(c) /\ pc[c] # "absent" /\ order \in Asked
      /\ FormFits(c) /\ HeldBack(c) /\ ScalerTypeOK /\ owed \in Nat
      /\ order # "RUN" => owed <= 1
  BY <1>1, ApiAssumption
     DEF AInv, Caller, PInv, Brief, Serves, Program, ApiTypeOK, Asked
<1>3. q \in Seq(Asked) /\ r = Append(q, order)
  BY <1>1, <1>2 DEF Serves, Mail, Asked, ScalerTypeOK
<1>4. /\ Len(q) \in Nat /\ Len(r) = Len(q) + 1 /\ r[Len(q) + 1] = order
      /\ \A i \in 1 .. Len(q) : r[i] = q[i]
      /\ r # <<>>
  BY <1>2, <1>3
<1> HIDE DEF q, r
<1>5. UnderWay(c)' = UnderWay(c) /\ Answers(c)' = Answers(c)
  BY <1>1 DEF UnderWay, Answers
<1>6. HeldBack(c)'
  <2>1. SUFFICES ASSUME iargs[c].form # "SOFT",
                        NEW j \in 1 .. Len(r), r[j] # "RUN"
                 PROVE  /\ UnderWay(c) + Answers(c) <= 1
                        /\ \A i \in Unread(c, "RUN")' : i < j => UnderWay(c) + Answers(c) = 0
                        /\ \A i, k \in Unread(c, "RUN")' : i < j /\ k < j => i = k
    BY <1>1, <1>5 DEF HeldBack, r
  <2>2. \A i \in Unread(c, "RUN")' : i \in 1 .. Len(q) + 1 /\ (i < j => i \in Unread(c, "RUN"))
    BY <1>1, <1>4, <2>1 DEF Unread, q, r
  <2>3. CASE j \in 1 .. Len(q)
    <3>1. q[j] # "RUN"
      BY <1>4, <2>1, <2>3
    <3>2. /\ UnderWay(c) + Answers(c) <= 1
          /\ \A i \in Unread(c, "RUN") : i < j => UnderWay(c) + Answers(c) = 0
          /\ \A i, k \in Unread(c, "RUN") : i < j /\ k < j => i = k
      BY <1>2, <2>1, <2>3, <3>1 DEF HeldBack, q
    <3>3. QED  BY <2>2, <3>2
  <2>4. CASE j = Len(q) + 1
    <3>1. order # "RUN" /\ owed <= 1
      BY <1>2, <1>4, <2>1, <2>4
    <3>2. /\ Unread(c, "RUN") = At(q, "RUN") /\ IsFiniteSet(At(q, "RUN"))
          /\ Cardinality(Unread(c, "RUN")) \in Nat
          /\ Cardinality(Unread(c, "RUN")) = 0 <=> Unread(c, "RUN") = {}
      BY <1>3, CountType DEF Count, At, Unread, q
    <3>3. owed = Cardinality(Unread(c, "RUN")) + UnderWay(c) + Answers(c)
      BY <1>2, <2>1 DEF Serves, Accounted
    <3>4. /\ UnderWay(c) + Answers(c) <= 1
          /\ Cardinality(Unread(c, "RUN")) <= 1
          /\ Cardinality(Unread(c, "RUN")) = 1 => UnderWay(c) + Answers(c) = 0
      BY <1>2, <3>1, <3>2, <3>3, SumType
    <3>5. ASSUME NEW i \in Unread(c, "RUN"), NEW k \in Unread(c, "RUN")
          PROVE  i = k /\ Cardinality(Unread(c, "RUN")) = 1
      <4>1. Cardinality(Unread(c, "RUN")) = 1
        BY <3>2, <3>4, <3>5
      <4>2. PICK x : Unread(c, "RUN") = {x}
        BY <3>2, <4>1, FS_Singleton
      <4>3. QED  BY <3>5, <4>1, <4>2
    <3>6. QED  BY <2>2, <3>4, <3>5
  <2>5. QED  BY <1>4, <2>3, <2>4
<1>7. StopSent(c)'
  BY <1>1, <1>4 DEF StopSent, r
<1>8. FormFits(c)'
  BY <1>1, <1>2 DEF FormFits
<1>9. QED  BY <1>1, <1>6, <1>7, <1>8 DEF FormFits, HeldBack, StopSent, Unread, UnderWay, Answers

(* The other steps of the caller.  While the mailbox is empty nothing is   *)
(* held back.                                                              *)
LEMMA NothingHeld ==
  ASSUME NEW c, inMbox'[c] = <<>>
  PROVE  HeldBack(c)'
<1>1. Len(inMbox'[c]) = 0
  OBVIOUS
<1>2. QED  BY <1>1 DEF HeldBack

LEMMA CallerHeld ==
  ASSUME AInv, PInv, Call \/ Continue, ~DoSend
  PROVE  (ctx # Unset => FormFits(ctx) /\ HeldBack(ctx) /\ StopSent(ctx))'
<1>1. ASSUME NEW c \in Contexts, NEW place \in Places, Open(c, place)
      PROVE  FormFits(c)' /\ HeldBack(c)' /\ StopSent(c)' /\ ctx' = c
  <2>1. /\ pc[c] = "absent" /\ apc' = "form" /\ ctx' = c
        /\ UNCHANGED <<inMbox, outMbox, outIntr>>
    BY <1>1 DEF Open, Create
  <2>2. Blank(c)
    BY <2>1 DEF AInv, Alone
  <2>3. QED  BY <2>1, <2>2, NothingHeld DEF Blank, Silent, FormFits, StopSent
<1>2. ASSUME NEW form \in AskedForms, ChooseForm(form)
      PROVE  FormFits(ctx)' /\ HeldBack(ctx)' /\ StopSent(ctx)' /\ ctx' = ctx
  <2>1. /\ apc = "form" /\ apc' = "idle" /\ ctx' = ctx
        /\ UNCHANGED <<inMbox, outMbox, outIntr>>
    BY <1>2 DEF ChooseForm, SetArgs
  <2>2. ctx # Unset /\ ~started /\ Serves(ctx)
    BY <2>1 DEF AInv, Caller
  <2>3. inMbox[ctx] = <<>> /\ Silent(ctx)
    BY <2>2 DEF Serves, Program, Mail
  <2>4. QED  BY <2>1, <2>3, NothingHeld DEF Silent, FormFits, StopSent
<1>3. ASSUME NEW place \in Places, SetPlace(place)
      PROVE  FormFits(ctx)' /\ HeldBack(ctx)' /\ StopSent(ctx)' /\ ctx' = ctx
  <2>1. /\ ctx # Unset /\ apc' = "idle" /\ ctx' = ctx
        /\ iargs' = [iargs EXCEPT ![ctx] = [iargs[ctx] EXCEPT !.place = place]]
        /\ UNCHANGED <<inMbox, outMbox, outIntr, pc, msg>>
    BY <1>3 DEF SetPlace, SetArgs
  <2>2. ctx \in Contexts /\ iargs[ctx] \in Args /\ ScalerTypeOK
    BY <2>1 DEF AInv, ApiTypeOK, Serves, Program
  <2>3. iargs'[ctx].form = iargs[ctx].form
    BY <2>1, <2>2 DEF Args, ScalerTypeOK
  <2>4. UnderWay(ctx)' = UnderWay(ctx) /\ Answers(ctx)' = Answers(ctx)
    BY <2>1 DEF UnderWay, Answers
  <2>5. Unread(ctx, "RUN")' = Unread(ctx, "RUN")
    BY <2>1 DEF Unread
  <2>6. FormFits(ctx) /\ HeldBack(ctx)
    BY <2>1 DEF PInv
  <2>7. QED  BY <2>1, <2>3, <2>4, <2>5, <2>6 DEF FormFits, HeldBack, StopSent
<1>4. ASSUME (\E m \in {"RUN", "UPDATE", "STOP"} : CallSend(m)) \/ CallReceive
      PROVE  FormFits(ctx)' /\ HeldBack(ctx)' /\ StopSent(ctx)' /\ ctx' = ctx
  <2>1. /\ ctx # Unset /\ apc' # "join" /\ ctx' = ctx
        /\ UNCHANGED <<iargs, inMbox, outMbox, outIntr, pc, msg>>
    BY <1>4 DEF CallSend, CallReceive, scalerVars
  <2>2. QED
    BY <2>1 DEF PInv, FormFits, HeldBack, StopSent, Unread, UnderWay, Answers
<1>5. ASSUME DoReceive
      PROVE  FormFits(ctx)' /\ HeldBack(ctx)' /\ StopSent(ctx)' /\ ctx' = ctx
  <2>1. /\ apc = "receive" /\ apc' = "idle" /\ ctx' = ctx
        /\ UNCHANGED <<iargs, inMbox, pc, msg>>
        /\ \/ outMbox' = outMbox /\ outIntr' = [outIntr EXCEPT ![ctx] = "empty"]
           \/ outIntr' = outIntr /\ outMbox' = [outMbox EXCEPT ![ctx] = "empty"]
    BY <1>5 DEF DoReceive, ReceiveIntr, ReceiveHard
  <2>2. ctx # Unset /\ ctx \in Contexts /\ ScalerTypeOK
    BY <2>1 DEF AInv, Caller, ApiTypeOK
  <2>3. /\ outIntr'[ctx] \in {outIntr[ctx], "empty"}
        /\ outMbox'[ctx] \in {outMbox[ctx], "empty"}
    BY <2>1, <2>2 DEF ScalerTypeOK
  <2>4. FormFits(ctx) /\ HeldBack(ctx)
    BY <2>2 DEF PInv
  <2>5. UnderWay(ctx)' = UnderWay(ctx)
    BY <2>1 DEF UnderWay
  <2>6. Answers(ctx)' <= Answers(ctx)
    BY <2>1, <2>3 DEF Answers
  <2>7. UnderWay(ctx)' + Answers(ctx)' <= UnderWay(ctx) + Answers(ctx)
    BY <2>5, <2>6, SumType
  <2>8. HeldBack(ctx)'
    BY <2>1, <2>4, <2>7, SumType, HeldKept DEF HeldBack, Unread, UnderWay, Answers
  <2>9. QED  BY <2>1, <2>3, <2>4, <2>8 DEF FormFits, StopSent
<1> DEFINE Kept(c) == FormFits(c) /\ HeldBack(c) /\ StopSent(c)
<1>6. ASSUME NEW c, Kept(c)', ctx' = c  PROVE  (ctx # Unset => Kept(ctx))'
  BY <1>6 DEF FormFits, HeldBack, StopSent, Unread, UnderWay, Answers
<1>7. CASE Join
  BY <1>7 DEF Join
<1>8. CASE DoReceive \/ CallReceive \/ (\E m \in {"RUN", "UPDATE", "STOP"} : CallSend(m))
  BY <1>4, <1>5, <1>8
<1>9. CASE \E form \in AskedForms : ChooseForm(form)
  BY <1>2, <1>9
<1>10. CASE \E place \in Places : (\E c \in Contexts : Open(c, place)) \/ SetPlace(place)
  BY <1>1, <1>3, <1>6, <1>10
<1>11. QED  BY <1>7, <1>8, <1>9, <1>10 DEF Call, Continue

LEMMA StepPInv == AInv /\ PInv /\ [Next]_vars => PInv'
<1> SUFFICES ASSUME AInv, PInv, [Next]_vars  PROVE  PInv'
  OBVIOUS
<1>1. ScalerTypeOK /\ MailboxHolds
  BY DEF AInv, ApiTypeOK, PInv
<1>2. CASE Spu
  <2>1. PICK c \in Contexts : SpuStep(c) /\ UNCHANGED apiVars
    BY <1>2 DEF Spu
  <2>2. c = ctx /\ UNCHANGED <<apc, ctx, order, owed>>
    BY <2>1, OwnProgram
  <2>3. FormFits(c)' /\ HeldBack(c)' /\ StopSent(c)'
    BY <2>1, ConvertHeld, MessageHeld DEF SpuStep
  <2>4. MailboxHolds'
    BY <1>1, <2>1, MailboxSteps
  <2>5. Brief'
    BY <2>2 DEF PInv, Brief
  <2>6. QED
    BY <2>2, <2>3, <2>4, <2>5 DEF PInv, FormFits, HeldBack, StopSent, Unread, UnderWay, Answers
<1>3. CASE DoSend
  <2>1. ctx \in Contexts /\ \E m \in Messages : Send(ctx, m)
    BY <1>3 DEF DoSend, AInv, Caller, ApiTypeOK, Messages
  <2>2. MailboxHolds'
    BY <1>1, <2>1, MailboxSteps
  <2>3. ctx' = ctx /\ apc' # "send"
    BY <1>3 DEF DoSend
  <2>4. FormFits(ctx)' /\ HeldBack(ctx)' /\ StopSent(ctx)'
    BY <1>3, SendHeld
  <2>5. QED
    BY <2>2, <2>3, <2>4
       DEF PInv, Brief, FormFits, HeldBack, StopSent, Unread, UnderWay, Answers
<1>4. CASE (Call \/ Continue) /\ ~DoSend
  <2>1. inMbox' = inMbox
    BY <1>4 DEF Call, Continue, Open, Create, ChooseForm, SetPlace, SetArgs, CallSend,
                CallReceive, DoReceive, ReceiveIntr, ReceiveHard, Join, scalerVars
  <2>2. MailboxHolds'
    BY <1>1, <2>1 DEF MailboxHolds
  <2>3. apc' = "send" /\ order' # "RUN" => owed' <= 1
    BY <1>4 DEF Call, Continue, Open, ChooseForm, SetPlace, CallSend, CallReceive, DoReceive,
                Join
  <2>4. (ctx # Unset => FormFits(ctx) /\ HeldBack(ctx) /\ StopSent(ctx))'
    BY <1>4, CallerHeld
  <2>5. QED  BY <2>2, <2>3, <2>4 DEF PInv, Brief
<1>5. CASE UNCHANGED vars
  BY <1>5 DEF vars, scalerVars, apiVars, PInv, Brief, MailboxHolds, FormFits, HeldBack,
              StopSent, Unread, UnderWay, Answers
<1>6. QED  BY <1>2, <1>3, <1>4, <1>5 DEF Next

(* A program that can take no step waits for a message, or has two answers *)
(* to give: one is in the mailbox, the other one held back.                *)
LEMMA Waiting ==
  ASSUME AInv, PInv, Answering, pc[ctx] # "failed", ~CanStep(ctx)
  PROVE  \/ pc[ctx] = "absent"
         \/ pc[ctx] \in {"boot", "wait"} /\ inMbox[ctx] = <<>>
         \/ /\ pc[ctx] = "post" /\ UnderWay(ctx) = 1 /\ Answers(ctx) = 1
            /\ IF iargs[ctx].form = "INTR" THEN outIntr[ctx] = "RDY"
                                           ELSE outMbox[ctx] = "RDY"
<1> DEFINE c == ctx
<1>1. c \in Contexts /\ Serves(c) /\ FormFits(c) /\ ScalerTypeOK /\ iargs[c].form # "SOFT"
  BY DEF Answering, AInv, PInv, ApiTypeOK
<1>2. pc[c] \in {"absent", "boot", "wait", "post"}
  BY <1>1 DEF ScalerTypeOK, PCs, CanStep
<1>3. pc[c] \in {"boot", "wait"} => inMbox[c] = <<>>
  BY DEF CanStep
<1>4. CASE pc[c] = "post"
  <2>1. msg[c] = "RUN" /\ iargs[c] \in Args /\ largs[c].form = iargs[c].form
    BY <1>1, <1>4 DEF Serves, Program
  <2>2. /\ iargs[c].form \in {"INTR", "HARD"}
        /\ outIntr[c] \in {"empty", "RDY"} /\ outMbox[c] \in {"empty", "RDY"}
    BY <1>1, <2>1 DEF Args, Forms, ScalerTypeOK, Outbound
  <2>3. IF iargs[c].form = "INTR" THEN outIntr[c] = "RDY" /\ outMbox[c] = "empty"
                                  ELSE outMbox[c] = "RDY" /\ outIntr[c] = "empty"
    BY <1>1, <1>4, <2>1, <2>2 DEF CanStep, FormFits
  <2>4. QED  BY <1>4, <2>1, <2>3 DEF UnderWay, Answers
<1>5. QED  BY <1>2, <1>3, <1>4

LEMMA StuckNever ==
  ASSUME Ahead <= 6, AInv, PInv
  PROVE  NeverStuck
<1> DEFINE c == ctx
           q == inMbox[c]
<1>1. SUFFICES ASSUME Blocked, Answering, pc[c] # "failed", ~CanStep(c)  PROVE  FALSE
  <2>1. Answering => ctx \in Contexts /\ ScalerTypeOK /\ MailboxHolds
    BY DEF Answering, AInv, ApiTypeOK, PInv
  <2>2. QED  BY <2>1, StepsLeftType DEF NeverStuck
<1>2. /\ c # Unset /\ c \in Contexts /\ Serves(c) /\ HeldBack(c) /\ FormFits(c) /\ StopSent(c)
      /\ iargs[c].form # "SOFT" /\ ApiTypeOK /\ Caller /\ Brief
  BY <1>1 DEF Answering, AInv, PInv, ApiTypeOK
<1>3. apc \in {"send", "receive", "join"}
  BY <1>1, <1>2 DEF ApiTypeOK, Blocked, CallerCan
<1>4. \/ pc[c] = "absent"
      \/ pc[c] \in {"boot", "wait"} /\ q = <<>>
      \/ /\ pc[c] = "post" /\ UnderWay(c) = 1 /\ Answers(c) = 1
         /\ IF iargs[c].form = "INTR" THEN outIntr[c] = "RDY" ELSE outMbox[c] = "RDY"
  BY <1>1, Waiting
<1>5. pc[c] = "absent" => apc = "join"
  BY <1>2 DEF Serves, Program
<1>6. q \in Seq(Asked) /\ Len(q) \in Nat
  BY <1>2 DEF Serves, Mail, Asked
<1>7. pc[c] # "absent" => owed = Cardinality(Unread(c, "RUN")) + UnderWay(c) + Answers(c)
  BY <1>2 DEF Serves, Accounted
<1>8. CASE apc = "send"
  <2>1. ~(Len(q) < 4)
    BY <1>1, <1>8 DEF Blocked, CallerCan, InMboxSize
  <2>2. q # <<>>
    BY <2>1
  <2>3. pc[c] = "post" /\ UnderWay(c) = 1 /\ Answers(c) = 1
    BY <1>4, <1>5, <1>8, <2>2
  <2>4. \A j \in 1 .. Len(q) : q[j] = "RUN"
    BY <1>2, <2>3 DEF HeldBack
  <2>5. Unread(c, "RUN") = 1 .. Len(q)
    BY <2>4 DEF Unread
  <2>6. Cardinality(Unread(c, "RUN")) = Len(q)
    <3>1. \A n \in Nat : n >= 4 => Cardinality(1 .. n) = n
      BY FS_Interval
    <3>2. QED  BY <1>6, <2>1, <2>5, <3>1
  <2>7. owed >= 6
    BY <1>6, <1>7, <2>1, <2>3, <2>6
  <2>8. owed < Ahead \/ owed <= 1
    BY <1>2, <1>8 DEF Caller, Brief, ApiTypeOK
  <2>9. owed \in Nat /\ Ahead \in Nat
    BY <1>2, ApiAssumption DEF ApiTypeOK
  <2>10. QED  BY <2>7, <2>8, <2>9
<1>9. CASE apc = "receive"
  <2>1. /\ owed > 0 /\ pc[c] # "absent"
        /\ ~(IF iargs[c].form = "INTR" THEN outIntr[c] = "RDY" ELSE outMbox[c] = "RDY")
    BY <1>1, <1>2, <1>5, <1>9 DEF Caller, Blocked, CallerCan
  <2>2. pc[c] \in {"boot", "wait"} /\ q = <<>>
    BY <1>4, <2>1
  <2>3. Answers(c) = 0
    <3>1. iargs[c].form \in {"INTR", "HARD"}
      BY <1>2 DEF Serves, Program, Args, Forms
    <3>2. QED  BY <1>2, <2>1, <3>1 DEF FormFits, Answers
  <2>4. UnderWay(c) = 0
    BY <2>2 DEF UnderWay
  <2>5. Cardinality(Unread(c, "RUN")) = 0
    BY <1>6, <2>2, CountType DEF Count, At, Unread
  <2>6. QED  BY <1>7, <2>1, <2>3, <2>4, <2>5
<1>10. CASE apc = "join"
  <2>1. pc[c] # "absent"
    BY <1>1, <1>10 DEF Blocked, CallerCan, Live
  <2>2. CASE msg[c] = "STOP"
    BY <1>2, <1>4, <2>1, <2>2 DEF Serves, Program, Mail, Unstarted
  <2>3. CASE q # <<>> /\ q[Len(q)] = "STOP"
    <3>1. UnderWay(c) = 1 /\ Answers(c) = 1
      BY <1>4, <2>1, <2>3
    <3>2. Len(q) \in 1 .. Len(q)
      BY <1>6, <2>3
    <3>3. UnderWay(c) + Answers(c) <= 1
      BY <1>2, <2>3, <3>2 DEF HeldBack
    <3>4. QED  BY <3>1, <3>3
  <2>4. QED  BY <1>2, <1>10, <2>1, <2>2, <2>3 DEF StopSent
<1>11. QED  BY <1>3, <1>8, <1>9, <1>10

(* While the caller waits, only its program moves, and nearer to the end   *)
(* of its work.                                                            *)
LEMMA WaitSteps ==
  ASSUME AInv, Blocked, Answering, Next
  PROVE  UNCHANGED apiVars /\ StepsLeft(ctx)' < StepsLeft(ctx)
<1>1. ~Call
  BY DEF Blocked, Call, Open, SetPlace, CallSend, CallReceive
<1>2. ~Continue
  BY DEF Blocked, CallerCan, Continue, ChooseForm, DoSend, DoReceive, Join, Send,
         ReceiveIntr, ReceiveHard
<1>3. PICK c \in Contexts : SpuStep(c) /\ UNCHANGED apiVars
  BY <1>1, <1>2 DEF Next, Spu
<1>4. c = ctx /\ ctx' = ctx /\ Serves(c)
  BY <1>3, OwnProgram
<1>5. ~RunsOn(c)
  BY <1>4 DEF RunsOn, Serves, Program, Answering
<1>6. StepsLeft(c)' < StepsLeft(c)
  BY <1>3, <1>5, ProgramAdvances DEF AInv, ApiTypeOK
<1>7. StepsLeft(ctx)' = StepsLeft(c)'
  BY <1>4 DEF StepsLeft
<1>8. QED  BY <1>3, <1>4, <1>6, <1>7

(* While it is owed no more than six answers, a caller that asked for      *)
(* answers never waits for a program that waits for it: for room in its    *)
(* mailbox (yuvscsc_send_message spins), for the answer, or for the end of *)
(* the thread.  Six is the most: four RUNs unread, one being converted and *)
(* one answered leave room for none, and the caller that would send a      *)
(* seventh before it receives waits for ever.                              *)
THEOREM CallerNeverStuck == ASSUME Ahead <= 6 PROVE Spec => []NeverStuck
<1>1. Init => PInv
  BY NoMailYet DEF Init, PInv, Brief
<1>2. AInv /\ PInv /\ [Next]_vars => PInv'
  BY StepPInv
<1>3. AInv /\ PInv => NeverStuck
  BY StuckNever
<1>4. QED  BY <1>1, <1>2, <1>3, ServiceHolds, PTL DEF Spec

(* And every step that is taken while it waits is one of these, so that    *)
(* the wait is over before they are used up.                               *)
THEOREM CallerWaitsShorten == Spec => WaitsShorten
<1>1. AInv /\ [Next]_vars =>
        [Blocked /\ Answering => UNCHANGED apiVars /\ StepsLeft(ctx)' < StepsLeft(ctx)]_vars
  BY WaitSteps DEF vars
<1>2. QED  BY <1>1, ServiceHolds, PTL DEF Spec, WaitsShorten
=============================================================================
