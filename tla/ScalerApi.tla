----------------------------- MODULE ScalerApi ------------------------------
(***************************************************************************)
(* The scaler service under any caller of the library                      *)
(* (spu-medialib/src/yuv2argb_scaler.h): one thread that creates a scaler, *)
(* chooses a message form, and then sets sizes, sends RUN and UPDATE,      *)
(* receives and destroys in the order it likes.  It may send RUN ahead of  *)
(* the answers, at most Ahead of them.  It does not begin with UPDATE, and *)
(* sends UPDATE and destroys with at most one answer owed, as the callers  *)
(* in the repository do.                                                   *)
(***************************************************************************)
EXTENDS Yuv2ArgbScaler, FiniteSets

CONSTANTS
  Front, Back, \* the two input buffers
  SrcW,        \* the width of the source
  AskedForms,  \* the message forms the caller chooses from
  Ahead        \* how many RUNs may be unanswered

ASSUME ApiAssumption ==
  /\ Front \in Images /\ Back \in Images
  /\ SrcW \in SrcSizes
  /\ AskedForms \subseteq Forms
  /\ Ahead \in Nat \ {0}
  /\ Unset \notin Contexts

VARIABLES
  apc,     \* the library call the caller is in
  ctx,     \* the context of its scaler
  order,   \* the message it is sending
  started, \* has it sent its first message?
  owed,    \* RUNs sent and not yet answered
  turn,    \* the buffer its last RUN is for
  since    \* what it did last of setting sizes, UPDATE after that, RUN after that

apiVars == <<apc, ctx, order, started, owed, turn, since>>
vars == <<scalerVars, apiVars>>

ApiTypeOK ==
  /\ ScalerTypeOK
  /\ apc \in {"idle", "form", "send", "receive", "join"}
  /\ ctx \in Contexts \cup {Unset}
  /\ order \in {"RUN", "UPDATE", "STOP"}
  /\ started \in BOOLEAN
  /\ owed \in 0 .. Ahead
  /\ turn \in {0, 1}
  /\ since \in {"set", "UPDATE", "RUN"}

Init ==
  /\ ScalerInit
  /\ apc = "idle" /\ ctx = Unset /\ order = "RUN" /\ started = FALSE
  /\ owed = 0 /\ turn = 1 /\ since = "set"

-----------------------------------------------------------------------------
Open(c, place) ==
  /\ apc = "idle" /\ ctx = Unset
  /\ Create(c, SrcW, place, Front, Back)
  /\ apc' = "form" /\ ctx' = c /\ started' = FALSE /\ owed' = 0 /\ turn' = 1
  /\ since' = "UPDATE"
  /\ UNCHANGED order

ChooseForm(form) ==
  /\ apc = "form"
  /\ SetArgs(ctx, [iargs[ctx] EXCEPT !.form = form])
  /\ apc' = "idle"
  /\ UNCHANGED <<ctx, order, started, owed, turn, since>>

SetPlace(place) ==
  /\ apc = "idle" /\ ctx # Unset
  /\ SetArgs(ctx, [iargs[ctx] EXCEPT !.place = place])
  /\ since' = "set"
  /\ UNCHANGED <<apc, ctx, order, started, owed, turn>>

CallSend(m) ==
  /\ apc = "idle" /\ ctx # Unset
  /\ \/ m = "RUN" /\ owed < Ahead
     \/ m = "UPDATE" /\ started /\ owed <= 1
     \/ m = "STOP" /\ owed <= 1
  /\ apc' = "send"
  /\ order' = m
  /\ UNCHANGED <<scalerVars, ctx, started, owed, turn, since>>

(* yuvscsc_send_message, and the first half of yuvscsc_destroy.            *)
DoSend ==
  /\ apc = "send"
  /\ Send(ctx, order)
  /\ started' = TRUE
  /\ apc' = IF order = "STOP" THEN "join" ELSE "idle"
  /\ IF order = "RUN" THEN owed' = owed + 1 /\ turn' = Flip(turn)
                      ELSE UNCHANGED <<owed, turn>>
  /\ since' = CASE order = "UPDATE" /\ since = "set"    -> "UPDATE"
                [] order = "RUN"    /\ since = "UPDATE" -> "RUN"
                [] OTHER -> since
  /\ UNCHANGED <<ctx, order>>

CallReceive ==
  /\ apc = "idle" /\ ctx # Unset
  /\ owed > 0 /\ iargs[ctx].form # "SOFT"
  /\ apc' = "receive"
  /\ UNCHANGED <<scalerVars, ctx, order, started, owed, turn, since>>

DoReceive ==
  /\ apc = "receive"
  /\ IF iargs[ctx].form = "INTR" THEN ReceiveIntr(ctx) ELSE ReceiveHard(ctx)
  /\ owed' = owed - 1
  /\ apc' = "idle"
  /\ UNCHANGED <<ctx, order, started, turn, since>>

(* pthread_join returns when the thread has destroyed the context.         *)
Join ==
  /\ apc = "join" /\ ~Live(ctx)
  /\ apc' = "idle" /\ ctx' = Unset
  /\ UNCHANGED <<scalerVars, order, started, owed, turn, since>>

Call ==
  \/ \E place \in Places : (\E c \in Contexts : Open(c, place)) \/ SetPlace(place)
  \/ \E m \in {"RUN", "UPDATE", "STOP"} : CallSend(m)
  \/ CallReceive

Continue ==
  \/ \E form \in AskedForms : ChooseForm(form)
  \/ DoSend
  \/ DoReceive
  \/ Join

Spu == \E c \in Contexts : SpuStep(c) /\ UNCHANGED apiVars

Next == Call \/ Continue \/ Spu

Spec == Init /\ [][Next]_vars

(* A call that was made goes on, and so does every SPU.                    *)
FairSpec ==
  /\ Spec
  /\ WF_vars(Continue)
  /\ \A c \in Contexts : WF_vars(SpuStep(c) /\ UNCHANGED apiVars)

-----------------------------------------------------------------------------
Answers(c) == (IF outMbox[c] = "RDY" THEN 1 ELSE 0)
            + (IF outIntr[c] = "RDY" THEN 1 ELSE 0)

Unread(c, m) == {i \in 1 .. Len(inMbox[c]) : inMbox[c][i] = m}

UnderWay(c) ==
  IF pc[c] \in {"fetch", "loop", "frame", "post"} /\ msg[c] = "RUN" THEN 1 ELSE 0

(* Every RUN the caller is owed an answer for is in exactly one place:     *)
(* unread, being converted, or answered in the mailbox of the form asked   *)
(* for (the frame loop of spu_yuv2argb_scaler.c and its while (waiting)).  *)
AnswersAccounted ==
  ctx # Unset /\ apc # "join" /\ iargs[ctx].form # "SOFT" =>
    owed = Cardinality(Unread(ctx, "RUN")) + UnderWay(ctx) + Answers(ctx)

(* When the answer of the last RUN is there, what was converted is the     *)
(* buffer that RUN was for, and with the sizes of the last UPDATE: the     *)
(* caller and selIn/selOut count RUNs alike however far ahead it runs.     *)
LastRunShown ==
  ctx # Unset /\ owed = 1 /\ Answers(ctx) = 1 =>
     /\ shown[ctx].img = iargs[ctx].buf[turn]
     /\ since = "RUN" => shown[ctx].place = iargs[ctx].place

-----------------------------------------------------------------------------
(* The inductive invariant behind AnswersAccounted and LastRunShown.       *)

(* What the caller's place says of what it has done.                       *)
Caller ==
  /\ ctx = Unset => apc = "idle"
  /\ apc = "form" => ~started /\ iargs[ctx].form = "INTR"
  /\ apc = "send" /\ order = "RUN" => owed < Ahead
  /\ apc = "send" /\ order = "UPDATE" => started
  /\ apc = "receive" => owed > 0
  /\ apc = "join" => started

Silent(c) == outMbox[c] = "empty" /\ outIntr[c] = "empty"
Blank(c) == inMbox[c] = <<>> /\ Silent(c) /\ sel[c] = 0 /\ msg[c] # "STOP"

(* Only the caller's context is live, and a context that is not is as new. *)
Alone ==
  \A c \in Contexts :
    /\ c # ctx => pc[c] = "absent"
    /\ pc[c] = "absent" => Blank(c)

Unstarted == {"created", "boot", "failed"}

(* STOP is the last message sent, and a message the last one read.         *)
Mail(c) ==
  /\ inMbox[c] \in Seq({"RUN", "UPDATE", "STOP"})
  /\ \A i \in 1 .. Len(inMbox[c]) :
       inMbox[c][i] = "STOP" => apc = "join" /\ i = Len(inMbox[c])
  /\ msg[c] = "STOP" => apc = "join" /\ inMbox[c] = <<>>
  /\ pc[c] \in Unstarted =>
       /\ started <=> inMbox[c] # <<>>
       /\ inMbox[c] # <<>> => Head(inMbox[c]) # "UPDATE"
       /\ Silent(c) /\ sel[c] = 0 /\ msg[c] # "STOP"

Program(c) ==
  /\ iargs[c] \in Args
  /\ pc[c] = "absent" => apc = "join"
  /\ pc[c] = "exited" => msg[c] = "STOP"
  /\ ~started => pc[c] \in Unstarted
  /\ pc[c] \in {"fetch", "loop", "frame", "post"} => msg[c] \in {"RUN", "STOP"}
  /\ pc[c] \in {"frame", "post", "wait", "refetch"} => msg[c] # "STOP"
  /\ pc[c] = "fetch" => Silent(c)
  /\ pc[c] \in {"loop", "frame", "post", "wait", "refetch"} =>
       /\ largs[c] \in Args
       /\ largs[c].form = iargs[c].form /\ largs[c].buf = iargs[c].buf
  /\ iargs[c].form = "SOFT" => Silent(c)

Accounted(c) ==
  pc[c] # "absent" /\ iargs[c].form # "SOFT" =>
    owed = Cardinality(Unread(c, "RUN")) + UnderWay(c) + Answers(c)

(* The buffer of the last RUN, counted from the one selected; and the last *)
(* frame is from the one selected.  The first RUN selects nothing.         *)
InTurn(c) ==
  /\ pc[c] # "absent" /\ msg[c] # "STOP" =>
       LET ahead == Cardinality(Unread(c, "RUN")) IN
       turn = IF pc[c] \in Unstarted THEN (1 + ahead) % 2 ELSE (sel[c] + ahead) % 2
  /\ pc[c] \in {"post", "wait", "refetch"} =>
       shown[c] \in Frames /\ shown[c].img = iargs[c].buf[sel[c]]

(* The program has the present sizes, or reads them before its next frame. *)
Current(c) ==
  \/ pc[c] \in Unstarted \cup {"fetch", "refetch"}
  \/ largs[c].place = iargs[c].place

(* Since the sizes were set: an UPDATE that was sent was read or will be;  *)
(* a RUN after it is unread, with the UPDATE before it if that is needed,  *)
(* is being converted, or was converted with these sizes.                  *)
InPlace(c) ==
  pc[c] # "absent" /\ msg[c] # "STOP" =>
    /\ since # "set" => Current(c) \/ Unread(c, "UPDATE") # {}
    /\ since = "RUN" =>
         \/ \E i \in Unread(c, "RUN") :
              Current(c) \/ \E j \in Unread(c, "UPDATE") : j < i
         \/ /\ Current(c)
            /\ \/ pc[c] \in {"fetch", "loop", "frame"}
               \/ pc[c] \in {"post", "wait", "refetch"} /\ shown[c].place = iargs[c].place

(* STOP was read with the answer of the last RUN still in the mailbox.     *)
Ended(c) ==
  msg[c] = "STOP" /\ owed = 1 /\ Answers(c) = 1 =>
    /\ shown[c].img = iargs[c].buf[turn]
    /\ since = "RUN" => shown[c].place = iargs[c].place

Serves(c) ==
  /\ Mail(c) /\ Program(c)
  /\ Accounted(c) /\ InTurn(c) /\ InPlace(c) /\ Ended(c)

AInv == ApiTypeOK /\ Caller /\ Alone /\ (ctx # Unset => Serves(ctx))

-----------------------------------------------------------------------------
(* The program reports: it reads its mailbox between two frames.           *)
Answering == ctx # Unset /\ iargs[ctx].form # "SOFT"

(* No call blocks for ever in a form that answers.  yuvscsc_send_message   *)
(* spins until the mailbox has room: it has in the end, because the SPU    *)
(* program can leave one answer in its mailbox, hold back one, and leave   *)
(* four messages unread.  A caller that is owed an answer gets it.  And    *)
(* the program takes its STOP, whatever it still has to answer, so that    *)
(* the join of yuvscsc_destroy returns.                                    *)
ApiCallsReturn ==
  /\ apc = "send" /\ Answering ~> apc # "send"
  /\ apc = "receive" ~> apc = "idle"
  /\ apc = "join" /\ Answering ~> ctx = Unset

(* yuv2argb_scaler.h, of yuvscsc_destroy: "destroys the spu scaler object  *)
(* and this object", whatever the message form.                            *)
DestroyReturns == apc = "join" ~> ctx = Unset
=============================================================================
