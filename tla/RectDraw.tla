------------------------------ MODULE RectDraw ------------------------------
(***************************************************************************)
(* The draw_rect service of spu-medialib: the library (src/draw_rect.c),   *)
(* its thread, and the SPU program (spu/src/spu_draw_rect.c) that fills or *)
(* copies rectangles, combining what is there with the new (the alu).      *)
(*                                                                         *)
(* All rectangles have one upper left corner.  What a row of the           *)
(* destination holds is how often it was drawn, and by which operation     *)
(* last; the source of a copy does not change, and does not overlap the    *)
(* destination.  Rows move by DMA commands, which complete in any order,   *)
(* those of one tag group too: none of them has a fence.                   *)
(***************************************************************************)
EXTENDS Integers, Sequences

CONSTANTS
  Lanes,     \* rows drawn side by side: 3
  RectSizes, \* heights of the rectangles
  MaxRuns,   \* bound: operations of the caller
  Spoilt     \* what it holds if it was made from another row

(* What a row holds.                                                       *)
Held == [times: Nat, by: Nat]

ASSUME RectAssumption ==
  /\ Lanes \in Nat \ {0}
  /\ RectSizes \subseteq Nat \ {0}
  /\ \E h \in RectSizes : \A k \in RectSizes : k <= h
  /\ MaxRuns \in Nat
  /\ Spoilt \notin Held
  /\ Spoilt \notin [row: Nat, was: Held \cup {Spoilt}]

VARIABLES
  host,     \* where the caller is
  runs,     \* RUNs it has sent
  answers,  \* RDYs it has received
  args,     \* *data: [no, height, op] of the operation
  expected, \* history: how often it wants a row drawn, and by which last
  thread,   \* local_spe_thread
  inbox, outbox, \* the mailboxes
  spu,      \* where the program is
  data,     \* its copy of the arguments
  group,    \* i, rows are drawn from Lanes * group on; then the remainder
  sel,      \* SelIn and SelOut, which are always flipped together
  stopped,  \* is msg STOP?
  buffers,  \* TEMP, INPUT, OUTPUT: the rows in local store
  underWay, \* of each buffer, which has a tag of its own, the commands' rows
  screen,   \* the destination in main memory
  atRisk    \* history: rows fetched while another was on its way there

hostVars == <<host, runs, answers, args, expected>>
spuVars == <<spu, data, group, sel, stopped>>
dmaVars == <<buffers, underWay, screen, atRisk>>
rectVars == <<hostVars, thread, inbox, outbox, spuVars, dmaVars>>

Kinds == {"TEMP", "INPUT", "OUTPUT"}
Buffers == Kinds \X (0 .. Lanes - 1) \X {0, 1}
Ops == {"FILL", "COPY"}

(* The rows a rectangle may have, and those fetched ahead below it.        *)
Highest == CHOOSE h \in RectSizes : \A k \in RectSizes : k <= h
Rows == 0 .. Highest + 2 * Lanes - 1
Fresh == [times |-> 0, by |-> 0]

RectInit ==
  /\ host = "idle" /\ runs = 0 /\ answers = 0
  /\ args = [no |-> 0, height |-> 0, op |-> "FILL"]
  /\ expected = [y \in Rows |-> Fresh]
  /\ thread = "new"
  /\ inbox = <<>> /\ outbox = <<>>
  /\ spu = "none"
  /\ data = args
  /\ group = 0 /\ sel = 0 /\ stopped = FALSE
  /\ buffers = [b \in Buffers |-> Spoilt]
  /\ underWay = [b \in Buffers |-> {}]
  /\ screen = [y \in Rows |-> Fresh]
  /\ atRisk = {}

-----------------------------------------------------------------------------
(* The caller, who receives before each operation as recttest.cpp does.    *)
(* draw_rect_receive_message_hard spins.                                   *)
Receive ==
  /\ host = "idle" /\ answers = runs
  /\ host' = "receive"
  /\ UNCHANGED <<runs, answers, args, expected, thread, inbox, outbox,
                 spuVars, dmaVars>>

ReceiveReady ==
  /\ host = "receive"
  /\ outbox # <<>>
  /\ outbox' = Tail(outbox)
  /\ answers' = answers + 1
  /\ host' = "idle"
  /\ UNCHANGED <<runs, args, expected, thread, inbox, spuVars, dmaVars>>

(* prepare_solid and solid, or prepare_copy and copy: the arguments in any *)
(* order, then RUN.                                                        *)
Prepare(height, op) ==
  /\ host = "idle" /\ answers = runs + 1
  /\ runs < MaxRuns
  /\ args' = [no |-> runs + 1, height |-> height, op |-> op]
  /\ host' = "send"
  /\ UNCHANGED <<runs, answers, expected, thread, inbox, outbox, spuVars,
                 dmaVars>>

SendRun ==
  /\ host = "send"
  /\ inbox' = Append(inbox, "RUN")
  /\ runs' = runs + 1
  /\ expected' = [y \in Rows |->
                    IF y < args.height
                    THEN [times |-> expected[y].times + 1, by |-> args.no]
                    ELSE expected[y]]
  /\ host' = "idle"
  /\ UNCHANGED <<answers, args, thread, outbox, spuVars, dmaVars>>

(* draw_rect_destroy; not before any operation, when the program would     *)
(* draw by arguments it never fetched.                                     *)
Destroy ==
  /\ host = "idle" /\ runs > 0
  /\ inbox' = Append(inbox, "STOP")
  /\ host' = "join"
  /\ UNCHANGED <<runs, answers, args, expected, thread, outbox, spuVars,
                 dmaVars>>

Joined ==
  /\ host = "join" /\ thread = "ended"
  /\ host' = "joined"
  /\ UNCHANGED <<runs, answers, args, expected, thread, inbox, outbox,
                 spuVars, dmaVars>>

(* The thread loads the program, which may fail, and runs it.              *)
Load ==
  /\ thread = "new"
  /\ \/ thread' = "runs" /\ spu' = "post"
     \/ thread' = "ended" /\ UNCHANGED spu
  /\ UNCHANGED <<hostVars, inbox, outbox, data, group, sel, stopped, dmaVars>>

Ended ==
  /\ thread = "runs" /\ spu = "exit"
  /\ thread' = "ended"
  /\ UNCHANGED <<hostVars, inbox, outbox, spuVars, dmaVars>>

-----------------------------------------------------------------------------
(* The DMA commands.  Each buffer has a tag of its own (tgi, tgo, tgt); of *)
(* a row that two commands move to or from a buffer there is one here,     *)
(* since all are done when the tag has been waited for.                    *)
Waited(bs) == \A b \in bs : underWay[b] = {}
Of(kinds, lanes, s) == kinds \X lanes \X {s}
All == 0 .. Lanes - 1

(* One command more for each buffer b that y has a row for.                *)
Issued(y) ==
  underWay' = [b \in Buffers |->
                 underWay[b] \cup IF b \in DOMAIN y THEN {y[b]} ELSE {}]

(* Any command that is under way completes, whatever was issued before it. *)
Arrive(b) ==
  /\ \E y \in underWay[b] :
       /\ underWay' = [underWay EXCEPT ![b] = @ \ {y}]
       /\ IF b[1] = "OUTPUT"
          THEN screen' = [screen EXCEPT ![y] = buffers[b]] /\ UNCHANGED buffers
          ELSE /\ buffers' = [buffers EXCEPT ![b] =
                    [row |-> y,
                     was |-> IF b[1] = "TEMP" THEN screen[y] ELSE Fresh]]
               /\ UNCHANGED screen
  /\ UNCHANGED <<hostVars, thread, inbox, outbox, spuVars, atRisk>>

-----------------------------------------------------------------------------
(* The message loop posts RDY when the mailbox has room.                   *)
Post ==
  /\ spu = "post"
  /\ outbox = <<>>
  /\ outbox' = <<"RDY">>
  /\ spu' = "wait"
  /\ UNCHANGED <<hostVars, thread, inbox, data, group, sel, stopped, dmaVars>>

(* Mutant of Take: STOP does not leave the loop that waits.                *)
TakeOnlyRun ==
  /\ spu = "wait"
  /\ inbox # <<>>
  /\ inbox' = Tail(inbox)
  /\ IF Head(inbox) = "RUN"
     THEN data' = args /\ spu' = "fetch" /\ UNCHANGED stopped
     ELSE stopped' = TRUE /\ UNCHANGED <<data, spu>>
  /\ UNCHANGED <<hostVars, thread, outbox, group, sel, dmaVars>>

(* RUN brings the arguments; STOP leaves the waiting loop too, and the     *)
(* operation is performed as it was the last time.                         *)
Take ==
  /\ spu = "wait"
  /\ inbox # <<>>
  /\ inbox' = Tail(inbox)
  /\ IF Head(inbox) = "RUN"
     THEN data' = args /\ UNCHANGED stopped
     ELSE stopped' = TRUE /\ UNCHANGED data
  /\ spu' = "fetch"
  /\ UNCHANGED <<hostVars, thread, outbox, group, sel, dmaVars>>

GetKinds == IF data.op = "COPY" THEN {"TEMP", "INPUT"} ELSE {"TEMP"}

(* The first row of a buffer.                                              *)
First(b) == b[3] * Lanes + b[2]

(* The first two groups of rows.  No tag is waited for: rows that the last *)
(* operation fetched ahead may be on their way to the same buffers still,  *)
(* and may be the last to arrive.                                          *)
FetchFirst ==
  LET bs == GetKinds \X All \X {0, 1} IN
  /\ spu = "fetch"
  /\ Issued([b \in bs |-> First(b)])
  /\ atRisk' = atRisk \cup {First(b) : b \in {c \in bs : underWay[c] \ {First(c)} # {}}}
  /\ group' = 0 /\ sel' = 0
  /\ spu' = "draw"
  /\ UNCHANGED <<hostVars, thread, inbox, outbox, data, stopped, buffers,
                 screen>>

(* fill_line or copy_line: the row of the place, if that is what TEMP, and *)
(* for a copy INPUT, hold.                                                 *)
Drawn(lane, y) ==
  LET temp == buffers[<<"TEMP", lane, sel>>] IN
  IF /\ \A k \in GetKinds : /\ buffers[<<k, lane, sel>>] # Spoilt
                            /\ buffers[<<k, lane, sel>>].row = y
     /\ temp.was # Spoilt
  THEN [times |-> temp.was.times + 1, by |-> data.no]
  ELSE Spoilt

(* The main loop: a group is drawn and put, and the rows two groups        *)
(* further down are fetched, there or not.                                 *)
DrawGroup ==
  /\ spu = "draw"
  /\ group < data.height \div Lanes
  /\ Waited(Of(Kinds, All, sel))
  /\ buffers' = [b \in Buffers |->
                   IF b \in Of({"OUTPUT"}, All, sel)
                   THEN Drawn(b[2], group * Lanes + b[2]) ELSE buffers[b]]
  /\ Issued([b \in Of(GetKinds \cup {"OUTPUT"}, All, sel) |->
               b[2] + Lanes * IF b[1] = "OUTPUT" THEN group ELSE group + 2])
  /\ group' = group + 1
  /\ sel' = 1 - sel
  /\ UNCHANGED <<hostVars, thread, inbox, outbox, spu, data, stopped, screen,
                 atRisk>>

(* The rows that are left, one after the other; group goes on to count.    *)
DrawRest ==
  LET groups == data.height \div Lanes
      lane == group - groups
      y == groups * Lanes + lane
  IN
  /\ spu = "draw"
  /\ group >= groups
  /\ lane < data.height % Lanes
  /\ Waited(Of(Kinds, {lane}, sel))
  /\ buffers' = [buffers EXCEPT ![<<"OUTPUT", lane, sel>>] = Drawn(lane, y)]
  /\ Issued([b \in {<<"OUTPUT", lane, sel>>} |-> y])
  /\ group' = group + 1
  /\ UNCHANGED <<hostVars, thread, inbox, outbox, spu, data, sel, stopped,
                 screen, atRisk>>

(* Mutant of Finish: the outputs of one index only are waited for.         *)
FinishHalf ==
  /\ spu = "draw"
  /\ group = (data.height \div Lanes) + (data.height % Lanes)
  /\ Waited(Of({"OUTPUT"}, All, sel))
  /\ spu' = IF stopped THEN "exit" ELSE "post"
  /\ UNCHANGED <<hostVars, thread, inbox, outbox, data, group, sel, stopped,
                 dmaVars>>

(* Both halves of the output buffers are waited for.                       *)
Finish ==
  /\ spu = "draw"
  /\ group = (data.height \div Lanes) + (data.height % Lanes)
  /\ Waited({"OUTPUT"} \X All \X {0, 1})
  /\ spu' = IF stopped THEN "exit" ELSE "post"
  /\ UNCHANGED <<hostVars, thread, inbox, outbox, data, group, sel, stopped,
                 dmaVars>>

CallerStep ==
  \/ Receive \/ SendRun \/ Destroy
  \/ \E height \in RectSizes, op \in Ops : Prepare(height, op)

ServiceStep ==
  \/ ReceiveReady \/ Joined
  \/ Load \/ Ended
  \/ \E b \in Buffers : Arrive(b)
  \/ Post \/ Take \/ FetchFirst \/ DrawGroup \/ DrawRest \/ Finish

RectNext == CallerStep \/ ServiceStep

RectSpec == RectInit /\ [][RectNext]_rectVars /\ WF_rectVars(ServiceStep)

-----------------------------------------------------------------------------
RectTypeOK ==
  /\ host \in {"idle", "receive", "send", "join", "joined"}
  /\ runs \in 0 .. MaxRuns /\ answers \in 0 .. MaxRuns + 1
  /\ args.height \in RectSizes \cup {0} /\ args.op \in Ops
  /\ thread \in {"new", "runs", "ended"}
  /\ inbox \in Seq({"RUN", "STOP"}) /\ Len(inbox) <= 2
  /\ outbox \in {<<>>, <<"RDY">>}
  /\ spu \in {"none", "post", "wait", "fetch", "draw", "exit"}
  /\ group \in 0 .. Highest /\ sel \in {0, 1}
  /\ stopped \in BOOLEAN
  /\ underWay \in [Buffers -> SUBSET Rows]
  /\ screen \in [Rows -> [times: 0 .. MaxRuns + 1, by: 0 .. MaxRuns] \cup {Spoilt}]
  /\ atRisk \subseteq 0 .. 2 * Lanes - 1

(* When the caller has received the answer to its last RUN, every row of   *)
(* every rectangle was drawn once for each operation, from its own place,  *)
(* by that operation's arguments, and nothing below them was touched; and  *)
(* after draw_rect_destroy the last rectangle was drawn once more,         *)
(* completely, for the STOP.  Of the rows that an operation fetches ahead  *)
(* and leaves behind, some may arrive after the first rows of the next,    *)
(* which are drawn from them then: rows of the first two groups only, and  *)
(* only where the two commands were under way at once.                     *)
RectDrawn ==
  LET Again(y) == IF y < data.height
                  THEN [expected[y] EXCEPT !.times = @ + 1] ELSE expected[y]
      Right(y, wanted) == screen[y] = wanted \/ (y \in atRisk /\ screen[y] = Spoilt)
  IN /\ host = "idle" /\ answers = runs + 1 => \A y \in Rows : Right(y, expected[y])
     /\ host = "joined" => \A y \in Rows : Right(y, Again(y))
=============================================================================
