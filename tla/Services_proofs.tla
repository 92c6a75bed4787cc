--------------------------- MODULE Services_proofs --------------------------
(***************************************************************************)
(* Theorems about the row filter, the smaller services and the loader, for *)
(* every height, number of frames and size of rectangle, and every order   *)
(* in which DMA commands complete, those of one tag too: what they answer, *)
(* and that a caller always has something left to wait for, and ever less. *)
(***************************************************************************)
EXTENDS MCServices, SequenceTheorems, TLAPS

-----------------------------------------------------------------------------
(* The row filter.                                                         *)

(* What was computed since the last UPDATE is at its position, unless a    *)
(* table was written past its end.                                         *)
Computed ==
  past = {} /\ table = "hfilterpos" =>
    \A i \in 0 .. filled - 1 :
      /\ rows[i] \in [row: Nat, part: 0 .. Half(dstH) - 1]
      /\ Position(i, rows[i])

(* A table was written past its end by too great a height, and only so.    *)
Overrun ==
  /\ srcH <= srcTop /\ dstH <= dstTop
  /\ "dmapos" \in past => srcTop > MaxHeight - 2
  /\ "weightHfilter" \in past => dstTop > MaxHeight - 3
  /\ "hfilterpos" \in past => dstTop > MaxHeight - 2
  /\ srcTop > MaxHeight - 2 =>
       \/ "dmapos" \in past
       \/ srcH = srcTop /\ table = "dmapos" /\ filled <= MaxHeight + 2
  /\ dstTop > MaxHeight - 3 =>
       \/ "weightHfilter" \in past
       \/ dstH = dstTop /\ (table = "dmapos" \/ filled <= MaxHeight + 1)
  /\ dstTop > MaxHeight - 2 =>
       \/ "hfilterpos" \in past
       \/ dstH = dstTop /\ (table = "dmapos" \/ filled <= MaxHeight + 2)

FilterInv == FilterTypeOK /\ Computed /\ Overrun

(* A height of four at least has two rows of chroma at least.              *)
LEMMA HalfIsTwo ==
  ASSUME NEW h \in Heights
  PROVE  /\ h \in Nat /\ h >= 4 /\ h <= MaxHeight
         /\ Half(h) \in Nat /\ Half(h) >= 2
         /\ h = 2 * Half(h) \/ h = 2 * Half(h) + 1
<1>1. h \in Nat /\ h >= 4 /\ h <= MaxHeight
  BY FilterAssumption
<1> QED BY <1>1 DEF Half

(* The order of products, which the arithmetic below rests on.             *)
LEMMA Products ==
  ASSUME NEW a \in Nat, NEW b \in Nat, NEW c \in Nat, a <= b
  PROVE  a * c <= b * c /\ a * c \in Nat /\ b * c \in Nat
<1>1. PICK e \in Nat : b = a + e
  <2>1. b - a \in Nat /\ b = a + (b - a)
    OBVIOUS
  <2> QED BY <2>1
<1>2. b * c = a * c + e * c
  BY <1>1
<1>3. a * c \in Nat /\ e * c \in Nat
  OBVIOUS
<1> QED BY <1>2, <1>3

(* Row i of a picture of d rows, mixed from a plane of s: q and the weight *)
(* r / (d - 1).                                                            *)
LEMMA ChromaInside ==
  ASSUME NEW s \in Nat, NEW d \in Nat, s >= 2, d >= 2,
         NEW q \in Nat, NEW r \in 0 .. d - 1,
         NEW i \in 0 .. d - 1,
         q * (d - 1) + r = i * (s - 1)
  PROVE  q < s /\ (q + 1 < s \/ r = 0)
<1> DEFINE t == d - 1
           p == s - 1
<1>1. t \in Nat /\ p \in Nat /\ t >= 1 /\ i \in Nat /\ i <= t
  OBVIOUS
<1>2. i * p <= t * p /\ t * p \in Nat
  BY <1>1, Products
<1>3. p * t = t * p
  BY <1>1
<1>4. ASSUME q >= s  PROVE FALSE
  <2>1. s * t <= q * t
    BY <1>1, <1>4, Products
  <2>2. s * t = p * t + t
    BY <1>1
  <2> HIDE DEF t, p
  <2>3. q * t + r = i * p
    BY DEF t, p
  <2>4. q * t \in Nat /\ i * p \in Nat /\ s * t \in Nat
    BY <1>1
  <2> QED BY <1>1, <1>2, <1>3, <2>1, <2>2, <2>3, <2>4
<1>5. ASSUME q = p  PROVE r = 0
  BY <1>1, <1>2, <1>3, <1>5
<1> QED BY <1>4, <1>5

(* The rows of Y, when the picture is not scaled down.                     *)
LEMMA LumaInside ==
  ASSUME NEW s \in Nat, NEW d \in Nat, s >= 2, d >= 2, s <= d,
         NEW q \in Nat, NEW r \in 0 .. d - 1,
         NEW i \in 0 .. 2 * d + 1,
         q * (d - 1) + r = i * (s - 1)
  PROVE  /\ q <= 2 * s + 1
         /\ i <= 2 * d - 1 => q < 2 * s /\ (q + 1 < 2 * s \/ r = 0)
<1> DEFINE t == d - 1
           p == s - 1
<1>1. t \in Nat /\ p \in Nat /\ t >= 1 /\ p <= t /\ i \in Nat
      /\ i <= 2 * t + 3 /\ s = p + 1 /\ d = t + 1
  OBVIOUS
<1>2. q * t + r = i * p
  OBVIOUS
<1> HIDE DEF t, p
<1>3. p * t \in Nat /\ q * t \in Nat /\ i * p \in Nat /\ r \in 0 .. t
  BY <1>1
<1>4. i * p <= 2 * (p * t) + 3 * p
  <2>1. i * p <= (2 * t + 3) * p
    BY <1>1, Products
  <2>2. (2 * t + 3) * p = 2 * (p * t) + 3 * p
    BY <1>1
  <2> QED BY <2>1, <2>2
<1>5. ASSUME q >= 2 * p + 4  PROVE FALSE
  <2>1. (2 * p + 4) * t <= q * t
    BY <1>1, <1>5, Products
  <2>2. (2 * p + 4) * t = 2 * (p * t) + 4 * t
    BY <1>1
  <2> QED BY <1>1, <1>2, <1>3, <1>4, <2>1, <2>2
<1>6. ASSUME i <= 2 * d - 1  PROVE i * p <= 2 * (p * t) + p
  <2>1. i <= 2 * t + 1
    BY <1>1, <1>6
  <2>2. i * p <= (2 * t + 1) * p
    BY <1>1, <2>1, Products
  <2>3. (2 * t + 1) * p = 2 * (p * t) + p
    BY <1>1
  <2> QED BY <2>2, <2>3
<1>7. ASSUME i <= 2 * d - 1, q >= 2 * p + 2  PROVE FALSE
  <2>1. (2 * p + 2) * t <= q * t
    BY <1>1, <1>7, Products
  <2>2. (2 * p + 2) * t = 2 * (p * t) + 2 * t
    BY <1>1
  <2> QED BY <1>1, <1>2, <1>3, <1>6, <1>7, <2>1, <2>2
<1>8. ASSUME i <= 2 * d - 1, q = 2 * p + 1  PROVE r = 0
  <2>1. q * t = 2 * (p * t) + t
    BY <1>1, <1>8
  <2> QED BY <1>1, <1>2, <1>3, <1>6, <1>8, <2>1
<1>9. q <= 2 * s + 1
  BY <1>1, <1>5
<1>10. ASSUME i <= 2 * d - 1
       PROVE  q < 2 * s /\ (q + 1 < 2 * s \/ r = 0)
  BY <1>1, <1>7, <1>8, <1>10
<1> QED BY <1>9, <1>10

-----------------------------------------------------------------------------
(* Which tables end before entry i.                                        *)
LEMMA BeyondFacts ==
  ASSUME NEW i \in Int
  PROVE  /\ Beyond({"dmapos"}, i) = IF i > MaxHeight + 1 THEN {"dmapos"} ELSE {}
         /\ Beyond({"weightHfilter", "hfilterpos"}, i) =
              (IF i > MaxHeight THEN {"weightHfilter"} ELSE {})
                \cup (IF i > MaxHeight + 1 THEN {"hfilterpos"} ELSE {})
<1>1. Last["dmapos"] = MaxHeight + 1 /\ Last["weightHfilter"] = MaxHeight
      /\ Last["hfilterpos"] = MaxHeight + 1
  BY DEF Last
<1> QED BY <1>1 DEF Beyond

LEMMA FilterInitInv == FilterInit => FilterInv
<1> SUFFICES ASSUME FilterInit PROVE FilterInv
  OBVIOUS
<1>1. srcH \in Nat /\ srcH >= 4 /\ dstH \in Nat /\ MaxHeight \in Nat
  BY HalfIsTwo, FilterAssumption DEF FilterInit
<1>2. FilterTypeOK
  BY <1>1 DEF FilterInit, FilterTypeOK, Unknown
<1>3. Computed /\ Overrun
  BY <1>1 DEF FilterInit, Computed, Overrun
<1> QED BY <1>2, <1>3 DEF FilterInv

LEMMA FillOffsetInv == FilterInv /\ FillOffset => FilterInv'
<1> SUFFICES ASSUME FilterInv, FillOffset PROVE FilterInv'
  OBVIOUS
<1> USE DEF FilterInv, FilterTypeOK
<1>1. /\ table = "dmapos" /\ filled \in 1 .. srcH + 3
      /\ UNCHANGED <<srcH, dstH, srcTop, dstTop>>
      /\ past' = past \cup (IF filled > MaxHeight + 1 THEN {"dmapos"} ELSE {})
      /\ rows' = IF past' = {} THEN rows ELSE Unknown
  BY HalfIsTwo, BeyondFacts DEF FillOffset
<1>2. \/ filled < srcH + 3 /\ filled' = filled + 1 /\ table' = "dmapos"
      \/ filled = srcH + 3 /\ filled' = 0 /\ table' = "hfilterpos"
  BY <1>1 DEF FillOffset
<1>3. srcH \in Nat /\ dstH \in Nat /\ MaxHeight \in Nat /\ srcTop \in Nat /\ dstTop \in Nat
  BY HalfIsTwo, FilterAssumption
<1>4. FilterTypeOK'
  <2>1. filled' \in IF table' = "dmapos" THEN 1 .. srcH' + 3 ELSE 0 .. dstH' + 4
    BY <1>1, <1>2, <1>3
  <2>2. rows' \in [0 .. MaxHeight -> [row: Nat, part: Nat] \cup {NoRow}]
    BY <1>1 DEF Unknown
  <2> QED BY <1>1, <1>2, <2>1, <2>2
<1>5. Computed'
  BY <1>2 DEF Computed
<1>6. Overrun'
  BY <1>1, <1>2, <1>3 DEF Overrun
<1> QED BY <1>4, <1>5, <1>6

LEMMA FillRowInv == FilterInv /\ FillRow => FilterInv'
<1> SUFFICES ASSUME FilterInv, FillRow PROVE FilterInv'
  OBVIOUS
<1> USE DEF FilterInv, FilterTypeOK
<1>1. /\ table = "hfilterpos" /\ table' = table
      /\ filled < dstH + 4 /\ filled' = filled + 1
      /\ UNCHANGED <<srcH, dstH, srcTop, dstTop>>
      /\ past' = past \cup ((IF filled > MaxHeight THEN {"weightHfilter"} ELSE {})
                              \cup (IF filled > MaxHeight + 1 THEN {"hfilterpos"} ELSE {}))
  <2>1. filled \in Int
    BY HalfIsTwo DEF FillRow
  <2> QED BY <2>1, BeyondFacts DEF FillRow
<1>2. /\ srcH \in Nat /\ dstH \in Nat /\ MaxHeight \in Nat /\ srcTop \in Nat /\ dstTop \in Nat
      /\ Half(dstH) \in Nat /\ Half(srcH) \in Nat
  BY HalfIsTwo, FilterAssumption
<1>3. filled \in Nat /\ filled' \in 0 .. dstH' + 4
  BY <1>1, <1>2
<1>4. Overrun'
  BY <1>1, <1>2, <1>3 DEF Overrun
<1>5. CASE past' # {}
  <2>1. rows' = Unknown
    BY <1>5 DEF FillRow
  <2>2. rows' \in [0 .. MaxHeight -> [row: Nat, part: Nat] \cup {NoRow}]
    BY <2>1 DEF Unknown
  <2> QED BY <1>1, <1>3, <1>4, <1>5, <2>2 DEF Computed
<1>6. CASE past' = {}
  <2>1. PICK x \in [row: 0 .. filled * Half(srcH), part: 0 .. Half(dstH) - 1] :
          Position(filled, x) /\ rows' = [rows EXCEPT ![filled] = x]
    BY <1>6 DEF FillRow
  <2>2. past = {} /\ filled <= MaxHeight
    BY <1>1, <1>2, <1>3, <1>6
  <2>3. filled \in 0 .. MaxHeight
    BY <1>2, <1>3, <2>2
  <2>4. x \in [row: Nat, part: 0 .. Half(dstH) - 1] /\ x \in [row: Nat, part: Nat]
    BY <1>2, <1>3
  <2>5. FilterTypeOK'
    BY <1>1, <1>3, <2>1, <2>3, <2>4
  <2>6. ASSUME NEW i \in 0 .. filled' - 1
        PROVE  /\ rows'[i] \in [row: Nat, part: 0 .. Half(dstH) - 1]
               /\ Position(i, rows'[i])
    <3>1. i \in 0 .. MaxHeight
      BY <1>1, <1>2, <1>3, <2>2
    <3>2. CASE i = filled
      <4>1. rows'[i] = x
        BY <2>1, <3>1, <3>2
      <4> QED BY <2>1, <2>4, <3>2, <4>1
    <3>3. CASE i # filled
      <4>1. i \in 0 .. filled - 1 /\ rows'[i] = rows[i]
        BY <1>1, <1>3, <2>1, <3>1, <3>3
      <4> QED BY <1>1, <2>2, <4>1 DEF Computed
    <3> QED BY <3>2, <3>3
  <2>7. Computed'
    BY <1>1, <2>6 DEF Computed, Position, Half
  <2> QED BY <1>4, <2>5, <2>7
<1> QED BY <1>5, <1>6

LEMMA UpdateInv == FilterInv /\ Update => FilterInv'
<1> SUFFICES ASSUME FilterInv, Update PROVE FilterInv'
  OBVIOUS
<1> USE DEF FilterInv, FilterTypeOK
<1>1. PICK s \in Heights, d \in Heights : srcH' = s /\ dstH' = d
  BY DEF Update
<1>2. /\ table' = "dmapos" /\ filled' = 1 /\ rows' = rows /\ past' = past
      /\ srcTop' = Greater(srcTop, s) /\ dstTop' = Greater(dstTop, d)
      /\ table = "hfilterpos" /\ filled = dstH + 4
  BY <1>1 DEF Update, Complete
<1>3. /\ s \in Nat /\ d \in Nat /\ srcTop \in Nat /\ dstTop \in Nat /\ MaxHeight \in Nat
      /\ dstH \in Nat
  BY HalfIsTwo, FilterAssumption
<1>4. FilterTypeOK'
  BY <1>1, <1>2, <1>3 DEF Greater
<1>5. Computed'
  BY <1>2 DEF Computed
<1>6. Overrun'
  BY <1>1, <1>2, <1>3 DEF Overrun, Greater
<1> QED BY <1>4, <1>5, <1>6

(* The rows computed since the last UPDATE are at their positions, and the *)
(* tables of initHFilter hold them, for every MAXHEIGHT and all heights of *)
(* four to MAXHEIGHT, until a source higher than MAXHEIGHT - 2 or a        *)
(* picture higher than MAXHEIGHT - 3 is taken, which overruns them.        *)
THEOREM TablesHold == FilterSpec => []FilterInv
<1>1. FilterInv /\ [FilterNext]_filterVars => FilterInv'
  <2> SUFFICES ASSUME FilterInv, [FilterNext]_filterVars PROVE FilterInv'
    OBVIOUS
  <2>1. CASE FillOffset
    BY <2>1, FillOffsetInv
  <2>2. CASE FillRow
    BY <2>2, FillRowInv
  <2>3. CASE Update
    BY <2>3, UpdateInv
  <2>4. CASE UNCHANGED filterVars
    BY <2>4 DEF filterVars, FilterInv, FilterTypeOK, Computed, Overrun, Position, Half
  <2> QED BY <2>1, <2>2, <2>3, <2>4 DEF FilterNext
<1> QED BY <1>1, FilterInitInv, PTL DEF FilterSpec

LEMMA TablesInside == FilterInv => RowsInside
<1> SUFFICES ASSUME FilterInv PROVE RowsInside
  OBVIOUS
<1> DEFINE s == Half(srcH)
           d == Half(dstH)
<1>1. /\ s \in Nat /\ d \in Nat /\ s >= 2 /\ d >= 2
      /\ srcH \in Nat /\ dstH \in Nat /\ srcH >= 2 * s /\ dstH >= 2 * d
  <2>1. srcH \in Heights /\ dstH \in Heights
    BY DEF FilterInv, FilterTypeOK
  <2>2. /\ s \in Nat /\ s >= 2 /\ srcH \in Nat
        /\ srcH = 2 * s \/ srcH = 2 * s + 1
    BY <2>1, HalfIsTwo
  <2>3. /\ d \in Nat /\ d >= 2 /\ dstH \in Nat
        /\ dstH = 2 * d \/ dstH = 2 * d + 1
    BY <2>1, HalfIsTwo
  <2> HIDE DEF s, d
  <2> QED BY <2>2, <2>3
<1>2. Complete => table = "hfilterpos" /\ filled = dstH + 4
  BY DEF Complete
<1>3. ASSUME Complete, past = {}, NEW i \in 0 .. 2 * d + 1
      PROVE  /\ rows[i].row \in Nat /\ rows[i].part \in 0 .. d - 1
             /\ rows[i].row * (d - 1) + rows[i].part = i * (s - 1)
  <2>1. i \in 0 .. filled - 1
    BY <1>1, <1>2, <1>3
  <2> QED BY <1>2, <1>3, <2>1 DEF FilterInv, Computed, Position
<1> HIDE DEF s, d
<1>4. ASSUME Complete, past = {}, NEW h \in 0 .. d - 1  PROVE Inside(h, s)
  <2>1. h \in 0 .. 2 * d + 1
    BY <1>1
  <2>2. /\ rows[h].row \in Nat /\ rows[h].part \in 0 .. d - 1
        /\ rows[h].row * (d - 1) + rows[h].part = h * (s - 1)
    BY <1>3, <1>4, <2>1
  <2> QED BY <1>1, <2>2, ChromaInside DEF Inside
<1>5. ASSUME Complete, past = {}, s <= d, NEW i \in 0 .. 2 * d - 1  PROVE Inside(i, srcH)
  <2>1. i \in 0 .. 2 * d + 1 /\ i <= 2 * d - 1
    BY <1>1
  <2>2. /\ rows[i].row \in Nat /\ rows[i].part \in 0 .. d - 1
        /\ rows[i].row * (d - 1) + rows[i].part = i * (s - 1)
    BY <1>3, <1>5, <2>1
  <2>3. rows[i].row < 2 * s /\ (rows[i].row + 1 < 2 * s \/ rows[i].part = 0)
    BY <1>1, <1>5, <2>1, <2>2, LumaInside
  <2> QED BY <1>1, <2>2, <2>3 DEF Inside
<1>6. ASSUME Complete, past = {}, s <= d, NEW i \in 0 .. 2 * d + 1
      PROVE  rows[i].row + 1 <= srcH + 3
  <2>1. /\ rows[i].row \in Nat /\ rows[i].part \in 0 .. d - 1
        /\ rows[i].row * (d - 1) + rows[i].part = i * (s - 1)
    BY <1>3, <1>6
  <2>2. rows[i].row <= 2 * s + 1
    BY <1>1, <1>6, <2>1, LumaInside
  <2> QED BY <1>1, <2>1, <2>2
<1>7. /\ srcTop <= MaxHeight - 2 /\ dstTop <= MaxHeight - 3 => past = {}
      /\ Complete =>
           /\ srcTop > MaxHeight - 2 <=> "dmapos" \in past
           /\ dstTop > MaxHeight - 3 <=> "weightHfilter" \in past
           /\ dstTop > MaxHeight - 2 <=> "hfilterpos" \in past
  <2>1. srcTop \in Nat /\ dstTop \in Nat /\ dstH \in Nat /\ MaxHeight \in Nat
    BY HalfIsTwo, FilterAssumption DEF FilterInv, FilterTypeOK
  <2>2. past \subseteq {"weightHfilter", "dmapos", "hfilterpos"} /\ Overrun
    BY DEF FilterInv, FilterTypeOK
  <2>3. srcTop <= MaxHeight - 2 /\ dstTop <= MaxHeight - 3 => past = {}
    BY <2>1, <2>2 DEF Overrun
  <2>4. Complete =>
          /\ srcTop > MaxHeight - 2 <=> "dmapos" \in past
          /\ dstTop > MaxHeight - 3 <=> "weightHfilter" \in past
          /\ dstTop > MaxHeight - 2 <=> "hfilterpos" \in past
    BY <1>2, <2>1, <2>2 DEF Overrun
  <2> QED BY <2>3, <2>4
<1> QED BY <1>4, <1>5, <1>6, <1>7 DEF RowsInside, s, d

(* No row is mixed from what lies beyond its plane, as RowsInside has it,  *)
(* and the tables are overrun by exactly the heights it names, for every   *)
(* MAXHEIGHT and all heights of four to MAXHEIGHT: initHFilter with the    *)
(* gets of the frame loop in spu_yuv2argb_scaler.c.                        *)
THEOREM RowsStayInside == FilterSpec => []RowsInside
BY TablesHold, TablesInside, PTL
-----------------------------------------------------------------------------
(* yuv2rgb: who has the message, and which frame the program is at.        *)

NewestFrame == Len(asked)

(* No message is out, the program has done all frames.                     *)
CscQuiet ==
  /\ answered = NewestFrame /\ cscIn = <<>> /\ cscOut = <<>>
  /\ \/ NewestFrame = 0 /\ cscPc \in {"none", "boot", "first"} /\ flips = 0
     \/ NewestFrame > 0 /\ cscPc = "wait" /\ flips = IndexOf(NewestFrame)
        /\ line = height /\ asked[NewestFrame] = taken

(* A message is in the mailbox,                                            *)
CscSent ==
  /\ NewestFrame = answered + 1 /\ cscOut = <<>>
  /\ \/ /\ NewestFrame = 1 /\ cscIn = <<"RUN">>
        /\ cscPc \in {"none", "boot", "first"} /\ flips = 0
     \/ /\ NewestFrame > 1 /\ cscIn \in {<<"RUN">>, <<"UPDATE">>}
        /\ cscPc = "wait" /\ flips = IndexOf(NewestFrame - 1)

(* its frame is being converted,                                           *)
CscWorking ==
  /\ NewestFrame = answered + 1 /\ cscIn = <<>> /\ cscOut = <<>>
  /\ cscPc \in {"fetch", "convert", "post"} /\ (cscPc = "post" => line = height)
  /\ flips = IndexOf(NewestFrame) /\ asked[NewestFrame] = taken

(* or has been, and the answer is in the other mailbox.                    *)
CscAnswered ==
  /\ NewestFrame = answered + 1 /\ cscIn = <<>> /\ cscOut = <<"RDY">>
  /\ cscPc = "wait" /\ line = height
  /\ flips = IndexOf(NewestFrame) /\ asked[NewestFrame] = taken

(* After csc_yuv2rgb_destroy.                                              *)
CscLeaving ==
  /\ cscHost \in {"join", "joined"}
  /\ cscIn \in {<<>>, <<"STOP">>, <<"STOP", "STOP">>} /\ cscOut = <<>>
  /\ cscPc \in {"none", "boot", "first", "wait", "exit"}
  /\ answered = NewestFrame

CscCalls ==
  /\ CscLeaving \/ (cscHost \in {"idle", "send", "receive"}
                    /\ (CscQuiet \/ CscSent \/ CscWorking \/ CscAnswered))
  /\ cscHost = "send" => /\ answered = NewestFrame /\ drawn = NewestFrame + 1
                         /\ cscOrder = "UPDATE" => answered > 0
  /\ cscHost = "receive" => answered < NewestFrame
  /\ cscThread = "new" => cscPc = "none"

(* The program has the width of the newest frame, or an UPDATE brings it.  *)
CscWidths ==
  /\ taken # width => \/ cscHost = "send" /\ cscOrder = "UPDATE"
                      \/ cscIn = <<"UPDATE">>
                      \/ cscHost \in {"join", "joined"}
  /\ NewestFrame > 0 /\ cscHost # "send" => asked[NewestFrame] = width

(* The next pair of lines a buffer is for.                                 *)
NextLine(s) == IF line % 2 = s THEN line ELSE line + 1

(* A pair of the newest frame, as it should be.                            *)
Newest(p) == [frame |-> NewestFrame, pair |-> p, width |-> taken, chroma |-> taken = chromaOf]

(* A buffer holds the next pair it is for, of this frame, or the command   *)
(* under way to it will bring it, unless lines fetched before overtake it. *)
LineComing(s) ==
  LET b == <<"tgi", s>> IN
    \/ NextLine(s) \in overtaken
    \/ moving[b] = {} /\ lines[b] = Newest(NextLine(s))
    \/ moving[b] = {<<flips, NextLine(s)>>}

LinesIn == cscPc = "convert" => line <= height /\ \A s \in {0, 1} : LineComing(s)

(* The program is at the newest frame, or has done it.                     *)
AtFrame == cscPc \in {"convert", "post"}
           \/ (cscPc = "wait" /\ cscIn = <<>> /\ cscHost \in {"idle", "send", "receive"})

(* An output buffer has one command under way at most; if that is for a    *)
(* pair of this frame, for one of the last two, which the buffer holds.    *)
LineLeaving(s) ==
  \/ moving[<<"tgo", s>>] = {}
  \/ \E c \in Places :
       /\ moving[<<"tgo", s>>] = {c} /\ c[2] % 2 = s
       /\ AtFrame /\ c[1] = flips /\ c[2] < line =>
            c[2] >= line - 2 /\ (c[2] \in overtaken \/ lines[<<"tgo", s>>] = Newest(c[2]))

LinesOut == \A s \in {0, 1} : LineLeaving(s)

(* The pairs converted so far are in main memory or on their way there,    *)
(* and in the end only the last but one can be on its way.                 *)
PairShown(p) ==
  \/ p \in overtaken
  \/ shownLines[<<flips, p>>] = Newest(p)
  \/ moving[<<"tgo", p % 2>>] = {<<flips, p>>}

LinesShown ==
  AtFrame =>
    /\ \A p \in 0 .. line - 1 : PairShown(p)
    /\ cscPc # "convert" => line = height /\ moving[<<"tgo", (line + 1) % 2>>] = {}

CscMoving == moving \in [CscTags -> SUBSET ({0, 1} \X Nat)]

CscInv == CscTypeOK /\ CscMoving /\ CscCalls /\ CscWidths /\ LinesIn /\ LinesOut /\ LinesShown

-----------------------------------------------------------------------------
(* What the proof needs of sequences and of the frames' numbers.           *)

LEMMA Mail ==
  /\ \A m \in {"RUN", "UPDATE", "STOP", "RDY"} :
       /\ Append(<<>>, m) = <<m>> /\ Head(<<m>>) = m /\ Tail(<<m>>) = <<>> /\ <<m>> # <<>>
       /\ Len(<<m>>) = 1
  /\ \A m, k \in {"RUN", "UPDATE", "STOP"} :
       /\ Head(<<m, k>>) = m /\ Tail(<<m, k>>) = <<k>> /\ <<m, k>> # <<>>
       /\ Append(<<m>>, k) = <<m, k>> /\ <<>> \o <<m, k>> = <<m, k>> /\ <<>> \o <<m>> = <<m>>
       /\ <<m>> \in Seq({"RUN", "UPDATE", "STOP"}) /\ <<m, k>> \in Seq({"RUN", "UPDATE", "STOP"})
       /\ Len(<<m, k>>) = 2
       /\ <<m, k>> # <<m>> /\ <<m>> # <<m, k>>
<1>1. ASSUME NEW m \in {"RUN", "UPDATE", "STOP", "RDY"}
      PROVE  /\ Append(<<>>, m) = <<m>> /\ Head(<<m>>) = m /\ Tail(<<m>>) = <<>> /\ <<m>> # <<>>
             /\ Len(<<m>>) = 1
  OBVIOUS
<1>2. ASSUME NEW m \in {"RUN", "UPDATE", "STOP"}, NEW k \in {"RUN", "UPDATE", "STOP"}
      PROVE  /\ Head(<<m, k>>) = m /\ Tail(<<m, k>>) = <<k>> /\ <<m, k>> # <<>>
             /\ Append(<<m>>, k) = <<m, k>> /\ <<>> \o <<m, k>> = <<m, k>> /\ <<>> \o <<m>> = <<m>>
             /\ <<m>> \in Seq({"RUN", "UPDATE", "STOP"}) /\ <<m, k>> \in Seq({"RUN", "UPDATE", "STOP"})
             /\ Len(<<m, k>>) = 2
             /\ <<m, k>> # <<m>> /\ <<m>> # <<m, k>>
  <2> DEFINE Words == {"RUN", "UPDATE", "STOP"}
  <2>1. <<m>> \in Seq(Words) /\ <<m, k>> \in Seq(Words) /\ <<k>> \in Seq(Words)
        /\ <<>> \in Seq(Words)
    OBVIOUS
  <2>2. Len(<<m>>) = 1 /\ Len(<<m, k>>) = 2 /\ Len(<<k>>) = 1
    OBVIOUS
  <2>3. Append(<<m>>, k) = <<m, k>>
    <3>1. /\ Append(<<m>>, k) \in Seq(Words) /\ Len(Append(<<m>>, k)) = 2
          /\ Append(<<m>>, k)[1] = m /\ Append(<<m>>, k)[2] = k
      BY <2>1, <2>2
    <3>2. \A i \in 1 .. 2 : Append(<<m>>, k)[i] = <<m, k>>[i]
      BY <3>1
    <3> HIDE DEF Words
    <3>3. QED  BY <2>1, <2>2, <3>1, <3>2, SeqEqual
  <2>4. Tail(<<m, k>>) = <<k>> /\ Head(<<m, k>>) = m
    <3>1. /\ Tail(<<m, k>>) \in Seq(Words) /\ Len(Tail(<<m, k>>)) = 1
          /\ Tail(<<m, k>>)[1] = k
      BY <2>1, <2>2
    <3>2. \A i \in 1 .. 1 : Tail(<<m, k>>)[i] = <<k>>[i]
      BY <3>1
    <3>3. Head(<<m, k>>) = m
      OBVIOUS
    <3> HIDE DEF Words
    <3>4. QED  BY <2>1, <2>2, <3>1, <3>2, <3>3, SeqEqual
  <2> HIDE DEF Words
  <2>5. <<>> \o <<m, k>> = <<m, k>> /\ <<>> \o <<m>> = <<m>>
    BY <2>1, ConcatEmptySeq
  <2>6. <<m, k>> # <<>> /\ <<m, k>> # <<m>> /\ <<m>> # <<m, k>>
    BY <2>2
  <2>7. QED  BY <2>1, <2>2, <2>3, <2>4, <2>5, <2>6 DEF Words
<1>3. QED  BY <1>1, <1>2

LEMMA Index ==
  ASSUME NEW n \in Nat
  PROVE  /\ IndexOf(n) \in {0, 1} /\ IndexOf(n + 1) = 1 - IndexOf(n)
         /\ IndexOf(1) = 0
         /\ n % 2 \in {0, 1} /\ (n + 1) % 2 = 1 - (n % 2)
BY DEF IndexOf

LEMMA Most ==
  /\ MostPairs \in PairCounts /\ MostPairs \in Nat /\ MostPairs > 0
  /\ \A n \in PairCounts : n \in Nat /\ 0 < n /\ n <= MostPairs
<1>1. \E n \in PairCounts : \A m \in PairCounts : m <= n
  BY CscAssumption
<1>2. MostPairs \in PairCounts /\ \A m \in PairCounts : m <= MostPairs
  BY <1>1, Zenon DEF MostPairs
<1>3. QED  BY <1>2, CscAssumption

LEMMA Longer ==
  ASSUME asked \in Seq(Widths), width \in Widths, asked' = Append(asked, width)
  PROVE  /\ asked' \in Seq(Widths)
         /\ NewestFrame \in Nat /\ NewestFrame' = NewestFrame + 1
         /\ asked'[NewestFrame'] = width
BY DEF NewestFrame

-----------------------------------------------------------------------------
(* The calls over a step.                                                  *)

LEMMA MailTypes ==
  \A q \in {<<>>, <<"RUN">>, <<"UPDATE">>, <<"STOP">>, <<"STOP", "STOP">>} :
    q \in Seq({"RUN", "UPDATE", "STOP"}) /\ Len(q) <= 4
<1>1. <<>> \in Seq({"RUN", "UPDATE", "STOP"}) /\ Len(<<>>) <= 4
  OBVIOUS
<1>2. \A m \in {"RUN", "UPDATE", "STOP"} : Len(<<m>>) <= 4 /\ Len(<<m, m>>) <= 4
  OBVIOUS
<1>3. QED  BY <1>1, <1>2, Mail, Zenon

CscPhase == CscQuiet \/ CscSent \/ CscWorking \/ CscAnswered

LEMMA CscSteady ==
  ASSUME UNCHANGED <<asked, answered, cscIn, cscOut, cscPc, flips, line, taken, height>>
  PROVE  /\ CscPhase' <=> CscPhase
         /\ NewestFrame' = NewestFrame
BY DEF CscPhase, CscQuiet, CscSent, CscWorking, CscAnswered, NewestFrame, IndexOf

(* Whose turn it is decides the phase.                                     *)
LEMMA CscTurns ==
  ASSUME CscTypeOK, CscCalls
  PROVE  /\ NewestFrame \in Nat /\ answered \in Nat /\ answered <= NewestFrame
         /\ drawn \in NewestFrame .. NewestFrame + 1
         /\ cscHost \in {"idle", "send", "receive"} => CscPhase
         /\ cscHost \in {"join", "joined"} => CscLeaving
         /\ cscHost \in {"idle", "send", "receive", "join", "joined"}
         /\ answered = NewestFrame /\ CscPhase => CscQuiet
         /\ cscOut # <<>> /\ CscPhase => CscAnswered
         /\ cscPc \in {"fetch", "convert", "post"} => CscWorking
         /\ cscPc \in {"first", "wait"} /\ cscIn # <<>> /\ CscPhase => CscSent
<1>1. /\ NewestFrame \in Nat /\ answered \in Nat /\ answered <= NewestFrame
      /\ drawn \in NewestFrame .. NewestFrame + 1
      /\ cscHost \in {"idle", "send", "receive", "join", "joined"}
  BY DEF CscTypeOK, NewestFrame
<1>2. /\ cscHost \in {"idle", "send", "receive"} => CscPhase
      /\ cscHost \in {"join", "joined"} => CscLeaving
  BY DEF CscCalls, CscPhase, CscLeaving
<1>3. answered = NewestFrame /\ CscPhase => CscQuiet
  BY <1>1 DEF CscPhase, CscSent, CscWorking, CscAnswered
<1>4. /\ cscOut # <<>> /\ CscPhase => CscAnswered
      /\ cscIn # <<>> /\ CscPhase => CscSent
  BY DEF CscPhase, CscQuiet, CscSent, CscWorking, CscAnswered
<1>5. cscPc \in {"fetch", "convert", "post"} => CscWorking
  BY <1>1, <1>2 DEF CscPhase, CscQuiet, CscSent, CscAnswered, CscLeaving
<1>6. QED  BY <1>1, <1>2, <1>3, <1>4, <1>5

LEMMA StepCscCalls ==
  ASSUME CscTypeOK, CscCalls, CscWidths, [CscNext]_cscVars
  PROVE  CscCalls' /\ CscWidths'
<1> DEFINE Goals == CscCalls' /\ CscWidths'
<1>0. /\ height \in PairCounts /\ width \in Widths /\ taken \in Widths /\ asked \in Seq(Widths)
      /\ cscOrder \in {"RUN", "UPDATE"} /\ <<"UPDATE">> # <<>> /\ <<"RUN">> # <<>>
      /\ <<"RUN">> # <<"UPDATE">>
  BY Mail DEF CscTypeOK
<1>1. CASE CscDraw
  <2>1. /\ UNCHANGED <<asked, answered, cscIn, cscOut, cscPc, flips, line, taken, cscHost, height,
                       width,
                       cscThread, cscOrder>>
        /\ cscHost = "idle"
    BY <1>1 DEF CscDraw, cscSpuVars, cscDmaVars
  <2>2. CscPhase' /\ NewestFrame' = NewestFrame
    BY <2>1, CscSteady, CscTurns
  <2>3. CscCalls'
    BY <2>1, <2>2 DEF CscCalls, CscPhase
  <2>4. CscWidths'
    BY <2>1, <2>2 DEF CscWidths
  <2>5. QED  BY <2>3, <2>4
<1>2. ASSUME NEW w \in Widths, CscUpdate(w)  PROVE Goals
  <2>1. /\ UNCHANGED <<asked, answered, drawn, cscIn, cscOut, cscPc, flips, line, taken, height,
                       cscThread>>
        /\ cscHost = "idle" /\ cscHost' = "send" /\ cscOrder' = "UPDATE"
        /\ answered = NewestFrame /\ answered > 0 /\ drawn > answered
    BY <1>2 DEF CscUpdate, cscSpuVars, cscDmaVars, NewestFrame
  <2>2. CscPhase' /\ NewestFrame' = NewestFrame
    BY <2>1, CscSteady, CscTurns
  <2>3. drawn = NewestFrame + 1
    BY <2>1, CscTurns
  <2>4. CscCalls'
    BY <2>1, <2>2, <2>3 DEF CscCalls, CscPhase
  <2>5. CscWidths'
    BY <2>1, <2>2 DEF CscWidths
  <2>6. QED  BY <2>4, <2>5
<1>3. CASE CscRun
  <2>1. /\ UNCHANGED <<asked, answered, drawn, cscIn, cscOut, cscPc, flips, line, taken, cscThread,
                       height, width>>
        /\ cscHost = "idle" /\ cscHost' = "send" /\ cscOrder' = "RUN"
        /\ answered = NewestFrame /\ drawn > answered
    BY <1>3 DEF CscRun, cscSpuVars, cscDmaVars, NewestFrame
  <2>2. CscPhase' /\ NewestFrame' = NewestFrame /\ CscQuiet
    BY <2>1, CscSteady, CscTurns
  <2>3. drawn = NewestFrame + 1
    BY <2>1, CscTurns
  <2>4. CscCalls'
    BY <2>1, <2>2, <2>3 DEF CscCalls, CscPhase
  <2>5. cscIn = <<>>
    BY <2>2 DEF CscQuiet
  <2>6. taken = width
    BY <1>0, <2>1, <2>5 DEF CscWidths
  <2>7. CscWidths'
    BY <2>1, <2>2, <2>6 DEF CscWidths
  <2>8. QED  BY <2>4, <2>7
<1>4. CASE CscSend
  <2>1. /\ UNCHANGED <<answered, drawn, cscOut, cscPc, flips, line, taken, cscThread, height,
                       width, cscOrder>>
        /\ cscHost = "send" /\ cscHost' = "idle"
        /\ cscIn' = Append(cscIn, cscOrder) /\ asked' = Append(asked, width)
    BY <1>4 DEF CscSend, cscSpuVars, cscDmaVars
  <2>2. /\ CscQuiet /\ answered = NewestFrame /\ NewestFrame \in Nat
        /\ cscOrder = "UPDATE" => answered > 0
    BY <2>1, CscTurns DEF CscCalls
  <2>3. cscIn' = <<cscOrder>> /\ NewestFrame' = NewestFrame + 1 /\ asked'[NewestFrame'] = width
    BY <1>0, <2>1, <2>2, Mail, Longer DEF CscQuiet
  <2>4. CscSent'
    <3>1. CASE NewestFrame = 0
      <4>1. cscOrder = "RUN"
        BY <1>0, <2>2, <3>1
      <4>2. QED  BY <2>1, <2>2, <2>3, <3>1, <4>1 DEF CscQuiet, CscSent
    <3>2. CASE NewestFrame > 0
      <4>1. flips = IndexOf(NewestFrame) /\ cscPc = "wait" /\ cscOut = <<>>
        BY <2>2, <3>2 DEF CscQuiet
      <4>2. IndexOf(NewestFrame - 1)' = IndexOf(NewestFrame)
        BY <2>2, <2>3 DEF IndexOf
      <4>3. cscIn' \in {<<"RUN">>, <<"UPDATE">>}
        BY <1>0, <2>3
      <4>4. NewestFrame' > 1 /\ NewestFrame' = answered' + 1
        BY <2>1, <2>2, <2>3, <3>2
      <4>5. QED  BY <2>1, <4>1, <4>2, <4>3, <4>4 DEF CscSent
    <3>3. QED  BY <2>2, <3>1, <3>2
  <2>5. CscCalls'
    BY <2>1, <2>4 DEF CscCalls
  <2>6. taken # width => cscOrder = "UPDATE"
    <3>1. cscIn = <<>>
      BY <2>2 DEF CscQuiet
    <3>2. QED  BY <1>0, <2>1, <3>1 DEF CscWidths
  <2>7. CscWidths'
    BY <2>1, <2>3, <2>6 DEF CscWidths
  <2>8. QED  BY <2>5, <2>7
<1>5. CASE CscReceive
  <2>1. /\ UNCHANGED <<asked, answered, drawn, cscIn, cscOut, cscPc, flips, line, taken, cscThread,
                       height, width>>
        /\ cscHost = "idle" /\ cscHost' = "receive" /\ answered < NewestFrame
    BY <1>5 DEF CscReceive, cscSpuVars, cscDmaVars, NewestFrame
  <2>2. CscPhase' /\ NewestFrame' = NewestFrame
    BY <2>1, CscSteady, CscTurns
  <2>3. CscCalls'
    BY <2>1, <2>2 DEF CscCalls, CscPhase
  <2>4. CscWidths'
    BY <2>1, <2>2 DEF CscWidths
  <2>5. QED  BY <2>3, <2>4
<1>6. CASE CscReceived
  <2>1. /\ UNCHANGED <<asked, drawn, cscIn, cscPc, flips, line, taken, cscThread, height,
                       width>>
        /\ cscHost = "receive" /\ cscHost' = "idle" /\ cscOut # <<>> /\ cscOut' = <<>>
        /\ answered' = answered + 1
    BY <1>6 DEF CscReceived, cscSpuVars, cscDmaVars
  <2>2. CscAnswered /\ NewestFrame' = NewestFrame /\ NewestFrame \in Nat /\ answered \in Nat
    BY <2>1, CscTurns DEF NewestFrame
  <2>3. CscQuiet'
    <3>1. NewestFrame > 0 /\ answered' = NewestFrame'
      BY <2>1, <2>2 DEF CscAnswered
    <3>2. QED  BY <2>1, <2>2, <3>1 DEF CscAnswered, CscQuiet, IndexOf
  <2>4. CscCalls'
    BY <2>1, <2>3 DEF CscCalls
  <2>5. CscWidths'
    BY <2>1, <2>2 DEF CscWidths
  <2>6. QED  BY <2>4, <2>5
<1>7. CASE CscDestroy
  <2>1. PICK twice \in BOOLEAN : cscIn' = cscIn \o (IF twice THEN <<"STOP", "STOP">> ELSE <<"STOP">>)
    BY <1>7 DEF CscDestroy
  <2>2. /\ UNCHANGED <<asked, answered, drawn, cscOut, cscPc, flips, line, taken, cscThread, height,
                       width>>
        /\ cscHost = "idle" /\ cscHost' = "join" /\ answered = NewestFrame
    BY <1>7 DEF CscDestroy, cscSpuVars, cscDmaVars, NewestFrame
  <2>3. CscQuiet /\ NewestFrame' = NewestFrame
    BY <2>2, CscTurns DEF NewestFrame
  <2>4. cscIn' \in {<<"STOP">>, <<"STOP", "STOP">>}
    BY <2>1, <2>3, Mail DEF CscQuiet
  <2>5. CscLeaving'
    BY <2>2, <2>3, <2>4 DEF CscQuiet, CscLeaving
  <2>6. CscCalls'
    BY <2>2, <2>5 DEF CscCalls
  <2>7. CscWidths'
    BY <2>2, <2>3 DEF CscWidths
  <2>8. QED  BY <2>6, <2>7
<1>8. ASSUME UNCHANGED <<asked, answered, drawn, cscIn, cscOut, cscPc, flips, line, taken, height,
                         width, cscOrder>>,
             \/ cscHost = "join" /\ cscHost' = "joined" /\ UNCHANGED cscThread
             \/ cscHost' = cscHost /\ (cscThread' = cscThread \/ cscThread' = "ended")
      PROVE  Goals
  <2>1. (CscPhase' <=> CscPhase) /\ NewestFrame' = NewestFrame
    BY <1>8, CscSteady
  <2>2. CscCalls'
    BY <1>8, <2>1 DEF CscCalls, CscPhase, CscLeaving
  <2>3. CscWidths'
    BY <1>8, <2>1 DEF CscWidths
  <2>4. QED  BY <2>2, <2>3
<1>9. CASE CscJoined \/ CscEnded \/ (\E t \in CscTags : CscMoved(t)) \/ UNCHANGED cscVars
  <2>1. CASE CscJoined
    BY <1>8, <2>1 DEF CscJoined, cscSpuVars, cscDmaVars
  <2>2. CASE CscEnded
    BY <1>8, <2>2 DEF CscEnded, cscHostVars, cscSpuVars, cscDmaVars
  <2>3. CASE \E t \in CscTags : CscMoved(t)
    BY <1>8, <2>3 DEF CscMoved, cscHostVars, cscSpuVars
  <2>4. CASE UNCHANGED cscVars
    BY <1>8, <2>4 DEF cscVars, cscHostVars, cscSpuVars
  <2>5. QED  BY <1>9, <2>1, <2>2, <2>3, <2>4
<1>10. CASE CscLoad \/ CscBoot
  <2>1. /\ UNCHANGED <<asked, answered, drawn, cscIn, cscOut, flips, line, height, width, cscOrder, cscHost>>
        /\ \/ cscPc = "none" /\ cscPc' = "boot" /\ cscThread' = "runs" /\ taken' = taken
           \/ cscPc' = cscPc /\ cscThread' = "ended" /\ taken' = taken
           \/ cscPc = "boot" /\ cscPc' = "first" /\ cscThread' = cscThread /\ taken' = width
    BY <1>10 DEF CscLoad, CscBoot, CscCalls, cscHostVars, cscDmaVars
  <2>2. NewestFrame' = NewestFrame
    BY <2>1 DEF NewestFrame
  <2>3. CASE cscPc' = cscPc /\ taken' = taken /\ cscThread' = "ended"
    BY <1>8, <2>1, <2>3
  <2>4. CASE cscPc \in {"none", "boot"} /\ cscPc' \in {"boot", "first"} /\ cscThread' # "new"
             /\ (taken' = taken \/ taken' = width)
    <3>1. (CscQuiet => CscQuiet') /\ (CscSent => CscSent') /\ (CscLeaving => CscLeaving')
      BY <2>1, <2>2, <2>4 DEF CscQuiet, CscSent, CscLeaving, IndexOf
    <3>2. ~CscWorking /\ ~CscAnswered
      BY <2>4 DEF CscWorking, CscAnswered
    <3>3. CscCalls'
      BY <2>1, <2>2, <2>4, <3>1, <3>2 DEF CscCalls
    <3>4. CscWidths'
      BY <2>1, <2>2, <2>4 DEF CscWidths
    <3>5. QED  BY <3>3, <3>4
  <2>5. cscPc = "boot" => cscThread # "new"
    BY DEF CscCalls
  <2>6. QED  BY <2>1, <2>3, <2>4, <2>5
<1>11. CASE CscFirst \/ CscTake
  <2>1. /\ UNCHANGED <<asked, answered, drawn, cscOut, line, height, width, cscOrder, cscHost, cscThread>>
        /\ cscPc \in {"first", "wait"} /\ cscIn # <<>> /\ cscIn' = Tail(cscIn)
        /\ cscPc' = (IF Head(cscIn) = "STOP" THEN "exit" ELSE "fetch")
        /\ flips' = (IF cscPc = "first" THEN flips ELSE 1 - flips)
        /\ taken' = (IF cscPc = "wait" /\ Head(cscIn) = "UPDATE" THEN width ELSE taken)
    BY <1>11 DEF CscFirst, CscTake, cscHostVars, cscDmaVars
  <2>2. NewestFrame' = NewestFrame
    BY <2>1 DEF NewestFrame
  <2>3. CASE CscLeaving
    <3>1. /\ Head(cscIn) = "STOP" /\ cscIn' \in {<<>>, <<"STOP">>}
          /\ cscHost \in {"join", "joined"}
      BY <2>1, <2>3, Mail DEF CscLeaving
    <3>2. CscLeaving'
      BY <2>1, <2>2, <2>3, <3>1 DEF CscLeaving
    <3>3. CscCalls'
      BY <2>1, <3>1, <3>2 DEF CscCalls
    <3>4. CscWidths'
      BY <2>1, <2>2, <3>1 DEF CscWidths
    <3>5. QED  BY <3>3, <3>4
  <2>4. CASE cscHost \in {"idle", "send", "receive"}
    <3>1. CscSent /\ NewestFrame = answered + 1 /\ answered \in Nat /\ cscHost # "send"
      BY <2>1, <2>4, CscTurns DEF CscSent, CscCalls
    <3>2. asked[NewestFrame] = width /\ (taken # width => cscIn = <<"UPDATE">>)
      BY <2>4, <3>1 DEF CscWidths
    <3>3. /\ Head(cscIn) # "STOP" /\ cscIn' = <<>>
          /\ cscIn = <<"UPDATE">> => Head(cscIn) = "UPDATE"
      <4>1. cscIn \in {<<"RUN">>, <<"UPDATE">>}
        BY <3>1 DEF CscSent
      <4>2. CASE cscIn = <<"RUN">>
        BY <1>0, <2>1, <4>2, Mail
      <4>3. CASE cscIn = <<"UPDATE">>
        BY <2>1, <4>3, Mail
      <4>4. QED  BY <4>1, <4>2, <4>3
    <3>4. flips' = IndexOf(NewestFrame) /\ taken' = width
      <4>1. CASE NewestFrame = 1 /\ cscIn = <<"RUN">> /\ flips = 0 /\ cscPc = "first"
        BY <1>0, <2>1, <3>2, <4>1, Index
      <4>2. CASE NewestFrame > 1 /\ cscPc = "wait" /\ flips = IndexOf(NewestFrame - 1)
        <5>1. NewestFrame - 1 \in Nat /\ (NewestFrame - 1) + 1 = NewestFrame
          BY <3>1, <4>2
        <5>2. IndexOf((NewestFrame - 1) + 1) = 1 - IndexOf(NewestFrame - 1)
          BY <5>1, Index
        <5>3. IndexOf(NewestFrame) = 1 - IndexOf(NewestFrame - 1)
          BY <5>1, <5>2
        <5>4. taken' = width
          BY <2>1, <3>2, <3>3, <4>2
        <5>5. QED  BY <2>1, <4>2, <5>3, <5>4
      <4>3. QED  BY <2>1, <3>1, <4>1, <4>2 DEF CscSent
    <3>5. cscPc' = "fetch"
      BY <2>1, <3>3
    <3>6. CscWorking'
      BY <2>1, <2>2, <3>1, <3>2, <3>3, <3>4, <3>5 DEF CscWorking, CscSent, IndexOf
    <3>7. CscCalls'
      BY <2>1, <2>2, <2>4, <3>1, <3>6 DEF CscCalls
    <3>8. CscWidths'
      BY <2>1, <2>2, <3>1, <3>2, <3>4 DEF CscWidths
    <3>9. QED  BY <3>7, <3>8
  <2>5. QED  BY <2>3, <2>4, CscTurns
<1>12. CASE CscFetch \/ CscConvert \/ CscFinish
  <2>1. /\ UNCHANGED <<asked, answered, drawn, cscIn, cscOut, flips, taken, height, width, cscOrder, cscHost,
                       cscThread>>
        /\ cscPc \in {"fetch", "convert"} /\ cscPc' \in {"convert", "post"}
        /\ cscPc' = "post" => line' = height'
    BY <1>12 DEF CscFetch, CscConvert, CscFinish, cscHostVars, cscDmaVars
  <2>2. NewestFrame' = NewestFrame /\ CscWorking
    BY <2>1, CscTurns DEF NewestFrame
  <2>3. CscWorking' /\ ~CscLeaving
    BY <2>1, <2>2 DEF CscWorking, CscLeaving, IndexOf
  <2>4. CscCalls'
    BY <2>1, <2>2, <2>3 DEF CscCalls
  <2>5. CscWidths'
    BY <2>1, <2>2 DEF CscWidths
  <2>6. QED  BY <2>4, <2>5
<1>13. CASE CscPost
  <2>1. /\ UNCHANGED <<asked, answered, drawn, cscIn, flips, taken, height, width, cscOrder, cscHost,
                       cscThread, line>>
        /\ cscPc = "post" /\ cscPc' = "wait" /\ cscOut' = <<"RDY">>
    BY <1>13 DEF CscPost, cscHostVars, cscDmaVars
  <2>2. NewestFrame' = NewestFrame /\ CscWorking
    BY <2>1, CscTurns DEF NewestFrame
  <2>3. CscAnswered' /\ ~CscLeaving
    BY <2>1, <2>2 DEF CscWorking, CscAnswered, CscLeaving, IndexOf
  <2>4. CscCalls'
    BY <2>1, <2>2, <2>3 DEF CscCalls
  <2>5. CscWidths'
    BY <2>1, <2>2 DEF CscWidths
  <2>6. QED  BY <2>4, <2>5
<1>14. QED
  BY <1>1, <1>2, <1>3, <1>4, <1>5, <1>6, <1>7, <1>9, <1>10, <1>11, <1>12, <1>13
     DEF CscNext, CscCaller, CscService

-----------------------------------------------------------------------------
(* Types over a step.                                                      *)

LEMMA CscTagsAre ==
  /\ \A s \in {0, 1} : <<"tgi", s>> \in CscTags /\ <<"tgo", s>> \in CscTags
  /\ \A t \in CscTags : \/ t = <<"tgi", t[2]>> /\ t[1] = "tgi" /\ t[2] \in {0, 1}
                        \/ t = <<"tgo", t[2]>> /\ t[1] = "tgo" /\ t[2] \in {0, 1}
  /\ \A s, r \in {0, 1} : <<"tgi", s>> # <<"tgo", r>>
BY DEF CscTags

LEMMA CscIssues ==
  ASSUME CscMoving, flips \in {0, 1}, line \in Nat, NEW s \in {0, 1}
  PROVE  /\ CscIssued(s) \in [CscTags -> SUBSET ({0, 1} \X Nat)]
         /\ CscIssued(s)[<<"tgo", s>>] = moving[<<"tgo", s>>] \cup {<<flips, line>>}
         /\ CscIssued(s)[<<"tgi", s>>] = moving[<<"tgi", s>>] \cup {<<flips, line + 2>>}
         /\ \A t \in CscTags \ {<<"tgi", s>>, <<"tgo", s>>} : CscIssued(s)[t] = moving[t]
<1> DEFINE Sets == SUBSET ({0, 1} \X Nat)
<1>1. moving \in [CscTags -> Sets]
  BY DEF CscMoving
<1>2. \A q \in Sets : q \cup {<<flips, line>>} \in Sets /\ q \cup {<<flips, line + 2>>} \in Sets
  OBVIOUS
<1> HIDE DEF Sets
<1>3. CscIssued(s) = [moving EXCEPT ![<<"tgo", s>>] = @ \cup {<<flips, line>>},
                                    ![<<"tgi", s>>] = @ \cup {<<flips, line + 2>>}]
  BY DEF CscIssued
<1>4. <<"tgi", s>> \in CscTags /\ <<"tgo", s>> \in CscTags /\ <<"tgi", s>> # <<"tgo", s>>
  BY CscTagsAre
<1>5. /\ moving[<<"tgo", s>>] \cup {<<flips, line>>} \in Sets
      /\ moving[<<"tgi", s>>] \cup {<<flips, line + 2>>} \in Sets
  BY <1>1, <1>2, <1>4
<1>6. CscIssued(s) \in [CscTags -> Sets]
  BY <1>1, <1>3, <1>4, <1>5
<1>7. /\ CscIssued(s)[<<"tgo", s>>] = moving[<<"tgo", s>>] \cup {<<flips, line>>}
      /\ CscIssued(s)[<<"tgi", s>>] = moving[<<"tgi", s>>] \cup {<<flips, line + 2>>}
      /\ \A t \in CscTags \ {<<"tgi", s>>, <<"tgo", s>>} : CscIssued(s)[t] = moving[t]
  BY <1>1, <1>3, <1>4
<1>8. QED  BY <1>6, <1>7 DEF Sets

(* The first commands of a frame.                                          *)
LEMMA CscFetches ==
  ASSUME CscTypeOK, CscMoving, CscFetch
  PROVE  /\ moving' \in [CscTags -> SUBSET ({0, 1} \X Nat)] /\ overtaken' \subseteq {0, 1}
         /\ \A s \in {0, 1} :
              /\ moving'[<<"tgo", s>>] = moving[<<"tgo", s>>]
              /\ s \in overtaken' \/ moving'[<<"tgi", s>>] = {<<flips, s>>}
<1> DEFINE Sets == SUBSET ({0, 1} \X Nat)
<1>1. moving \in [CscTags -> Sets] /\ flips \in {0, 1}
  BY DEF CscMoving, CscTypeOK
<1>2. /\ moving' = [t \in CscTags |->
                      moving[t] \cup IF t[1] = "tgi" THEN {<<flips, t[2]>>} ELSE {}]
      /\ overtaken' = {p \in {0, 1} : moving[<<"tgi", p>>] \ {<<flips, p>>} # {}}
  BY DEF CscFetch
<1>3. \A q \in Sets, s \in {0, 1} : q \cup {<<flips, s>>} \in Sets /\ q \cup {} \in Sets
  BY <1>1
<1> HIDE DEF Sets
<1>4. moving' \in [CscTags -> Sets]
  BY <1>1, <1>2, <1>3, CscTagsAre
<1>5. ASSUME NEW s \in {0, 1}
      PROVE  /\ moving'[<<"tgo", s>>] = moving[<<"tgo", s>>]
             /\ s \in overtaken' \/ moving'[<<"tgi", s>>] = {<<flips, s>>}
  <2>1. moving'[<<"tgo", s>>] = moving[<<"tgo", s>>]
    BY <1>2, CscTagsAre
  <2>2. moving'[<<"tgi", s>>] = moving[<<"tgi", s>>] \cup {<<flips, s>>}
    BY <1>2, CscTagsAre
  <2>3. s \notin overtaken' => moving[<<"tgi", s>>] \ {<<flips, s>>} = {}
    BY <1>2
  <2>4. QED  BY <2>1, <2>2, <2>3
<1>6. QED  BY <1>2, <1>4, <1>5 DEF Sets

(* A command that completes.                                               *)
LEMMA CscCompletes ==
  ASSUME CscMoving, CscTypeOK, NEW t \in CscTags, CscMoved(t)
  PROVE  \E c \in {0, 1} \X Nat :
           /\ c \in moving[t]
           /\ moving' \in [CscTags -> SUBSET ({0, 1} \X Nat)]
           /\ moving'[t] = moving[t] \ {c} /\ \A u \in CscTags \ {t} : moving'[u] = moving[u]
           /\ t[1] = "tgo" => shownLines' = [shownLines EXCEPT ![c] = lines[t]] /\ lines' = lines
           /\ t[1] # "tgo" => /\ lines' = [lines EXCEPT ![t] = Fetched(c)] /\ shownLines' = shownLines
                              /\ lines'[t] = Fetched(c)
           /\ \A u \in CscTags \ {t} : lines'[u] = lines[u]
<1>1. PICK c \in moving[t] :
        /\ moving' = [moving EXCEPT ![t] = @ \ {c}]
        /\ IF t[1] = "tgo"
           THEN shownLines' = [shownLines EXCEPT ![c] = lines[t]] /\ UNCHANGED lines
           ELSE lines' = [lines EXCEPT ![t] = Fetched(c)] /\ UNCHANGED shownLines
  BY DEF CscMoved
<1>2. moving \in [CscTags -> SUBSET ({0, 1} \X Nat)] /\ lines \in [CscTags -> Lines \cup {NoLines}]
  BY DEF CscMoving, CscTypeOK
<1>3. /\ c \in {0, 1} \X Nat
      /\ moving' \in [CscTags -> SUBSET ({0, 1} \X Nat)]
      /\ moving'[t] = moving[t] \ {c} /\ \A u \in CscTags \ {t} : moving'[u] = moving[u]
  BY <1>1, <1>2
<1>4. /\ t[1] # "tgo" => lines'[t] = Fetched(c)
      /\ \A u \in CscTags \ {t} : lines'[u] = lines[u]
  BY <1>1, <1>2
<1>5. QED  BY <1>1, <1>3, <1>4

LEMMA StepCscMoving ==
  ASSUME CscTypeOK, CscMoving, [CscNext]_cscVars
  PROVE  CscMoving' /\ overtaken' \subseteq {0, 1}
<1>1. flips \in {0, 1} /\ line \in Nat /\ overtaken \subseteq {0, 1}
  BY Most DEF CscTypeOK
<1>2. CASE CscFetch
  BY <1>2, CscFetches DEF CscMoving
<1>3. CASE CscConvert
  <2>1. line % 2 \in {0, 1}
    BY <1>1, Index
  <2>2. moving' = CscIssued(line % 2) /\ overtaken' = overtaken
    BY <1>3 DEF CscConvert
  <2>3. QED  BY <1>1, <2>1, <2>2, CscIssues DEF CscMoving
<1>4. ASSUME NEW t \in CscTags, CscMoved(t)  PROVE CscMoving' /\ overtaken' = overtaken
  <2>1. CscMoving'
    BY <1>4, CscCompletes DEF CscMoving
  <2>2. QED  BY <1>4, <2>1 DEF CscMoved
<1>5. CASE UNCHANGED <<moving, overtaken>>
  BY <1>1, <1>5 DEF CscMoving
<1>6. CASE \/ CscDraw \/ CscRun \/ CscReceive \/ CscDestroy \/ CscSend \/ CscReceived \/ CscJoined
           \/ CscLoad \/ CscEnded \/ CscBoot \/ CscFirst \/ CscTake \/ CscFinish \/ CscPost
           \/ (\E w \in Widths : CscUpdate(w)) \/ UNCHANGED cscVars
  BY <1>5, <1>6 DEF CscDraw, CscRun, CscReceive, CscDestroy, CscSend, CscReceived, CscJoined, CscLoad,
       CscEnded, CscBoot, CscFirst, CscTake, CscFinish, CscPost, CscUpdate, cscVars, cscDmaVars
<1>7. QED  BY <1>1, <1>2, <1>3, <1>4, <1>6 DEF CscNext, CscCaller, CscService

LEMMA CscFetchedType ==
  ASSUME CscTypeOK, NEW c \in {0, 1} \X Nat
  PROVE  Fetched(c) \in Lines
<1>1. Drawing(c[1]) \in Nat /\ c[2] \in Nat /\ taken \in Widths /\ (taken = chromaOf) \in BOOLEAN
  BY DEF Drawing, CscTypeOK
<1>2. QED  BY <1>1, Zenon DEF Fetched, Lines

LEMMA StepCscLines ==
  ASSUME CscTypeOK, CscMoving, [CscNext]_cscVars
  PROVE  /\ lines' \in [CscTags -> Lines \cup {NoLines}]
         /\ shownLines' \in [Places -> Lines \cup {NoLines}]
<1> DEFINE Held2 == Lines \cup {NoLines}
<1>1. /\ lines \in [CscTags -> Held2] /\ shownLines \in [Places -> Held2] /\ line \in Nat
  BY Most DEF CscTypeOK
<1>2. CASE CscConvert
  <2>1. line % 2 \in {0, 1}
    BY <1>1, Index
  <2>2. <<"tgi", line % 2>> \in CscTags
    BY <2>1, CscTagsAre
  <2>3. /\ lines' = [lines EXCEPT ![<<"tgo", line % 2>>] = lines[<<"tgi", line % 2>>]]
        /\ shownLines' = shownLines
    BY <1>2 DEF CscConvert
  <2> HIDE DEF Held2
  <2>4. lines' \in [CscTags -> Held2] /\ shownLines' \in [Places -> Held2]
    BY <1>1, <2>2, <2>3
  <2>5. QED  BY <2>4 DEF Held2
<1>3. ASSUME NEW t \in CscTags, CscMoved(t)
      PROVE  lines' \in [CscTags -> Held2] /\ shownLines' \in [Places -> Held2]
  <2>1. PICK c \in {0, 1} \X Nat :
          /\ t[1] = "tgo" => shownLines' = [shownLines EXCEPT ![c] = lines[t]] /\ lines' = lines
          /\ t[1] # "tgo" => lines' = [lines EXCEPT ![t] = Fetched(c)] /\ shownLines' = shownLines
    BY <1>3, CscCompletes
  <2>2. Fetched(c) \in Held2
    BY CscFetchedType
  <2> HIDE DEF Held2
  <2>3. QED  BY <1>1, <2>1, <2>2
<1>4. CASE UNCHANGED <<lines, shownLines>>
  BY <1>1, <1>4
<1>5. CASE \/ CscDraw \/ CscRun \/ CscReceive \/ CscDestroy \/ CscSend \/ CscReceived \/ CscJoined
           \/ CscLoad \/ CscEnded \/ CscBoot \/ CscFirst \/ CscTake \/ CscFetch \/ CscFinish \/ CscPost
           \/ (\E w \in Widths : CscUpdate(w)) \/ UNCHANGED cscVars
  BY <1>4, <1>5 DEF CscDraw, CscRun, CscReceive, CscDestroy, CscSend, CscReceived, CscJoined, CscLoad,
       CscEnded, CscBoot, CscFirst, CscTake, CscFetch, CscFinish, CscPost, CscUpdate, cscVars, cscDmaVars
<1>6. QED  BY <1>2, <1>3, <1>5 DEF CscNext, CscCaller, CscService

CscRestOK ==
  /\ cscHost \in {"idle", "send", "receive", "join", "joined"}
  /\ cscOrder \in {"RUN", "UPDATE"}
  /\ height \in PairCounts /\ width \in Widths /\ chromaOf \in Widths /\ taken \in Widths
  /\ asked \in Seq(Widths)
  /\ answered \in 0 .. NewestFrame /\ drawn \in NewestFrame .. NewestFrame + 1
  /\ cscThread \in {"new", "runs", "ended"}
  /\ cscPc \in {"none", "boot", "first", "fetch", "convert", "post", "wait", "exit"}
  /\ flips \in {0, 1} /\ line \in 0 .. MostPairs

LEMMA StepCscRest ==
  ASSUME CscTypeOK, CscCalls, [CscNext]_cscVars
  PROVE  CscRestOK'
<1>1. CscRestOK /\ NewestFrame \in Nat /\ MostPairs \in Nat
  BY Most DEF CscRestOK, CscTypeOK, NewestFrame
<1>2. asked' = asked => NewestFrame' = NewestFrame
  BY DEF NewestFrame
<1>3. CASE \/ CscDraw \/ CscRun \/ CscReceive \/ CscDestroy \/ CscJoined
           \/ (\E w \in Widths : CscUpdate(w))
  BY <1>1, <1>2, <1>3 DEF CscRestOK, CscDraw, CscRun, CscReceive, CscDestroy, CscJoined, CscUpdate, NewestFrame,
       cscSpuVars
<1>4. CASE CscSend
  <2>1. /\ asked' \in Seq(Widths) /\ NewestFrame' = NewestFrame + 1 /\ drawn = NewestFrame + 1
        /\ answered = NewestFrame
    BY <1>1, <1>4, Longer DEF CscRestOK, CscSend, CscCalls
  <2>2. QED  BY <1>1, <1>4, <2>1 DEF CscRestOK, CscSend, cscSpuVars
<1>5. CASE CscReceived
  <2>1. answered < NewestFrame
    BY <1>5 DEF CscReceived, CscCalls
  <2>2. QED  BY <1>1, <1>2, <1>5, <2>1 DEF CscRestOK, CscReceived, cscSpuVars
<1>6. CASE CscLoad \/ CscEnded \/ CscBoot \/ CscFirst \/ CscTake \/ CscFetch \/ CscFinish \/ CscPost
  BY <1>1, <1>2, <1>6 DEF CscRestOK, CscLoad, CscEnded, CscBoot, CscFirst, CscTake, CscFetch, CscFinish, CscPost,
       cscHostVars, cscSpuVars
<1>7. CASE CscConvert
  <2>1. line + 1 \in 0 .. MostPairs
    BY <1>1, <1>7, Most DEF CscRestOK, CscConvert
  <2>2. QED  BY <1>1, <1>2, <1>7, <2>1 DEF CscRestOK, CscConvert, cscHostVars
<1>8. CASE (\E t \in CscTags : CscMoved(t)) \/ UNCHANGED cscVars
  BY <1>1, <1>2, <1>8 DEF CscRestOK, CscMoved, cscVars, cscHostVars, cscSpuVars
<1>9. QED
  BY <1>3, <1>4, <1>5, <1>6, <1>7, <1>8 DEF CscNext, CscCaller, CscService

LEMMA StepCscType ==
  ASSUME CscTypeOK, CscMoving, CscCalls, CscWidths, [CscNext]_cscVars
  PROVE  CscTypeOK'
<1>1. /\ lines' \in [CscTags -> Lines \cup {NoLines}]
      /\ shownLines' \in [Places -> Lines \cup {NoLines}]
  BY StepCscLines
<1>2. (\A t \in CscTags : moving'[t] \subseteq {0, 1} \X Nat) /\ overtaken' \subseteq {0, 1}
  BY StepCscMoving DEF CscMoving
<1>3. /\ cscIn' \in {<<>>, <<"RUN">>, <<"UPDATE">>, <<"STOP">>, <<"STOP", "STOP">>}
      /\ cscOut' \in {<<>>, <<"RDY">>}
  BY StepCscCalls DEF CscCalls, CscLeaving, CscQuiet, CscSent, CscWorking, CscAnswered
<1>4. cscIn' \in Seq({"RUN", "UPDATE", "STOP"}) /\ Len(cscIn') <= 4
  BY <1>3, MailTypes, Zenon
<1>5. CscRestOK'
  BY StepCscRest
<1>6. QED  BY <1>1, <1>2, <1>3, <1>4, <1>5 DEF CscRestOK, CscTypeOK, NewestFrame

-----------------------------------------------------------------------------
(* The lines over a step.                                                  *)

(* What a command of this frame brings is the newest.                      *)
LEMMA DrawingNewest ==
  ASSUME CscTypeOK, CscCalls, cscPc = "convert"
  PROVE  \A p : Fetched(<<flips, p>>) = Newest(p)
<1>1. CscWorking /\ NewestFrame \in Nat /\ drawn \in NewestFrame .. NewestFrame + 1
  BY CscTurns
<1>2. NewestFrame > 0 /\ flips = IndexOf(NewestFrame)
  BY <1>1, CscTurns DEF CscWorking
<1>3. IndexOf(NewestFrame) \in {0, 1} /\ IndexOf(NewestFrame + 1) = 1 - IndexOf(NewestFrame)
  BY <1>1, Index
<1>4. ASSUME drawn = NewestFrame  PROVE Drawing(flips) = NewestFrame
  BY <1>2, <1>4 DEF Drawing
<1>5. ASSUME drawn = NewestFrame + 1  PROVE Drawing(flips) = NewestFrame
  <2>1. IndexOf(drawn) # flips
    BY <1>2, <1>3, <1>5
  <2>2. drawn > 0 /\ drawn - 1 = NewestFrame
    BY <1>1, <1>5
  <2>3. QED  BY <2>1, <2>2 DEF Drawing
<1>6. Drawing(flips) = NewestFrame
  BY <1>1, <1>4, <1>5
<1>7. QED  BY <1>6 DEF Fetched, Newest

(* No other step touches the lines of the frame the program is at.         *)
LEMMA CscOthers ==
  ASSUME CscTypeOK, CscCalls, [CscNext]_cscVars,
         ~CscFetch, ~CscConvert, \A t \in CscTags : ~CscMoved(t)
  PROVE  /\ UNCHANGED <<moving, lines, shownLines, line, overtaken>>
         /\ AtFrame' => /\ AtFrame /\ UNCHANGED <<asked, flips, height, taken, chromaOf>>
                        /\ \/ UNCHANGED cscPc
                           \/ cscPc' \in {"post", "wait"} /\ CscFinish
                           \/ cscPc = "post" /\ cscPc' = "wait"
<1>1. CASE CscSend
  <2>1. CscQuiet
    BY <1>1, CscTurns DEF CscSend, CscCalls
  <2>2. cscIn' # <<>> /\ cscPc' \notin {"convert", "post"}
    BY <1>1, <2>1, Mail DEF CscSend, CscQuiet, CscTypeOK, cscSpuVars
  <2>3. QED  BY <1>1, <2>2 DEF CscSend, AtFrame, cscSpuVars, cscDmaVars
<1>2. CASE CscDestroy
  <2>1. CscQuiet
    BY <1>2, CscTurns DEF CscDestroy, NewestFrame
  <2>2. cscHost' = "join" /\ cscPc' \notin {"convert", "post"}
    BY <1>2, <2>1 DEF CscDestroy, CscQuiet, cscSpuVars
  <2>3. QED  BY <1>2, <2>2 DEF CscDestroy, AtFrame, cscSpuVars, cscDmaVars
<1>3. CASE CscDraw \/ CscRun \/ CscReceive \/ CscReceived \/ CscEnded \/ CscJoined
           \/ (\E w \in Widths : CscUpdate(w)) \/ UNCHANGED cscVars
  BY <1>3 DEF CscDraw, CscRun, CscReceive, CscReceived, CscEnded, CscJoined, CscUpdate, cscVars,
              cscHostVars, cscSpuVars, cscDmaVars, AtFrame
<1>4. CASE CscLoad
  <2>1. cscPc' \in {"none", "boot"}
    BY <1>4 DEF CscLoad, CscCalls
  <2>2. QED  BY <1>4, <2>1 DEF CscLoad, cscDmaVars, AtFrame
<1>5. CASE CscBoot \/ CscFirst \/ CscTake
  BY <1>5 DEF CscBoot, CscFirst, CscTake, cscHostVars, cscDmaVars, AtFrame
<1>6. CASE CscFinish
  BY <1>6 DEF CscFinish, cscHostVars, cscDmaVars, AtFrame
<1>7. CASE CscPost
  <2>1. cscIn = <<>> /\ cscHost \in {"idle", "send", "receive"}
    BY <1>7, CscTurns DEF CscPost, CscWorking, CscLeaving, CscTypeOK
  <2>2. QED  BY <1>7, <2>1 DEF CscPost, cscHostVars, cscDmaVars, AtFrame
<1>8. QED
  BY <1>1, <1>2, <1>3, <1>4, <1>5, <1>6, <1>7 DEF CscNext, CscCaller, CscService

(* A step with DMA commands keeps the frame and its width.                 *)
LEMMA CscTransfers ==
  ASSUME CscTypeOK, CscMoving, CscCalls,
         CscFetch \/ CscConvert \/ \E t \in CscTags : CscMoved(t)
  PROVE  /\ UNCHANGED <<asked, flips, taken, chromaOf, height, NewestFrame, cscIn, cscHost>>
         /\ \A p : Newest(p)' = Newest(p)
         /\ CscFetch \/ CscConvert => CscWorking /\ NewestFrame > 0
         /\ (\E t \in CscTags : CscMoved(t)) => UNCHANGED <<cscPc, line, overtaken>>
         /\ moving \in [CscTags -> SUBSET ({0, 1} \X Nat)] /\ flips \in {0, 1} /\ line \in Nat
         /\ height \in Nat /\ height <= MostPairs /\ MostPairs \in Nat
<1>1. UNCHANGED <<asked, flips, taken, chromaOf, height, NewestFrame, cscIn, cscHost>>
  BY DEF CscFetch, CscConvert, CscMoved, cscHostVars, cscSpuVars, NewestFrame
<1>2. CscFetch \/ CscConvert => CscWorking
  BY CscTurns DEF CscFetch, CscConvert
<1>3. NewestFrame \in Nat /\ answered \in Nat
  BY CscTurns
<1>4. (\E t \in CscTags : CscMoved(t)) => UNCHANGED <<cscPc, line, overtaken>>
  BY DEF CscMoved, cscSpuVars
<1>5. /\ moving \in [CscTags -> SUBSET ({0, 1} \X Nat)] /\ flips \in {0, 1} /\ line \in Nat
      /\ height \in Nat /\ height <= MostPairs /\ MostPairs \in Nat
  BY Most DEF CscTypeOK, CscMoving
<1>6. \A p : Newest(p)' = Newest(p)
  BY <1>1 DEF Newest
<1>7. QED  BY <1>1, <1>2, <1>3, <1>4, <1>5, <1>6 DEF CscWorking

LEMMA StepLinesIn ==
  ASSUME CscTypeOK, CscMoving, CscCalls, LinesIn, [CscNext]_cscVars
  PROVE  LinesIn'
<1>1. CASE CscFetch
  <2>1. flips' = flips /\ height' = height /\ height \in Nat
    BY <1>1, CscTransfers
  <2>2. line' = 0 /\ line' <= height'
    BY <1>1, <2>1 DEF CscFetch
  <2>3. ASSUME NEW s \in {0, 1}  PROVE LineComing(s)'
    <3>1. s \in overtaken' \/ moving'[<<"tgi", s>>] = {<<flips, s>>}
      BY <1>1, CscFetches
    <3>2. NextLine(s)' = s
      BY <2>2 DEF NextLine
    <3>3. QED  BY <2>1, <3>1, <3>2 DEF LineComing
  <2>4. QED  BY <2>2, <2>3 DEF LinesIn
<1>2. CASE CscConvert
  <2>1. /\ UNCHANGED <<flips, height, overtaken>> /\ \A p : Newest(p)' = Newest(p)
        /\ flips \in {0, 1} /\ height \in Nat /\ line \in Nat
    BY <1>2, CscTransfers DEF CscConvert
  <2>2. line' = line + 1 /\ line' <= height' /\ LinesIn /\ cscPc = "convert" /\ moving[<<"tgi", line % 2>>] = {}
    BY <1>2, <2>1 DEF CscConvert
  <2>3. line % 2 \in {0, 1} /\ (line + 1) % 2 = 1 - (line % 2)
    BY <2>1, Index
  <2>4. ASSUME NEW s \in {0, 1}  PROVE LineComing(s)'
    <3>1. CASE s = line % 2
      <4>1. moving'[<<"tgi", s>>] = moving[<<"tgi", s>>] \cup {<<flips, line + 2>>}
        BY <1>2, <2>1, <3>1, CscIssues DEF CscConvert
      <4>2. moving'[<<"tgi", s>>] = {<<flips, line + 2>>}
        BY <2>2, <3>1, <4>1
      <4>3. NextLine(s)' = line + 2
        BY <2>1, <2>2, <2>3, <3>1 DEF NextLine
      <4>4. QED  BY <2>1, <4>2, <4>3 DEF LineComing
    <3>2. CASE s # line % 2
      <4>1. <<"tgi", s>> \in CscTags \ {<<"tgi", line % 2>>, <<"tgo", line % 2>>}
        BY <2>3, <3>2, CscTagsAre
      <4>2. moving'[<<"tgi", s>>] = moving[<<"tgi", s>>]
        BY <1>2, <2>1, <2>3, <4>1, CscIssues DEF CscConvert
      <4>3. lines'[<<"tgi", s>>] = lines[<<"tgi", s>>]
        BY <1>2, <4>1 DEF CscConvert, CscTypeOK
      <4>4. NextLine(s)' = NextLine(s)
        BY <2>1, <2>2, <2>3, <3>2 DEF NextLine
      <4>5. LineComing(s) /\ Newest(NextLine(s))' = Newest(NextLine(s))
        BY <2>1, <2>2, <4>4 DEF LinesIn, Newest
      <4>6. QED  BY <2>1, <4>2, <4>3, <4>4, <4>5 DEF LineComing
    <3>3. QED  BY <3>1, <3>2
  <2>5. QED  BY <2>2, <2>4 DEF LinesIn
<1>3. ASSUME NEW t \in CscTags, CscMoved(t)  PROVE LinesIn'
  <2>1. /\ UNCHANGED <<flips, height, taken, chromaOf, NewestFrame, cscPc, line, overtaken>>
        /\ line \in Nat
    BY <1>3, CscTransfers
  <2>2. SUFFICES ASSUME cscPc = "convert", NEW s \in {0, 1}  PROVE LineComing(s)'
    BY <2>1 DEF LinesIn
  <2>3. LineComing(s) /\ NextLine(s)' = NextLine(s) /\ Newest(NextLine(s))' = Newest(NextLine(s))
    BY <2>1, <2>2 DEF LinesIn, NextLine, Newest
  <2>4. PICK c \in {0, 1} \X Nat :
          /\ c \in moving[t] /\ moving'[t] = moving[t] \ {c}
          /\ \A u \in CscTags \ {t} : moving'[u] = moving[u] /\ lines'[u] = lines[u]
          /\ t[1] # "tgo" => lines'[t] = Fetched(c)
    BY <1>3, CscCompletes
  <2>5. CASE t = <<"tgi", s>>
    <3>1. CASE NextLine(s) \in overtaken
      BY <2>1, <2>3, <3>1 DEF LineComing
    <3>2. CASE moving[t] = {<<flips, NextLine(s)>>}
      <4>1. c = <<flips, NextLine(s)>> /\ moving'[t] = {}
        BY <2>4, <3>2
      <4>2. lines'[t] = Newest(NextLine(s))
        BY <2>2, <2>4, <2>5, <4>1, DrawingNewest
      <4>3. QED  BY <2>3, <2>5, <4>1, <4>2 DEF LineComing
    <3>3. QED  BY <2>3, <2>4, <2>5, <3>1, <3>2 DEF LineComing
  <2>6. CASE t # <<"tgi", s>>
    <3>1. moving'[<<"tgi", s>>] = moving[<<"tgi", s>>] /\ lines'[<<"tgi", s>>] = lines[<<"tgi", s>>]
      BY <2>4, <2>6, CscTagsAre
    <3>2. QED  BY <2>1, <2>3, <3>1 DEF LineComing
  <2>7. QED  BY <2>5, <2>6
<1>4. CASE ~CscFetch /\ ~CscConvert /\ \A t \in CscTags : ~CscMoved(t)
  <2>1. SUFFICES ASSUME cscPc' = "convert"  PROVE LinesIn'
    BY DEF LinesIn
  <2>2. AtFrame'
    BY <2>1 DEF AtFrame
  <2>3. UNCHANGED <<moving, lines, line, asked, flips, height, taken, chromaOf, overtaken, cscPc>>
    BY <1>4, <2>1, <2>2, CscOthers
  <2>4. ASSUME NEW s \in {0, 1}  PROVE LineComing(s)' <=> LineComing(s)
    <3>1. NextLine(s)' = NextLine(s) /\ Newest(NextLine(s))' = Newest(NextLine(s))
      BY <2>3 DEF NextLine, Newest, NewestFrame
    <3>2. QED  BY <2>3, <3>1 DEF LineComing
  <2>5. QED  BY <2>3, <2>4 DEF LinesIn
<1>5. QED  BY <1>1, <1>2, <1>3, <1>4

LEMMA Pair2 ==
  /\ \A c, d : {c} # {} /\ ({c} = {d} => c = d) /\ {c} \ {c} = {}
  /\ \A i \in {0, 1}, p \in Nat : p < MostPairs => <<i, p>> \in Places
  /\ \A c \in Places : c = <<c[1], c[2]>> /\ c[1] \in {0, 1} /\ c[2] \in Nat /\ c[2] < MostPairs
  /\ \A c \in Places, i \in {0, 1}, p \in Nat : c = <<i, p>> => c[1] = i /\ c[2] = p
<1>1. MostPairs \in Nat
  BY Most
<1>2. QED  BY <1>1 DEF Places

LEMMA Parity ==
  ASSUME NEW l \in Nat, NEW p \in Nat
  PROVE  /\ p % 2 \in {0, 1} /\ l % 2 \in {0, 1} /\ (l + 1) % 2 = 1 - (l % 2)
         /\ p % 2 # l % 2 => p # l /\ p # l - 2
         /\ p < l /\ p % 2 # (l + 1) % 2 /\ l - 2 <= p => p = l - 2
OBVIOUS

LEMMA StepLinesOut ==
  ASSUME CscTypeOK, CscMoving, CscCalls, LinesIn, LinesOut, [CscNext]_cscVars
  PROVE  LinesOut'
<1>0. lines \in [CscTags -> Lines \cup {NoLines}]
  BY DEF CscTypeOK
<1>1. CASE CscFetch
  <2>1. line' = 0 /\ \A s \in {0, 1} : moving'[<<"tgo", s>>] = moving[<<"tgo", s>>]
    BY <1>1, CscFetches DEF CscFetch
  <2>2. \A c \in Places : ~(c[2] < 0)
    BY Most DEF Places
  <2>3. QED  BY <2>1, <2>2 DEF LinesOut, LineLeaving
<1>2. CASE CscConvert
  <2>1. /\ UNCHANGED <<flips, height, overtaken>> /\ \A p : Newest(p)' = Newest(p)
        /\ flips \in {0, 1} /\ height \in Nat /\ line \in Nat /\ height <= MostPairs /\ MostPairs \in Nat
    BY <1>2, CscTransfers DEF CscConvert
  <2>2. /\ line' = line + 1 /\ line < height /\ cscPc = "convert"
        /\ moving[<<"tgi", line % 2>>] = {} /\ moving[<<"tgo", line % 2>>] = {}
        /\ lines' = [lines EXCEPT ![<<"tgo", line % 2>>] = lines[<<"tgi", line % 2>>]]
        /\ moving' = CscIssued(line % 2)
    BY <1>2 DEF CscConvert
  <2>3. line % 2 \in {0, 1} /\ (line + 1) % 2 = 1 - (line % 2)
    BY <2>1, Index
  <2>4. ASSUME NEW s \in {0, 1}  PROVE LineLeaving(s)'
    <3>1. CASE s = line % 2
      <4>1. PICK c \in Places : c = <<flips, line>> /\ c[1] = flips /\ c[2] = line
        <5>1. <<flips, line>> \in Places
          BY <2>1, <2>2, Pair2
        <5>2. QED  BY <5>1
      <4>2. moving'[<<"tgo", s>>] = {c}
        <5>1. moving'[<<"tgo", s>>] = moving[<<"tgo", s>>] \cup {c}
          BY <2>1, <2>2, <3>1, <4>1, CscIssues
        <5>2. QED  BY <2>2, <3>1, <5>1
      <4>3. line \in overtaken \/ lines'[<<"tgo", s>>] = Newest(line)
        <5>1. line \in overtaken \/ lines[<<"tgi", s>>] = Newest(line)
          <6>1. LineComing(s) /\ NextLine(s) = line
            BY <2>2, <3>1 DEF LinesIn, NextLine
          <6>2. QED  BY <2>2, <3>1, <6>1 DEF LineComing
        <5>2. lines'[<<"tgo", s>>] = lines[<<"tgi", s>>]
          BY <1>0, <2>2, <3>1, CscTagsAre
        <5>3. QED  BY <5>1, <5>2
      <4>4. c[2] >= line' - 2
        BY <2>1, <2>2, <4>1
      <4>5. Newest(c[2])' = Newest(line)
        BY <2>1, <4>1
      <4>6. QED  BY <2>1, <3>1, <4>1, <4>2, <4>3, <4>4, <4>5 DEF LineLeaving
    <3>2. CASE s # line % 2
      <4>1. <<"tgo", s>> \in CscTags \ {<<"tgi", line % 2>>, <<"tgo", line % 2>>}
        BY <2>3, <3>2, CscTagsAre
      <4>2. moving'[<<"tgo", s>>] = moving[<<"tgo", s>>]
        BY <2>1, <2>2, <2>3, <4>1, CscIssues
      <4>3. lines'[<<"tgo", s>>] = lines[<<"tgo", s>>]
        BY <1>0, <2>2, <4>1
      <4>4. LineLeaving(s) /\ AtFrame
        BY <2>2 DEF LinesOut, AtFrame
      <4>5. ASSUME NEW c \in Places, c[2] % 2 = s, c[2] < line'
            PROVE  c[2] < line /\ (c[2] >= line - 2 => c[2] >= line' - 2)
        <5>1. c[2] \in Nat
          BY Pair2
        <5>2. c[2] # line /\ c[2] # line - 2
          BY <2>1, <3>2, <4>5, <5>1, Parity
        <5>3. QED  BY <2>1, <2>2, <4>5, <5>1, <5>2
      <4>6. CASE moving[<<"tgo", s>>] = {}
        BY <4>2, <4>6 DEF LineLeaving
      <4>7. CASE moving[<<"tgo", s>>] # {}
        <5>1. PICK c \in Places :
                /\ moving[<<"tgo", s>>] = {c} /\ c[2] % 2 = s
                /\ c[1] = flips /\ c[2] < line =>
                     c[2] >= line - 2 /\ (c[2] \in overtaken \/ lines[<<"tgo", s>>] = Newest(c[2]))
          BY <4>4, <4>7 DEF LineLeaving
        <5>2. Newest(c[2])' = Newest(c[2])
          BY <2>1
        <5>3. c[1] = flips' /\ c[2] < line' =>
                c[2] >= line' - 2 /\ (c[2] \in overtaken' \/ lines'[<<"tgo", s>>] = Newest(c[2])')
          BY <2>1, <4>3, <4>5, <5>1, <5>2
        <5>4. QED  BY <4>2, <5>1, <5>3 DEF LineLeaving
      <4>8. QED  BY <4>6, <4>7
    <3>3. QED  BY <3>1, <3>2
  <2>5. QED  BY <2>4 DEF LinesOut
<1>3. ASSUME NEW t \in CscTags, CscMoved(t)  PROVE LinesOut'
  <2>1. /\ UNCHANGED <<flips, taken, chromaOf, NewestFrame, cscPc, line, cscIn, cscHost, overtaken>>
        /\ \A p : Newest(p)' = Newest(p)
    BY <1>3, CscTransfers
  <2>2. PICK c \in {0, 1} \X Nat :
          /\ c \in moving[t] /\ moving'[t] = moving[t] \ {c}
          /\ \A u \in CscTags \ {t} : moving'[u] = moving[u] /\ lines'[u] = lines[u]
    BY <1>3, CscCompletes
  <2>3. ASSUME NEW s \in {0, 1}  PROVE LineLeaving(s)'
    <3>1. CASE t = <<"tgo", s>>
      <4>1. PICK d \in Places : moving[t] = {d}
        BY <2>2, <3>1 DEF LinesOut, LineLeaving
      <4>2. moving'[<<"tgo", s>>] = {}
        BY <2>2, <3>1, <4>1
      <4>3. QED  BY <4>2 DEF LineLeaving
    <3>2. CASE t # <<"tgo", s>>
      <4>1. moving'[<<"tgo", s>>] = moving[<<"tgo", s>>] /\ lines'[<<"tgo", s>>] = lines[<<"tgo", s>>]
        BY <2>2, <3>2, CscTagsAre
      <4>2. LineLeaving(s) /\ AtFrame' = AtFrame
        BY <2>1 DEF LinesOut, AtFrame
      <4>3. QED  BY <2>1, <4>1, <4>2 DEF LineLeaving
    <3>3. QED  BY <3>1, <3>2
  <2>4. QED  BY <2>3 DEF LinesOut
<1>4. CASE ~CscFetch /\ ~CscConvert /\ \A t \in CscTags : ~CscMoved(t)
  <2>1. UNCHANGED <<moving, lines, line, overtaken>>
    BY <1>4, CscOthers
  <2>2. AtFrame' => AtFrame /\ UNCHANGED <<asked, flips, taken, chromaOf>>
    BY <1>4, CscOthers
  <2>3. SUFFICES ASSUME NEW s \in {0, 1}  PROVE LineLeaving(s)'
    BY DEF LinesOut
  <2>4. LineLeaving(s)
    BY DEF LinesOut
  <2>5. CASE AtFrame'
    <3>1. flips' = flips /\ AtFrame /\ \A p : Newest(p)' = Newest(p)
      BY <2>2, <2>5 DEF NewestFrame, Newest
    <3>2. QED  BY <2>1, <2>4, <3>1 DEF LineLeaving
  <2>6. CASE ~AtFrame'
    BY <2>1, <2>4, <2>6 DEF LineLeaving
  <2>7. QED  BY <2>5, <2>6
<1>5. QED  BY <1>1, <1>2, <1>3, <1>4

LEMMA StepLinesShown ==
  ASSUME CscTypeOK, CscMoving, CscCalls, LinesOut, LinesShown, [CscNext]_cscVars
  PROVE  LinesShown'
<1>0. /\ shownLines \in [Places -> Lines \cup {NoLines}] /\ flips \in {0, 1}
      /\ line \in 0 .. MostPairs /\ MostPairs \in Nat /\ line \in Nat
  BY Most DEF CscTypeOK
<1>1. CASE CscFetch
  <2>1. line' = 0 /\ cscPc' = "convert"
    BY <1>1 DEF CscFetch
  <2>2. 0 .. line' - 1 = {}
    BY <2>1
  <2>3. QED  BY <2>1, <2>2 DEF LinesShown
<1>2. CASE CscConvert
  <2>1. /\ UNCHANGED <<flips, height, shownLines, cscPc, overtaken>> /\ \A p : Newest(p)' = Newest(p)
        /\ flips \in {0, 1} /\ height \in Nat /\ line \in Nat /\ height <= MostPairs /\ MostPairs \in Nat
        /\ line' = line + 1 /\ line < height /\ cscPc = "convert"
        /\ moving[<<"tgo", line % 2>>] = {} /\ moving' = CscIssued(line % 2)
    BY <1>2, CscTransfers DEF CscConvert
  <2>2. line % 2 \in {0, 1}
    BY <2>1, Index
  <2>3. <<flips, line>> \in Places
    BY <2>1, Pair2
  <2>4. ASSUME NEW p \in 0 .. line' - 1  PROVE PairShown(p)'
    <3>1. CASE p = line
      <4>1. moving'[<<"tgo", line % 2>>] = moving[<<"tgo", line % 2>>] \cup {<<flips, line>>}
        BY <2>1, <2>2, CscIssues
      <4>2. moving'[<<"tgo", line % 2>>] = {<<flips, line>>}
        BY <2>1, <4>1
      <4>3. QED  BY <2>1, <3>1, <4>2 DEF PairShown
    <3>2. CASE p # line
      <4>1. p \in Nat /\ p \in 0 .. line - 1 /\ <<flips, p>> \in Places /\ p % 2 \in {0, 1}
        <5>1. p \in Nat /\ p \in 0 .. line - 1 /\ p < MostPairs
          BY <2>1, <3>2
        <5>2. p % 2 \in {0, 1}
          BY <5>1, Index
        <5>3. <<flips, p>> \in Places
          BY <2>1, <5>1, Pair2
        <5>4. QED  BY <5>1, <5>2, <5>3
      <4>2. PairShown(p)
        BY <2>1, <4>1 DEF LinesShown, AtFrame
      <4>3. CASE moving[<<"tgo", p % 2>>] = {<<flips, p>>}
        <5>1. p % 2 # line % 2
          BY <2>1, <4>1, <4>3, Pair2
        <5>2. <<"tgo", p % 2>> \in CscTags \ {<<"tgi", line % 2>>, <<"tgo", line % 2>>}
          BY <2>2, <4>1, <5>1, CscTagsAre
        <5>3. moving'[<<"tgo", p % 2>>] = moving[<<"tgo", p % 2>>]
          BY <2>1, <2>2, <5>2, CscIssues
        <5>4. QED  BY <2>1, <4>3, <5>3 DEF PairShown
      <4>4. CASE p \in overtaken \/ shownLines[<<flips, p>>] = Newest(p)
        BY <2>1, <4>4 DEF PairShown
      <4>5. QED  BY <4>2, <4>3, <4>4 DEF PairShown
    <3>3. QED  BY <3>1, <3>2
  <2>5. QED  BY <2>1, <2>4 DEF LinesShown
<1>3. ASSUME NEW t \in CscTags, CscMoved(t)  PROVE LinesShown'
  <2>1. /\ UNCHANGED <<flips, height, cscPc, line, cscIn, cscHost, overtaken>>
        /\ \A p : Newest(p)' = Newest(p)
    BY <1>3, CscTransfers
  <2>2. PICK c \in {0, 1} \X Nat :
          /\ c \in moving[t] /\ \A u \in CscTags \ {t} : moving'[u] = moving[u]
          /\ t[1] = "tgo" => shownLines' = [shownLines EXCEPT ![c] = lines[t]]
          /\ t[1] # "tgo" => shownLines' = shownLines
    BY <1>3, CscCompletes
  <2>3. SUFFICES ASSUME AtFrame  PROVE LinesShown'
    BY <2>1 DEF LinesShown, AtFrame
  <2>4. ASSUME cscPc' # "convert"
        PROVE  line' = height' /\ moving'[<<"tgo", (line' + 1) % 2>>] = {}
    <3>1. line = height /\ moving[<<"tgo", (line + 1) % 2>>] = {}
      BY <2>1, <2>3, <2>4 DEF LinesShown
    <3>2. (line + 1) % 2 \in {0, 1}
      BY <1>0
    <3>3. t # <<"tgo", (line + 1) % 2>>
      BY <2>2, <3>1
    <3>4. moving'[<<"tgo", (line + 1) % 2>>] = {}
      BY <2>2, <3>1, <3>2, <3>3, CscTagsAre
    <3>5. QED  BY <2>1, <3>1, <3>4
  <2>5. ASSUME NEW p \in 0 .. line - 1  PROVE PairShown(p)'
    <3>1. p \in Nat /\ <<flips, p>> \in Places /\ p % 2 \in {0, 1} /\ PairShown(p) /\ p < line
      BY <1>0, <2>3, Pair2 DEF LinesShown
    <3>2. CASE t[1] # "tgo"
      <4>1. shownLines' = shownLines /\ t # <<"tgo", p % 2>>
        BY <2>2, <3>2
      <4>2. moving'[<<"tgo", p % 2>>] = moving[<<"tgo", p % 2>>]
        BY <2>1, <2>2, <3>1, <4>1, CscTagsAre
      <4>3. QED  BY <2>1, <3>1, <4>1, <4>2 DEF PairShown
    <3>3. CASE t[1] = "tgo"
      <4>1. t = <<"tgo", t[2]>> /\ t[2] \in {0, 1}
        BY <3>3, CscTagsAre
      <4>2. /\ c \in Places /\ moving[t] = {c}
            /\ AtFrame /\ c[1] = flips /\ c[2] < line => c[2] \in overtaken \/ lines[t] = Newest(c[2])
        <5>1. LineLeaving(t[2])
          BY <4>1 DEF LinesOut
        <5>2. PICK d \in Places : /\ moving[t] = {d}
                                  /\ AtFrame /\ d[1] = flips /\ d[2] < line =>
                                       d[2] \in overtaken \/ lines[t] = Newest(d[2])
          BY <2>2, <4>1, <5>1 DEF LineLeaving
        <5>3. QED  BY <2>2, <5>2
      <4>3. shownLines' = [shownLines EXCEPT ![c] = lines[t]]
        BY <2>2, <3>3
      <4>4. CASE c = <<flips, p>>
        <5>1. c[1] = flips /\ c[2] = p
          BY <1>0, <3>1, <4>4, Pair2
        <5>2. p \in overtaken \/ lines[t] = Newest(p)
          BY <2>3, <3>1, <4>2, <5>1
        <5>3. shownLines'[<<flips, p>>] = lines[t]
          BY <1>0, <3>1, <4>3, <4>4
        <5>4. QED  BY <2>1, <5>2, <5>3 DEF PairShown
      <4>5. CASE c # <<flips, p>>
        <5>1. shownLines'[<<flips, p>>] = shownLines[<<flips, p>>]
          BY <1>0, <3>1, <4>3, <4>5
        <5>2. CASE moving[<<"tgo", p % 2>>] = {<<flips, p>>}
          <6>1. t # <<"tgo", p % 2>>
            BY <3>1, <4>2, <4>5, <5>2, Pair2
          <6>2. moving'[<<"tgo", p % 2>>] = moving[<<"tgo", p % 2>>]
            BY <2>1, <2>2, <3>1, <6>1, CscTagsAre
          <6>3. QED  BY <2>1, <5>2, <6>2 DEF PairShown
        <5>3. QED  BY <2>1, <3>1, <5>1, <5>2 DEF PairShown
      <4>6. QED  BY <4>4, <4>5
    <3>4. QED  BY <3>2, <3>3
  <2>6. QED  BY <2>1, <2>4, <2>5 DEF LinesShown
<1>4. CASE ~CscFetch /\ ~CscConvert /\ \A t \in CscTags : ~CscMoved(t)
  <2>1. SUFFICES ASSUME AtFrame'  PROVE LinesShown'
    BY DEF LinesShown
  <2>2. /\ UNCHANGED <<moving, shownLines, line, asked, flips, height, taken, chromaOf, overtaken>> /\ AtFrame
        /\ \/ UNCHANGED cscPc
           \/ cscPc' \in {"post", "wait"} /\ CscFinish
           \/ cscPc = "post" /\ cscPc' = "wait"
    BY <1>4, <2>1, CscOthers
  <2>3. \A p : Newest(p)' = Newest(p)
    BY <2>2 DEF NewestFrame, Newest
  <2>4. \A p \in 0 .. line' - 1 : PairShown(p)'
    BY <2>2, <2>3 DEF LinesShown, PairShown
  <2>5. ASSUME cscPc' # "convert"
        PROVE  line = height /\ moving[<<"tgo", (line + 1) % 2>>] = {}
    <3>1. CASE CscFinish
      BY <3>1 DEF CscFinish
    <3>2. CASE UNCHANGED cscPc \/ (cscPc = "post" /\ cscPc' = "wait")
      BY <2>2, <2>5, <3>2 DEF LinesShown
    <3>3. QED  BY <2>2, <3>1, <3>2
  <2>6. QED  BY <2>2, <2>4, <2>5 DEF LinesShown
<1>5. QED  BY <1>1, <1>2, <1>3, <1>4

-----------------------------------------------------------------------------
LEMMA CscStart ==
  ASSUME CscInit
  PROVE  CscInv
<1>1. /\ MostPairs \in Nat /\ MostPairs \in PairCounts
      /\ asked = <<>> /\ NewestFrame = 0 /\ cscIn = <<>> /\ cscOut = <<>>
      /\ height \in PairCounts /\ width \in Widths /\ taken = width /\ chromaOf = width
      /\ line = 0 /\ flips = 0 /\ overtaken = {}
  BY Most DEF CscInit, NewestFrame
<1>2. /\ lines \in [CscTags -> Lines \cup {NoLines}]
      /\ shownLines \in [Places -> Lines \cup {NoLines}]
      /\ \A t \in CscTags : moving[t] = {}
      /\ moving \in [CscTags -> SUBSET ({0, 1} \X Nat)]
  BY DEF CscInit
<1>3. cscIn \in Seq({"RUN", "UPDATE", "STOP"}) /\ Len(cscIn) <= 4
  BY <1>1, MailTypes, Zenon
<1>4. CscTypeOK
  BY <1>1, <1>2, <1>3 DEF CscInit, CscTypeOK, NewestFrame
<1>5. CscCalls /\ CscWidths
  BY <1>1 DEF CscInit, CscCalls, CscQuiet, CscWidths
<1>6. LinesIn /\ LinesShown
  BY <1>1 DEF CscInit, LinesIn, LinesShown, AtFrame
<1>7. LinesOut
  BY <1>2, CscTagsAre DEF LinesOut, LineLeaving
<1>8. QED  BY <1>2, <1>4, <1>5, <1>6, <1>7 DEF CscInv, CscMoving

LEMMA CscStep ==
  ASSUME CscInv, [CscNext]_cscVars
  PROVE  CscInv'
BY StepCscType, StepCscMoving, StepCscCalls, StepLinesIn, StepLinesOut, StepLinesShown DEF CscInv

LEMMA CscAnswer ==
  ASSUME CscInv
  PROVE  FrameConverted
<1>1. SUFFICES ASSUME cscHost = "idle", answered = NewestFrame, NewestFrame > 0,
                      NEW p \in (0 .. height - 1) \ overtaken
               PROVE  LET made == [frame |-> answered, pair |-> p, width |-> asked[answered],
                                   chroma |-> asked[answered] = chromaOf]
                      IN \/ shownLines[<<IndexOf(answered), p>>] = made
                         \/ /\ p = height - 2
                            /\ moving[<<"tgo", p % 2>>] = {<<IndexOf(answered), p>>}
                            /\ lines[<<"tgo", p % 2>>] = made
  BY DEF FrameConverted, NewestFrame
<1>2. CscPhase /\ NewestFrame \in Nat /\ CscQuiet
  BY <1>1, CscTurns DEF CscInv
<1>3. /\ cscPc = "wait" /\ cscIn = <<>> /\ flips = IndexOf(answered) /\ line = height
      /\ asked[answered] = taken
  BY <1>1, <1>2 DEF CscQuiet
<1>4. Newest(p) = [frame |-> answered, pair |-> p, width |-> asked[answered],
                   chroma |-> asked[answered] = chromaOf]
  BY <1>1, <1>3 DEF Newest
<1>5. /\ flips \in {0, 1} /\ line \in Nat /\ line <= MostPairs /\ MostPairs \in Nat
  BY Most DEF CscInv, CscTypeOK
<1>6. p \in Nat /\ p < line /\ <<flips, p>> \in Places /\ p % 2 \in {0, 1} /\ p \notin overtaken
  BY <1>1, <1>3, <1>5, Pair2
<1>7. AtFrame /\ PairShown(p) /\ moving[<<"tgo", (line + 1) % 2>>] = {}
  BY <1>1, <1>3, <1>5, <1>6 DEF CscInv, AtFrame, LinesShown
<1>8. CASE moving[<<"tgo", p % 2>>] = {<<flips, p>>}
  <2>1. LineLeaving(p % 2)
    BY <1>6 DEF CscInv, LinesOut
  <2>2. PICK c \in Places : /\ moving[<<"tgo", p % 2>>] = {c}
                            /\ AtFrame /\ c[1] = flips /\ c[2] < line =>
                                 /\ c[2] >= line - 2
                                 /\ c[2] \in overtaken \/ lines[<<"tgo", p % 2>>] = Newest(c[2])
    BY <1>8, <2>1 DEF LineLeaving
  <2>3. c = <<flips, p>> /\ c[1] = flips /\ c[2] = p
    BY <1>5, <1>6, <1>8, <2>2, Pair2
  <2>4. p >= line - 2 /\ lines[<<"tgo", p % 2>>] = Newest(p)
    BY <1>6, <1>7, <2>2, <2>3
  <2>5. p % 2 # (line + 1) % 2
    BY <1>7, <1>8
  <2>6. p = line - 2
    BY <1>5, <1>6, <2>4, <2>5, Parity
  <2>7. QED  BY <1>3, <1>4, <1>8, <2>4, <2>6
<1>9. QED  BY <1>3, <1>4, <1>6, <1>7, <1>8 DEF PairShown

(* Every variable of the yuv2rgb service keeps its type.                   *)
THEOREM CscTypes == CscSpec => []CscTypeOK
<1>1. CscInit => CscInv
  BY CscStart
<1>2. CscInv /\ [CscNext]_cscVars => CscInv'
  BY CscStep
<1>3. CscInv => CscTypeOK
  BY DEF CscInv
<1>4. QED  BY <1>1, <1>2, <1>3, PTL DEF CscSpec

(* A frame of the yuv2rgb service that is answered is in its buffer, every *)
(* pair of lines converted from that frame and that place by the width it  *)
(* was asked for with, its chroma right just when that width is the one of *)
(* csc_init_yuv2rgb, in every order in which commands complete: but for    *)
(* the last pair but one, which may still be on its way, as it should be,  *)
(* and the first two, where lines fetched for the frame before were under  *)
(* way when they were fetched.                                             *)
THEOREM FramesConverted == CscSpec => []FrameConverted
<1>1. CscInit => CscInv
  BY CscStart
<1>2. CscInv /\ [CscNext]_cscVars => CscInv'
  BY CscStep
<1>3. CscInv => FrameConverted
  BY CscAnswer
<1>4. QED  BY <1>1, <1>2, <1>3, PTL DEF CscSpec

-----------------------------------------------------------------------------
(* draw_rect: which operations are done.                                   *)

RectPending == inbox \in {<<"RUN">>, <<"RUN", "STOP">>}

(* The program is at the operation of the last RUN,                        *)
RectWorking ==
  /\ answers = runs /\ inbox = <<>> /\ outbox = <<>>
  /\ \/ spu = "post"
     \/ spu = "none" /\ runs = 0
     \/ spu \in {"fetch", "draw"} /\ runs > 0

(* or has answered, or the answer has been taken,                          *)
RectAnswered == answers = runs /\ inbox = <<>> /\ outbox = <<"RDY">> /\ spu = "wait"
RectQuiet == answers = runs + 1 /\ inbox = <<>> /\ outbox = <<>> /\ spu = "wait"

(* or the next RUN is in the mailbox.                                      *)
RectSent == answers = runs /\ runs > 0 /\ inbox = <<"RUN">> /\ outbox = <<>> /\ spu = "wait"

(* The caller and the program take turns until draw_rect_destroy.          *)
RectTurns ==
  /\ host \in {"idle", "receive", "send"} /\ ~stopped
  /\ RectWorking \/ RectAnswered \/ RectQuiet \/ RectSent
  /\ host = "send" => RectQuiet /\ args.no = runs + 1 /\ runs < MaxRuns
  /\ host = "receive" => answers = runs
  /\ host # "send" => args.no = runs
  /\ host # "send" /\ ~RectPending => data = args

RectLeaving ==
  /\ host \in {"join", "joined"} /\ runs > 0 /\ args.no = runs
  /\ answers \in {runs, runs + 1}
  /\ \/ ~stopped /\ inbox = <<"STOP">> /\ outbox = <<>> /\ spu \in {"post", "fetch", "draw"}
     \/ ~stopped /\ inbox = <<"STOP">> /\ spu = "wait"
     \/ ~stopped /\ inbox = <<"RUN", "STOP">> /\ outbox = <<>> /\ spu = "wait"
     \/ stopped /\ inbox = <<>> /\ spu \in {"fetch", "draw", "exit"}
  /\ ~RectPending => data = args
  /\ host = "joined" => spu = "exit"

RectCalls ==
  /\ RectTurns \/ RectLeaving
  /\ outbox \in {<<>>, <<"RDY">>}
  /\ thread = "new" => spu = "none"
  /\ thread = "ended" => spu \in {"none", "exit"}
  /\ data.no = IF RectPending THEN runs - 1 ELSE runs

RectHeights == RectSizes \cup {0}
RectCounts ==
  /\ runs \in 0 .. MaxRuns
  /\ data.height \in RectHeights /\ args.height \in RectHeights
  /\ data.op \in Ops /\ args.op \in Ops
  /\ thread \in {"new", "runs", "ended"}
  /\ group \in 0 .. Highest /\ sel \in {0, 1} /\ stopped \in BOOLEAN

(* What rows and buffers hold; a row that was spoilt had been at risk.     *)
RectTypes ==
  /\ expected \in [Rows -> Held] /\ screen \in [Rows -> Held \cup {Spoilt}]
  /\ buffers \in [Buffers -> Held \cup [row: Rows, was: Held \cup {Spoilt}] \cup {Spoilt}]
  /\ underWay \in [Buffers -> SUBSET Rows]
  /\ atRisk \subseteq 0 .. 2 * Lanes - 1
  /\ \A y \in Rows : /\ expected[y].times <= runs /\ expected[y].by <= runs
                     /\ IF screen[y] = Spoilt THEN y \in atRisk
                        ELSE screen[y].times <= runs + 1 /\ screen[y].by <= runs

Groups == data.height \div Lanes
Whole == IF group <= Groups THEN group ELSE Groups

(* What is wanted of a row when the operation under way is done.           *)
Goal(y) == IF stopped /\ y < data.height
           THEN [times |-> expected[y].times + 1, by |-> expected[y].by] ELSE expected[y]

(* A row is as it should be, if nothing has spoilt it.                     *)
Shows(y, v) == screen[y] = v \/ screen[y] = Spoilt

(* One drawing more by these arguments, and it is as wanted.               *)
Undone(y, by) ==
  screen[y] = Spoilt \/ Goal(y) = [times |-> screen[y].times + 1, by |-> by]

(* Rows 0 to DrawnRows - 1 were drawn.                                     *)
DrawnRows == Lanes * Whole + (group - Whole)

(* The next row a buffer is for.                                           *)
NextRow(lane, s) == Lanes * (IF s = sel THEN Whole ELSE Whole + 1) + lane

(* A row that is not drawn in an operation under way.                      *)
StillToDo(y) == IF y < data.height THEN Undone(y, data.no) ELSE Shows(y, Goal(y))

(* Between two operations the screen is as wanted; a RUN in the mailbox    *)
(* wants each row of its rectangle drawn once.                             *)
RectRest ==
  /\ spu \notin {"fetch", "draw"} /\ ~RectPending => \A y \in Rows : Shows(y, Goal(y))
  /\ RectPending => \A y \in Rows :
       IF y < args.height THEN Undone(y, args.no) /\ expected[y].by = args.no
       ELSE Shows(y, expected[y])
  /\ ~RectPending => \A y \in Rows : y < data.height => expected[y].by = data.no
  /\ spu = "fetch" => \A y \in Rows : StillToDo(y)

(* What a row may be drawn as: as wanted, or spoilt where it is at risk.   *)
Made(y, v) == v = Goal(y) \/ (v = Spoilt /\ y \in atRisk)

(* The output buffers: a row that is on its way was drawn.                 *)
RowOut(lane, s) ==
  LET b == <<"OUTPUT", lane, s>> IN
    underWay[b] = {} \/ \E y \in Rows :
      spu = "draw" /\ underWay[b] = {y} /\ y < DrawnRows /\ Made(y, buffers[b])

(* In an operation the drawn rows are on the screen or on their way there. *)
RowShown(y) ==
  Shows(y, Goal(y)) \/ \E lane \in All, s \in {0, 1} : underWay[<<"OUTPUT", lane, s>>] = {y}

RectRows ==
  /\ \A lane \in All, s \in {0, 1} : RowOut(lane, s)
  /\ spu = "draw" => /\ group <= Groups + (data.height % Lanes)
                     /\ \A y \in Rows : IF y < DrawnRows THEN RowShown(y) ELSE StillToDo(y)

(* A row of the screen as a buffer should have it.                         *)
AsFetched(k, y) == [row |-> y, was |-> IF k = "TEMP" THEN screen[y] ELSE Fresh]

(* The other buffers hold the row they are next for, as it is on the       *)
(* screen, or the command under way to them will bring it.  If that row is *)
(* at risk, they hold another row at worst.                                *)
RowComing(k, lane, s) ==
  LET b == <<k, lane, s>>
      y == NextRow(lane, s)
  IN IF y \in underWay[b] THEN underWay[b] = {y} \/ y \in atRisk
     ELSE \/ underWay[b] = {} /\ buffers[b] = AsFetched(k, y)
          \/ y \in atRisk /\ (buffers[b] # Spoilt /\ buffers[b].row = y => buffers[b] = AsFetched(k, y))

RectFetched ==
  spu = "draw" =>
    \A k \in GetKinds, lane \in All, s \in {0, 1} :
      NextRow(lane, s) >= DrawnRows => RowComing(k, lane, s)

RectInv == /\ RectCalls /\ RectCounts /\ RectTypes /\ RectRest /\ RectRows /\ RectFetched

-----------------------------------------------------------------------------
(* What the proof needs of heights, rows and buffers.                      *)

LEMMA DivMod ==
  ASSUME NEW h \in Nat
  PROVE  /\ h \div Lanes \in Nat /\ h % Lanes \in 0 .. Lanes - 1
         /\ h = Lanes * (h \div Lanes) + (h % Lanes)
         /\ (h \div Lanes) + (h % Lanes) <= h
<1>1. /\ h \div Lanes \in Nat /\ h % Lanes \in 0 .. Lanes - 1
      /\ h = Lanes * (h \div Lanes) + (h % Lanes)
  BY RectAssumption
<1>2. h \div Lanes <= Lanes * (h \div Lanes)
  BY <1>1, RectAssumption
<1>3. QED  BY <1>1, <1>2, RectAssumption

LEMMA Times ==
  ASSUME NEW g \in Nat
  PROVE  /\ Lanes * g \in Nat /\ g * Lanes = Lanes * g
         /\ Lanes * (g + 1) = Lanes * g + Lanes
         /\ Lanes * (g + 2) = Lanes * g + Lanes + Lanes
         /\ \A n \in Nat : g < n => Lanes * g + Lanes <= Lanes * n
BY RectAssumption

LEMMA Tallest ==
  /\ Lanes \in Nat /\ Lanes > 0 /\ MaxRuns \in Nat
  /\ Highest \in RectSizes /\ Highest \in Nat /\ 0 \in RectHeights
  /\ \A h \in RectHeights : h \in Nat /\ h <= Highest
  /\ Rows = 0 .. Highest + 2 * Lanes - 1
<1>1. \E h \in RectSizes : \A k \in RectSizes : k <= h
  BY RectAssumption
<1>2. Highest \in RectSizes /\ \A k \in RectSizes : k <= Highest
  BY <1>1, Zenon DEF Highest
<1>3. QED  BY <1>2, RectAssumption DEF RectHeights, Rows

LEMMA BuffersAre ==
  /\ \A k \in Kinds, lane \in All, s \in {0, 1} : <<k, lane, s>> \in Buffers
  /\ \A b \in Buffers : /\ b = <<b[1], b[2], b[3]>>
                        /\ b[1] \in Kinds /\ b[2] \in All /\ b[3] \in {0, 1}
  /\ Kinds = {"TEMP", "INPUT", "OUTPUT"}
  /\ GetKinds \subseteq {"TEMP", "INPUT"} /\ "TEMP" \in GetKinds
BY DEF Buffers, All, Kinds, GetKinds

LEMMA Mailed ==
  /\ Append(<<>>, "RUN") = <<"RUN">> /\ Append(<<>>, "STOP") = <<"STOP">>
  /\ Append(<<"RUN">>, "STOP") = <<"RUN", "STOP">>
  /\ Head(<<"RUN">>) = "RUN" /\ Tail(<<"RUN">>) = <<>>
  /\ Head(<<"STOP">>) = "STOP" /\ Tail(<<"STOP">>) = <<>>
  /\ Head(<<"RUN", "STOP">>) = "RUN" /\ Tail(<<"RUN", "STOP">>) = <<"STOP">>
  /\ <<"RUN">> # <<>> /\ <<"STOP">> # <<>> /\ <<"RUN", "STOP">> # <<>>
  /\ <<"STOP">> # <<"RUN">> /\ <<"STOP">> # <<"RUN", "STOP">> /\ <<"RUN">> # <<"RUN", "STOP">>
  /\ Tail(<<"RDY">>) = <<>> /\ <<"RDY">> # <<>>
<1>1. <<"STOP">> # <<"RUN">>
  OBVIOUS
<1>2. QED  BY <1>1, Mail

-----------------------------------------------------------------------------
(* The calls over a step.                                                  *)

LEMMA RectWhere ==
  ASSUME RectCalls, RectCounts
  PROVE  /\ runs \in Nat /\ runs <= MaxRuns /\ MaxRuns \in Nat
         /\ data.no \in Nat /\ data.no <= runs
         /\ host \in {"idle", "receive", "send"} => RectTurns
         /\ host \in {"join", "joined"} => RectLeaving
         /\ inbox \in {<<>>, <<"RUN">>, <<"STOP">>, <<"RUN", "STOP">>}
         /\ RectPending => spu = "wait" /\ ~stopped /\ runs > 0 /\ args.no = runs /\ host # "send"
         /\ spu = "none" => runs = 0 /\ RectTurns
<1>1. runs \in Nat /\ runs <= MaxRuns /\ MaxRuns \in Nat
  BY Tallest DEF RectCounts
<1>2. /\ host \in {"idle", "receive", "send"} => RectTurns
      /\ host \in {"join", "joined"} => RectLeaving
  BY DEF RectCalls, RectTurns, RectLeaving
<1>3. inbox \in {<<>>, <<"RUN">>, <<"STOP">>, <<"RUN", "STOP">>}
  BY DEF RectCalls, RectTurns, RectLeaving, RectWorking, RectAnswered, RectQuiet, RectSent
<1>4. RectPending => spu = "wait" /\ ~stopped /\ runs > 0 /\ args.no = runs /\ host # "send"
  BY Mailed DEF RectCalls, RectTurns, RectLeaving, RectWorking, RectAnswered, RectQuiet, RectSent, RectPending
<1>5. spu = "none" => runs = 0 /\ RectTurns
  BY DEF RectCalls, RectTurns, RectLeaving, RectWorking, RectAnswered, RectQuiet, RectSent
<1>6. data.no \in Nat /\ data.no <= runs
  BY <1>1, <1>4 DEF RectCalls
<1>7. QED  BY <1>1, <1>2, <1>3, <1>4, <1>5, <1>6

(* Steps of the program that are not about messages.                       *)
LEMMA RectSteady ==
  ASSUME UNCHANGED <<host, runs, answers, args, thread, inbox, outbox, spu, data, stopped>>
  PROVE  RectCalls' <=> RectCalls
BY DEF RectCalls, RectTurns, RectLeaving, RectWorking, RectAnswered, RectQuiet, RectSent, RectPending

LEMMA StepRectCalls ==
  ASSUME RectCalls, RectCounts, [RectNext]_rectVars
  PROVE  RectCalls'
<1>0. /\ runs \in Nat /\ (host \in {"idle", "receive", "send"} => RectTurns)
      /\ (host \in {"join", "joined"} => RectLeaving) /\ RectCalls
  BY RectWhere
<1>1. CASE Receive
  <2>1. /\ host = "idle" /\ host' = "receive" /\ answers = runs
        /\ UNCHANGED <<runs, answers, args, thread, inbox, outbox, spu, data, stopped>>
    BY <1>1 DEF Receive, spuVars
  <2>2. RectTurns'
    BY <1>0, <2>1 DEF RectTurns, RectWorking, RectAnswered, RectQuiet, RectSent, RectPending
  <2>3. QED  BY <1>0, <2>1, <2>2 DEF RectCalls, RectPending
<1>2. CASE ReceiveReady
  <2>1. /\ host = "receive" /\ host' = "idle" /\ answers' = answers + 1
        /\ outbox # <<>> /\ outbox' = Tail(outbox)
        /\ UNCHANGED <<runs, args, thread, inbox, spu, data, stopped>>
    BY <1>2 DEF ReceiveReady, spuVars
  <2>2. RectTurns /\ RectAnswered
    BY <1>0, <2>1 DEF RectTurns, RectWorking, RectAnswered, RectQuiet, RectSent
  <2>3. RectQuiet' /\ outbox' = <<>>
    BY <2>1, <2>2, Mailed DEF RectAnswered, RectQuiet
  <2>4. RectTurns'
    BY <2>1, <2>2, <2>3 DEF RectTurns, RectPending
  <2>5. QED  BY <1>0, <2>1, <2>3, <2>4 DEF RectCalls, RectPending
<1>3. ASSUME NEW h \in RectSizes, NEW op \in Ops, Prepare(h, op)  PROVE RectCalls'
  <2>1. /\ host = "idle" /\ host' = "send" /\ answers = runs + 1 /\ runs < MaxRuns
        /\ args' = [no |-> runs + 1, height |-> h, op |-> op]
        /\ UNCHANGED <<runs, answers, thread, inbox, outbox, spu, data, stopped>>
    BY <1>3 DEF Prepare, spuVars
  <2>2. RectTurns /\ RectQuiet
    BY <1>0, <2>1 DEF RectTurns, RectWorking, RectAnswered, RectQuiet, RectSent
  <2>3. RectTurns'
    BY <2>1, <2>2 DEF RectTurns, RectQuiet, RectPending
  <2>4. QED  BY <1>0, <2>1, <2>3 DEF RectCalls, RectPending
<1>4. CASE SendRun
  <2>1. /\ host = "send" /\ host' = "idle" /\ inbox' = Append(inbox, "RUN") /\ runs' = runs + 1
        /\ UNCHANGED <<answers, args, thread, outbox, spu, data, stopped>>
    BY <1>4 DEF SendRun, spuVars
  <2>2. RectTurns /\ RectQuiet /\ args.no = runs + 1
    BY <1>0, <2>1 DEF RectTurns
  <2>3. RectSent' /\ RectPending' /\ ~RectPending
    BY <1>0, <2>1, <2>2, Mailed DEF RectQuiet, RectSent, RectPending
  <2>4. RectTurns'
    BY <2>1, <2>2, <2>3 DEF RectTurns
  <2>5. data.no' = runs' - 1
    BY <1>0, <2>1, <2>3 DEF RectCalls
  <2>6. QED  BY <1>0, <2>1, <2>3, <2>4, <2>5 DEF RectCalls
<1>5. CASE Destroy
  <2>1. /\ host = "idle" /\ host' = "join" /\ inbox' = Append(inbox, "STOP") /\ runs > 0
        /\ UNCHANGED <<runs, answers, args, thread, outbox, spu, data, stopped>>
    BY <1>5 DEF Destroy, spuVars
  <2>2. RectTurns
    BY <1>0, <2>1
  <2>3. CASE inbox = <<>>
    <3>1. inbox' = <<"STOP">> /\ ~RectPending /\ ~RectPending'
      BY <2>1, <2>3, Mailed DEF RectPending
    <3>2. RectLeaving'
      BY <1>0, <2>1, <2>2, <2>3, <3>1, Mailed
         DEF RectTurns, RectLeaving, RectWorking, RectAnswered, RectQuiet, RectSent
    <3>3. QED  BY <1>0, <2>1, <3>1, <3>2 DEF RectCalls
  <2>4. CASE inbox = <<"RUN">>
    <3>1. inbox' = <<"RUN", "STOP">> /\ RectPending /\ RectPending'
      BY <2>1, <2>4, Mailed DEF RectPending
    <3>2. RectLeaving'
      BY <1>0, <2>1, <2>2, <2>4, <3>1, Mailed
         DEF RectTurns, RectLeaving, RectWorking, RectAnswered, RectQuiet, RectSent
    <3>3. QED  BY <1>0, <2>1, <3>1, <3>2 DEF RectCalls
  <2>5. QED  BY <2>2, <2>3, <2>4 DEF RectTurns, RectWorking, RectAnswered, RectQuiet, RectSent
<1>6. CASE Joined
  <2>1. /\ host = "join" /\ host' = "joined" /\ thread = "ended"
        /\ UNCHANGED <<runs, answers, args, thread, inbox, outbox, spu, data, stopped>>
    BY <1>6 DEF Joined, spuVars
  <2>2. RectLeaving'
    BY <1>0, <2>1 DEF RectLeaving, RectCalls, RectPending
  <2>3. QED  BY <1>0, <2>1, <2>2 DEF RectCalls, RectPending
<1>7. CASE Load
  <2>1. UNCHANGED <<host, runs, answers, args, inbox, outbox, data, stopped>>
    BY <1>7 DEF Load, hostVars
  <2>2. spu = "none" /\ RectTurns /\ RectWorking
    BY <1>0, <1>7, RectWhere DEF Load, RectCalls, RectTurns, RectWorking, RectAnswered, RectQuiet, RectSent
  <2>3. RectTurns' /\ thread' # "new" /\ (thread' = "ended" => spu' = "none")
    BY <1>7, <2>1, <2>2 DEF Load, RectTurns, RectWorking, RectQuiet, RectPending
  <2>4. QED  BY <1>0, <2>1, <2>3 DEF RectCalls, RectPending
<1>8. CASE Ended
  <2>1. /\ UNCHANGED <<host, runs, answers, args, inbox, outbox, spu, data, stopped>>
        /\ spu = "exit" /\ thread' = "ended"
    BY <1>8 DEF Ended, hostVars, spuVars
  <2>2. QED
    BY <1>0, <2>1 DEF RectCalls, RectTurns, RectLeaving, RectWorking, RectAnswered, RectQuiet, RectSent, RectPending
<1>9. CASE Post
  <2>1. /\ UNCHANGED <<host, runs, answers, args, thread, inbox, data, stopped>>
        /\ spu = "post" /\ outbox' = <<"RDY">> /\ spu' = "wait"
    BY <1>9 DEF Post, hostVars
  <2>2. RectTurns => RectTurns'
    BY <2>1 DEF RectTurns, RectWorking, RectAnswered, RectQuiet, RectSent, RectPending
  <2>3. RectLeaving => RectLeaving'
    BY <2>1 DEF RectLeaving, RectPending
  <2>4. QED  BY <1>0, <2>1, <2>2, <2>3 DEF RectCalls, RectPending
<1>10. CASE Take
  <2>1. /\ UNCHANGED <<host, runs, answers, args, thread, outbox>> /\ spu = "wait" /\ spu' = "fetch"
        /\ inbox # <<>> /\ inbox' = Tail(inbox)
        /\ Head(inbox) = "RUN" => data' = args /\ stopped' = stopped
        /\ Head(inbox) # "RUN" => data' = data /\ stopped' = TRUE
    BY <1>10 DEF Take, hostVars
  <2>2. CASE RectTurns
    <3>1. RectSent /\ host # "send"
      BY <2>1, <2>2 DEF RectTurns, RectWorking, RectAnswered, RectQuiet, RectSent
    <3>2. inbox' = <<>> /\ data' = args /\ stopped' = stopped /\ ~RectPending'
      BY <2>1, <3>1, Mailed DEF RectSent, RectPending
    <3>3. RectTurns'
      BY <2>1, <2>2, <3>1, <3>2 DEF RectTurns, RectSent, RectWorking
    <3>4. data'.no = runs'
      BY <2>1, <2>2, <3>1, <3>2 DEF RectTurns
    <3>5. QED  BY <1>0, <2>1, <3>2, <3>3, <3>4 DEF RectCalls
  <2>3. CASE RectLeaving /\ inbox = <<"RUN", "STOP">>
    <3>1. inbox' = <<"STOP">> /\ data' = args /\ stopped' = stopped /\ ~RectPending' /\ outbox = <<>> /\ ~stopped
      BY <2>1, <2>3, Mailed DEF RectLeaving, RectPending
    <3>2. RectLeaving'
      BY <2>1, <2>3, <3>1, Mailed DEF RectLeaving
    <3>3. data'.no = runs'
      BY <2>1, <2>3, <3>1 DEF RectLeaving
    <3>4. QED  BY <1>0, <2>1, <3>1, <3>2, <3>3 DEF RectCalls
  <2>4. CASE RectLeaving /\ inbox = <<"STOP">>
    <3>1. inbox' = <<>> /\ data' = data /\ stopped' /\ ~RectPending' /\ ~RectPending
      BY <2>1, <2>4, Mailed DEF RectLeaving, RectPending
    <3>2. RectLeaving'
      BY <2>1, <2>4, <3>1, Mailed DEF RectLeaving
    <3>3. data'.no = runs'
      BY <1>0, <2>1, <3>1 DEF RectCalls
    <3>4. QED  BY <1>0, <2>1, <3>1, <3>2, <3>3 DEF RectCalls
  <2>5. QED  BY <1>0, <2>1, <2>2, <2>3, <2>4 DEF RectCalls, RectLeaving
<1>11. CASE FetchFirst
  <2>1. /\ UNCHANGED <<host, runs, answers, args, thread, inbox, outbox, data, stopped>>
        /\ spu = "fetch" /\ spu' = "draw"
    BY <1>11 DEF FetchFirst, hostVars
  <2>2. QED
    BY <1>0, <2>1 DEF RectCalls, RectTurns, RectLeaving, RectWorking, RectAnswered, RectQuiet, RectSent, RectPending
<1>12. CASE Finish
  <2>1. /\ UNCHANGED <<host, runs, answers, args, thread, inbox, outbox, data, stopped>>
        /\ spu = "draw" /\ spu' = IF stopped THEN "exit" ELSE "post"
    BY <1>12 DEF Finish, hostVars
  <2>2. RectTurns => RectTurns'
    BY <2>1 DEF RectTurns, RectWorking, RectAnswered, RectQuiet, RectSent, RectPending
  <2>3. RectLeaving => RectLeaving'
    BY <2>1 DEF RectLeaving, RectPending
  <2>4. QED  BY <1>0, <2>1, <2>2, <2>3 DEF RectCalls, RectPending
<1>13. CASE (\E b \in Buffers : Arrive(b)) \/ DrawGroup \/ DrawRest \/ UNCHANGED rectVars
  <2>1. UNCHANGED <<host, runs, answers, args, thread, inbox, outbox, spu, data, stopped>>
    BY <1>13 DEF Arrive, DrawGroup, DrawRest, rectVars, hostVars, spuVars
  <2>2. QED  BY <1>0, <2>1, RectSteady
<1>14. QED
  BY <1>1, <1>2, <1>3, <1>4, <1>5, <1>6, <1>7, <1>8, <1>9, <1>10, <1>11, <1>12, <1>13
     DEF RectNext, CallerStep, ServiceStep

-----------------------------------------------------------------------------
(* Counts over a step, and what the steps of the drawing compute.          *)

(* The steps that draw nothing and take no message.                        *)
LEMMA RectCalm ==
  ASSUME RectCalls, RectCounts, [RectNext]_rectVars,
         ~SendRun, ~Take, ~FetchFirst, ~DrawGroup, ~DrawRest, ~Finish,
         \A b \in Buffers : ~Arrive(b)
  PROVE  /\ UNCHANGED <<buffers, underWay, screen, atRisk, expected, data, stopped, group, sel, runs>>
         /\ RectPending' <=> RectPending
         /\ RectPending => args' = args
         /\ spu' = spu \/ (spu' \notin {"fetch", "draw"} /\ spu \notin {"fetch", "draw"})
<1>1. CASE Destroy
  <2>1. host = "idle" /\ RectTurns /\ inbox \in {<<>>, <<"RUN">>}
    BY <1>1, RectWhere DEF Destroy, RectTurns, RectWorking, RectAnswered, RectQuiet, RectSent
  <2>2. RectPending' <=> RectPending
    BY <1>1, <2>1, Mailed DEF Destroy, RectPending
  <2>3. QED  BY <1>1, <2>2 DEF Destroy, spuVars, dmaVars
<1>2. ASSUME NEW h \in RectSizes, NEW op \in Ops, Prepare(h, op)
      PROVE  /\ UNCHANGED <<buffers, underWay, screen, atRisk, expected, data, stopped, group, sel, runs, spu>>
             /\ RectPending' <=> RectPending
             /\ ~RectPending
  <2>1. host = "idle" /\ answers = runs + 1 /\ RectTurns
    BY <1>2, RectWhere DEF Prepare
  <2>2. inbox = <<>>
    BY <2>1, RectWhere DEF RectTurns, RectWorking, RectAnswered, RectQuiet, RectSent
  <2>3. QED  BY <1>2, <2>2, Mailed DEF Prepare, RectPending, spuVars, dmaVars
<1>3. CASE Receive \/ ReceiveReady \/ Joined \/ Ended \/ UNCHANGED rectVars
  BY <1>3 DEF Receive, ReceiveReady, Joined, Ended, rectVars, hostVars, spuVars, dmaVars, RectPending
<1>4. CASE Load
  BY <1>4 DEF Load, RectCalls, hostVars, dmaVars, RectPending
<1>5. CASE Post
  BY <1>5 DEF Post, hostVars, dmaVars, RectPending
<1>6. QED  BY <1>1, <1>2, <1>3, <1>4, <1>5 DEF RectNext, CallerStep, ServiceStep

LEMMA RectGroups ==
  ASSUME RectCounts
  PROVE  /\ data.height \in Nat /\ data.height <= Highest /\ Highest \in Nat
         /\ Groups \in Nat /\ data.height % Lanes \in 0 .. Lanes - 1
         /\ data.height = Lanes * Groups + (data.height % Lanes)
         /\ Groups + (data.height % Lanes) <= data.height
         /\ Lanes \in Nat /\ Lanes > 0 /\ group \in Nat
         /\ Whole \in Nat /\ Whole <= group /\ Whole <= Groups
<1>1. /\ data.height \in Nat /\ data.height <= Highest /\ Highest \in Nat
      /\ Lanes \in Nat /\ Lanes > 0
  BY Tallest DEF RectCounts
<1>2. /\ Groups \in Nat /\ data.height % Lanes \in 0 .. Lanes - 1
      /\ data.height = Lanes * Groups + (data.height % Lanes)
      /\ Groups + (data.height % Lanes) <= data.height
  BY <1>1, DivMod DEF Groups
<1>3. group \in Nat
  BY <1>1 DEF RectCounts
<1>4. Whole \in Nat /\ Whole <= group /\ Whole <= Groups
  BY <1>2, <1>3 DEF Whole
<1>5. QED  BY <1>1, <1>2, <1>3, <1>4

LEMMA DrawnType ==
  ASSUME RectCounts
  PROVE  DrawnRows \in Nat
<1>1. Lanes * Whole \in Nat /\ Whole \in Nat /\ group \in Nat /\ Whole <= group
  BY RectGroups, Times
<1>2. QED  BY <1>1 DEF DrawnRows

(* The rows of the group that is drawn, and of the one two further down.   *)
LEMMA GroupRows ==
  ASSUME RectCounts, group < Groups, NEW lane \in All
  PROVE  /\ lane \in Nat /\ lane < Lanes
         /\ Lanes * group + lane < data.height /\ Lanes * group + lane \in Rows
         /\ lane + Lanes * (group + 2) \in Rows
         /\ lane + Lanes * (group + 2) = Lanes * (group + 2) + lane
         /\ group * Lanes + lane = Lanes * group + lane
         /\ lane + Lanes * group = Lanes * group + lane
         /\ Whole = group /\ DrawnRows = Lanes * group
         /\ group + 1 <= Highest
<1>1. /\ lane \in Nat /\ lane < Lanes /\ Lanes \in Nat /\ group \in Nat /\ Groups \in Nat
      /\ data.height \in Nat /\ Lanes * Groups <= data.height /\ data.height <= Highest
      /\ Highest \in Nat /\ Groups <= data.height
      /\ Lanes * Groups \in Nat
  <2>1. /\ Lanes \in Nat /\ group \in Nat /\ Groups \in Nat /\ data.height \in Nat
        /\ data.height = Lanes * Groups + (data.height % Lanes)
        /\ data.height % Lanes \in 0 .. Lanes - 1 /\ Groups + (data.height % Lanes) <= data.height
        /\ data.height <= Highest /\ Highest \in Nat
    BY RectGroups
  <2>2. Lanes * Groups \in Nat
    BY <2>1, Times
  <2>3. lane \in Nat /\ lane < Lanes
    BY <2>1 DEF All
  <2>4. QED  BY <2>1, <2>2, <2>3
<1>2. /\ Lanes * group \in Nat /\ Lanes * (group + 2) = Lanes * group + Lanes + Lanes
      /\ group * Lanes = Lanes * group
      /\ Lanes * group + Lanes <= Lanes * Groups
  BY <1>1, Times
<1>3. Whole = group /\ DrawnRows = Lanes * group
  BY <1>1, <1>2 DEF Whole, DrawnRows
<1>4. QED  BY <1>1, <1>2, <1>3 DEF Rows

(* The row that DrawRest is at is the first that is not drawn.             *)
LEMMA RestRow ==
  ASSUME RectCounts, group >= Groups, group - Groups < data.height % Lanes
  PROVE  /\ group - Groups \in All
         /\ Groups * Lanes + (group - Groups) = Lanes * Groups + (group - Groups)
         /\ Lanes * Groups + (group - Groups) < data.height
         /\ Lanes * Groups + (group - Groups) \in Rows
         /\ Whole = Groups /\ DrawnRows = Lanes * Groups + (group - Groups)
         /\ group + 1 <= Groups + (data.height % Lanes) /\ group + 1 <= Highest
<1>1. /\ Lanes \in Nat /\ group \in Nat /\ Groups \in Nat /\ data.height % Lanes \in 0 .. Lanes - 1
      /\ data.height \in Nat /\ data.height = Lanes * Groups + (data.height % Lanes)
      /\ data.height <= Highest /\ Highest \in Nat /\ Lanes * Groups \in Nat
      /\ Groups + (data.height % Lanes) <= data.height
      /\ Groups * Lanes = Lanes * Groups
  BY RectGroups, Times
<1>2. Whole = Groups
  BY <1>1 DEF Whole
<1>3. QED  BY <1>1, <1>2 DEF DrawnRows, Rows, All

LEMMA StepRectCounts ==
  ASSUME RectCalls, RectCounts, [RectNext]_rectVars
  PROVE  RectCounts'
<1>0. RectCounts /\ Highest \in Nat /\ 0 \in RectHeights /\ runs \in Nat /\ MaxRuns \in Nat
      /\ RectSizes \subseteq RectHeights
  BY Tallest, RectWhere DEF RectHeights
<1>1. CASE DrawGroup
  <2>1. group + 1 <= Highest /\ group \in Nat
    <3>1. 0 \in All /\ group < Groups
      BY <1>1, Tallest DEF All, DrawGroup, Groups
    <3>2. QED  BY <1>0, <3>1, GroupRows DEF RectCounts
  <2>2. QED  BY <1>0, <1>1, <2>1 DEF DrawGroup, RectCounts, hostVars
<1>2. CASE DrawRest
  <2>1. group + 1 <= Highest /\ group \in Nat
    BY <1>0, <1>2, RestRow DEF DrawRest, Groups, RectCounts
  <2>2. QED  BY <1>0, <1>2, <2>1 DEF DrawRest, RectCounts, hostVars
<1>3. CASE SendRun
  <2>1. runs + 1 <= MaxRuns
    BY <1>0, <1>3, RectWhere DEF SendRun, RectTurns
  <2>2. QED  BY <1>0, <1>3, <2>1 DEF SendRun, RectCounts, spuVars
<1>4. CASE FetchFirst
  BY <1>0, <1>4 DEF FetchFirst, RectCounts, hostVars
<1>5. CASE Take
  BY <1>0, <1>5 DEF Take, RectCounts, hostVars
<1>6. CASE (\E b \in Buffers : Arrive(b)) \/ Finish \/ UNCHANGED rectVars
  BY <1>0, <1>6 DEF Arrive, Finish, RectCounts, rectVars, hostVars, spuVars
<1>7. CASE Receive \/ ReceiveReady \/ Joined \/ Ended \/ Load \/ Post \/ Destroy
  BY <1>0, <1>7 DEF Receive, ReceiveReady, Joined, Ended, Load, Post, Destroy, RectCounts, hostVars, spuVars
<1>8. ASSUME NEW h \in RectSizes, NEW op \in Ops, Prepare(h, op)  PROVE RectCounts'
  BY <1>0, <1>8 DEF Prepare, RectCounts, spuVars
<1>9. QED
  BY <1>1, <1>2, <1>3, <1>4, <1>5, <1>6, <1>7, <1>8 DEF RectNext, CallerStep, ServiceStep

LEMMA IssuedRows ==
  ASSUME NEW y, Issued(y), underWay \in [Buffers -> SUBSET Rows],
         \A b \in DOMAIN y : b \in Buffers => y[b] \in Rows
  PROVE  /\ underWay' \in [Buffers -> SUBSET Rows]
         /\ \A b \in Buffers :
              underWay'[b] = underWay[b] \cup IF b \in DOMAIN y THEN {y[b]} ELSE {}
<1>1. underWay' = [b \in Buffers |-> underWay[b] \cup IF b \in DOMAIN y THEN {y[b]} ELSE {}]
  BY DEF Issued
<1>2. QED  BY <1>1

LEMMA GoalType ==
  ASSUME RectTypes, RectCounts, NEW y \in Rows
  PROVE  /\ Goal(y) \in Held /\ Goal(y).times <= runs + 1 /\ Goal(y).by <= runs
         /\ Goal(y) # Spoilt
         /\ screen[y] \in Held \cup {Spoilt} /\ expected[y] \in Held
         /\ screen[y] = Spoilt => y \in atRisk
<1>1. runs \in Nat
  BY Tallest DEF RectCounts
<1>2. Spoilt \notin Held
  BY RectAssumption
<1>3. Goal(y) \in Held /\ Goal(y).times <= runs + 1 /\ Goal(y).by <= runs
  BY <1>1 DEF RectTypes, Goal, Held
<1>4. QED  BY <1>2, <1>3 DEF RectTypes

(* What a buffer has fetched is no Spoilt, and has its row.                *)
LEMMA FetchedIs ==
  ASSUME RectTypes, NEW k, NEW y \in Rows
  PROVE  /\ AsFetched(k, y) # Spoilt /\ AsFetched(k, y).row = y
         /\ AsFetched("TEMP", y).was = screen[y]
         /\ AsFetched(k, y) \in [row: Rows, was: Held \cup {Spoilt}]
<1> DEFINE was == IF k = "TEMP" THEN screen[y] ELSE Fresh
<1>1. was \in Held \cup {Spoilt} /\ y \in Nat
  BY Tallest DEF Fresh, Held, RectTypes
<1>2. AsFetched(k, y) = [row |-> y, was |-> was]
  BY DEF AsFetched
<1>3. AsFetched("TEMP", y).was = screen[y]
  BY DEF AsFetched
<1> HIDE DEF was
<1>4. /\ AsFetched(k, y) \in [row: Nat, was: Held \cup {Spoilt}]
      /\ AsFetched(k, y) \in [row: Rows, was: Held \cup {Spoilt}]
      /\ AsFetched(k, y).row = y
  BY <1>1, <1>2
<1>5. Spoilt \notin [row: Nat, was: Held \cup {Spoilt}]
  BY RectAssumption
<1>6. QED  BY <1>3, <1>4, <1>5

(* A row is drawn from what its buffers hold: once more than is there, if  *)
(* they hold it.                                                           *)
LEMMA DrawnAsWanted ==
  ASSUME RectCounts, RectTypes, RectRows, RectFetched, spu = "draw",
         NEW lane \in All, NEW y \in Rows, y = NextRow(lane, sel), y >= DrawnRows, y < data.height,
         \A k \in GetKinds : underWay[<<k, lane, sel>>] = {}
  PROVE  Made(y, Drawn(lane, y))
<1>1. sel \in {0, 1} /\ "TEMP" \in GetKinds
  BY BuffersAre DEF RectCounts
<1>2. \A k \in GetKinds :
        LET b == <<k, lane, sel>> IN
        \/ buffers[b] = AsFetched(k, y)
        \/ y \in atRisk /\ (buffers[b] # Spoilt /\ buffers[b].row = y => buffers[b] = AsFetched(k, y))
  BY <1>1 DEF RectFetched, RowComing
<1>3. Undone(y, data.no)
  <2>1. DrawnRows \in Nat /\ y \in Int
    BY DrawnType, Tallest
  <2>2. ~(y < DrawnRows)
    BY <2>1
  <2>3. StillToDo(y)
    BY <2>2 DEF RectRows
  <2>4. QED  BY <2>3 DEF StillToDo
<1>4. screen[y] = Spoilt => y \in atRisk
  BY GoalType
<1>5. CASE \A k \in GetKinds : buffers[<<k, lane, sel>>] = AsFetched(k, y)
  <2>1. \A k \in GetKinds : buffers[<<k, lane, sel>>] # Spoilt /\ buffers[<<k, lane, sel>>].row = y
    BY <1>5, FetchedIs
  <2>2. buffers[<<"TEMP", lane, sel>>].was = screen[y]
    BY <1>1, <1>5, FetchedIs
  <2>3. CASE screen[y] = Spoilt
    BY <1>4, <2>2, <2>3 DEF Drawn, Made
  <2>4. CASE screen[y] # Spoilt
    <3>1. Drawn(lane, y) = [times |-> screen[y].times + 1, by |-> data.no]
      BY <2>1, <2>2, <2>4 DEF Drawn
    <3>2. QED  BY <1>3, <2>4, <3>1 DEF Undone, Made
  <2>5. QED  BY <2>3, <2>4
<1>6. ASSUME NEW k \in GetKinds, buffers[<<k, lane, sel>>] # AsFetched(k, y)
      PROVE  Made(y, Drawn(lane, y))
  <2>1. y \in atRisk /\ ~(buffers[<<k, lane, sel>>] # Spoilt /\ buffers[<<k, lane, sel>>].row = y)
    BY <1>2, <1>6
  <2>2. Drawn(lane, y) = Spoilt
    BY <2>1 DEF Drawn
  <2>3. QED  BY <2>1, <2>2 DEF Made
<1>7. QED  BY <1>5, <1>6

-----------------------------------------------------------------------------
(* What the commands do to underWay, buffers and screen.                   *)

LEMMA OneRow ==
  \A y, z : {y} # {} /\ ({y} = {z} => y = z) /\ {y} \ {y} = {}
OBVIOUS

LEMMA Arrives ==
  ASSUME RectTypes, NEW b \in Buffers, Arrive(b)
  PROVE  \E z \in Rows :
         /\ UNCHANGED <<host, runs, answers, args, expected, thread, inbox, outbox,
                        spu, data, group, sel, stopped, atRisk>>
         /\ z \in underWay[b]
         /\ underWay' \in [Buffers -> SUBSET Rows]
         /\ underWay'[b] = underWay[b] \ {z} /\ \A d \in Buffers \ {b} : underWay'[d] = underWay[d]
         /\ b[1] = "OUTPUT" => buffers' = buffers /\ screen' = [screen EXCEPT ![z] = buffers[b]]
         /\ b[1] # "OUTPUT" =>
              /\ screen' = screen /\ buffers' = [buffers EXCEPT ![b] = AsFetched(b[1], z)]
              /\ \A d \in Buffers \ {b} : buffers'[d] = buffers[d]
              /\ buffers'[b] = AsFetched(b[1], z)
<1>1. PICK z \in underWay[b] :
        /\ underWay' = [underWay EXCEPT ![b] = @ \ {z}]
        /\ IF b[1] = "OUTPUT"
           THEN screen' = [screen EXCEPT ![z] = buffers[b]] /\ UNCHANGED buffers
           ELSE /\ buffers' = [buffers EXCEPT ![b] =
                     [row |-> z, was |-> IF b[1] = "TEMP" THEN screen[z] ELSE Fresh]]
                /\ UNCHANGED screen
  BY DEF Arrive
<1>2. UNCHANGED <<host, runs, answers, args, expected, thread, inbox, outbox,
                  spu, data, group, sel, stopped, atRisk>>
  BY DEF Arrive, hostVars, spuVars
<1>3. /\ underWay \in [Buffers -> SUBSET Rows]
      /\ buffers \in [Buffers -> Held \cup [row: Rows, was: Held \cup {Spoilt}] \cup {Spoilt}]
  BY DEF RectTypes
<1>4. /\ z \in Rows /\ underWay' \in [Buffers -> SUBSET Rows]
      /\ underWay'[b] = underWay[b] \ {z} /\ \A d \in Buffers \ {b} : underWay'[d] = underWay[d]
  BY <1>1, <1>3
<1>5. ASSUME b[1] # "OUTPUT"
      PROVE  /\ screen' = screen /\ buffers' = [buffers EXCEPT ![b] = AsFetched(b[1], z)]
             /\ \A d \in Buffers \ {b} : buffers'[d] = buffers[d]
             /\ buffers'[b] = AsFetched(b[1], z)
  <2>1. screen' = screen /\ buffers' = [buffers EXCEPT ![b] = AsFetched(b[1], z)]
    BY <1>1, <1>5 DEF AsFetched
  <2>2. QED  BY <1>3, <2>1
<1>6. QED  BY <1>1, <1>2, <1>4, <1>5

LEMMA Fetches ==
  ASSUME RectTypes, RectCounts, FetchFirst
  PROVE  /\ UNCHANGED <<host, runs, answers, args, expected, thread, inbox, outbox, data, stopped,
                        buffers, screen>>
         /\ spu = "fetch" /\ spu' = "draw" /\ group' = 0 /\ sel' = 0
         /\ underWay' \in [Buffers -> SUBSET Rows]
         /\ \A k \in GetKinds, lane \in All, s \in {0, 1} :
              /\ Lanes * s + lane \in Rows
              /\ underWay'[<<k, lane, s>>] = underWay[<<k, lane, s>>] \cup {Lanes * s + lane}
              /\ underWay'[<<k, lane, s>>] = {Lanes * s + lane} \/ Lanes * s + lane \in atRisk'
         /\ \A b \in Buffers : b[1] \notin GetKinds => underWay'[b] = underWay[b]
         /\ atRisk \subseteq atRisk' /\ atRisk' \subseteq 0 .. 2 * Lanes - 1
<1> DEFINE bs == GetKinds \X All \X {0, 1}
           y == [b \in bs |-> First(b)]
           late == {First(b) : b \in {c \in bs : underWay[c] \ {First(c)} # {}}}
<1>1. /\ UNCHANGED <<host, runs, answers, args, expected, thread, inbox, outbox, data, stopped,
                     buffers, screen>>
      /\ spu = "fetch" /\ spu' = "draw" /\ group' = 0 /\ sel' = 0
      /\ Issued(y) /\ atRisk' = atRisk \cup late
  BY DEF FetchFirst, hostVars
<1>2. underWay \in [Buffers -> SUBSET Rows]
  BY DEF RectTypes
<1>3. ASSUME NEW lane \in All, NEW s \in {0, 1}
      PROVE  /\ s * Lanes + lane \in Rows /\ s * Lanes + lane = Lanes * s + lane
             /\ s * Lanes + lane \in 0 .. 2 * Lanes - 1
  <2>1. Lanes \in Nat /\ Lanes > 0 /\ Highest \in Nat /\ Rows = 0 .. Highest + 2 * Lanes - 1
    BY Tallest
  <2>2. lane \in Nat /\ lane < Lanes
    BY <2>1 DEF All
  <2>3. CASE s = 0
    BY <2>1, <2>2, <2>3
  <2>4. CASE s = 1
    BY <2>1, <2>2, <2>4
  <2>5. QED  BY <2>3, <2>4
<1>4. \A b \in bs : First(b) \in Rows /\ First(b) \in 0 .. 2 * Lanes - 1
  BY <1>3 DEF First
<1>5. /\ underWay' \in [Buffers -> SUBSET Rows]
      /\ \A b \in Buffers :
           underWay'[b] = underWay[b] \cup IF b \in DOMAIN y THEN {y[b]} ELSE {}
  <2>1. \A b \in DOMAIN y : y[b] \in Rows
    BY <1>4
  <2> HIDE DEF y
  <2>2. QED  BY <1>1, <1>2, <2>1, IssuedRows
<1>6. ASSUME NEW k \in GetKinds, NEW lane \in All, NEW s \in {0, 1}
      PROVE  /\ underWay'[<<k, lane, s>>] = underWay[<<k, lane, s>>] \cup {Lanes * s + lane}
             /\ underWay'[<<k, lane, s>>] = {Lanes * s + lane} \/ Lanes * s + lane \in atRisk'
  <2>1. <<k, lane, s>> \in Buffers /\ <<k, lane, s>> \in bs
    BY BuffersAre
  <2>2. First(<<k, lane, s>>) = Lanes * s + lane
    BY <1>3 DEF First
  <2>3. <<k, lane, s>> \in DOMAIN y /\ y[<<k, lane, s>>] = Lanes * s + lane
    BY <2>1, <2>2
  <2>4. underWay[<<k, lane, s>>] \ {Lanes * s + lane} # {} => Lanes * s + lane \in late
    BY <2>1, <2>2
  <2> HIDE DEF y, bs, late
  <2>5. underWay'[<<k, lane, s>>] = underWay[<<k, lane, s>>] \cup {Lanes * s + lane}
    BY <1>5, <2>1, <2>3
  <2>6. QED  BY <1>1, <2>4, <2>5
<1>7. \A b \in Buffers : b[1] \notin GetKinds => b \notin DOMAIN y
  OBVIOUS
<1>8. late \subseteq 0 .. 2 * Lanes - 1 /\ atRisk \subseteq 0 .. 2 * Lanes - 1
  BY <1>4 DEF RectTypes
<1> HIDE DEF y, bs, late
<1>9. QED  BY <1>1, <1>3, <1>5, <1>6, <1>7, <1>8

LEMMA Groupwise ==
  ASSUME RectTypes, RectCounts, DrawGroup
  PROVE  /\ UNCHANGED <<host, runs, answers, args, expected, thread, inbox, outbox, data, stopped,
                        spu, screen, atRisk>>
         /\ spu = "draw" /\ group < Groups /\ group' = group + 1 /\ sel' = 1 - sel
         /\ underWay' \in [Buffers -> SUBSET Rows]
         /\ \A lane \in All :
              /\ \A k \in Kinds : underWay[<<k, lane, sel>>] = {}
              /\ underWay'[<<"OUTPUT", lane, sel>>] = {Lanes * group + lane}
              /\ buffers'[<<"OUTPUT", lane, sel>>] = Drawn(lane, Lanes * group + lane)
              /\ \A k \in GetKinds : underWay'[<<k, lane, sel>>] = {Lanes * (group + 2) + lane}
         /\ \A k \in Kinds, lane \in All, s \in {0, 1} :
              /\ s # sel => underWay'[<<k, lane, s>>] = underWay[<<k, lane, s>>]
              /\ k # "OUTPUT" /\ k \notin GetKinds => underWay'[<<k, lane, s>>] = underWay[<<k, lane, s>>]
              /\ s # sel \/ k # "OUTPUT" => buffers'[<<k, lane, s>>] = buffers[<<k, lane, s>>]
         /\ buffers' = [b \in Buffers |-> IF b[1] = "OUTPUT" /\ b[3] = sel
                                          THEN Drawn(b[2], Lanes * group + b[2]) ELSE buffers[b]]
<1> DEFINE y == [b \in Of(GetKinds \cup {"OUTPUT"}, All, sel) |->
                   b[2] + Lanes * IF b[1] = "OUTPUT" THEN group ELSE group + 2]
<1>1. /\ UNCHANGED <<host, runs, answers, args, expected, thread, inbox, outbox, data, stopped,
                     spu, screen, atRisk>>
      /\ spu = "draw" /\ group < Groups /\ group' = group + 1 /\ sel' = 1 - sel
      /\ Issued(y)
      /\ Waited(Of(Kinds, All, sel))
  BY DEF DrawGroup, hostVars, Groups
<1>2. /\ underWay \in [Buffers -> SUBSET Rows] /\ sel \in {0, 1}
  BY DEF RectTypes, RectCounts
<1>3. \A lane \in All, k \in Kinds : underWay[<<k, lane, sel>>] = {}
  BY <1>1 DEF Waited, Of
<1>4. \A lane \in All : /\ Lanes * group + lane \in Rows /\ lane + Lanes * (group + 2) \in Rows
                        /\ lane + Lanes * (group + 2) = Lanes * (group + 2) + lane
                        /\ lane + Lanes * group = Lanes * group + lane
                        /\ group * Lanes + lane = Lanes * group + lane
  BY <1>1, GroupRows
<1>5. ASSUME NEW b \in DOMAIN y  PROVE y[b] \in Rows
  <2>1. b[2] \in All
    BY DEF Of
  <2>2. CASE b[1] = "OUTPUT"
    BY <1>4, <2>1, <2>2
  <2>3. CASE b[1] # "OUTPUT"
    BY <1>4, <2>1, <2>3
  <2>4. QED  BY <2>2, <2>3
<1>6. \A k \in Kinds, lane \in All, s \in {0, 1} :
        /\ <<k, lane, s>> \in DOMAIN y <=> s = sel /\ k \in GetKinds \cup {"OUTPUT"}
        /\ s = sel /\ k = "OUTPUT" => y[<<k, lane, s>>] = lane + Lanes * group
        /\ s = sel /\ k \in GetKinds => y[<<k, lane, s>>] = lane + Lanes * (group + 2)
  BY <1>2, BuffersAre DEF Of
<1>7. /\ underWay' \in [Buffers -> SUBSET Rows]
      /\ \A b \in Buffers :
           underWay'[b] = underWay[b] \cup IF b \in DOMAIN y THEN {y[b]} ELSE {}
  <2> HIDE DEF y
  <2>1. QED  BY <1>1, <1>2, <1>5, IssuedRows
<1> HIDE DEF y
<1>8. ASSUME NEW k \in Kinds, NEW lane \in All, NEW s \in {0, 1}
      PROVE  /\ s # sel => underWay'[<<k, lane, s>>] = underWay[<<k, lane, s>>]
             /\ k # "OUTPUT" /\ k \notin GetKinds => underWay'[<<k, lane, s>>] = underWay[<<k, lane, s>>]
  <2>1. <<k, lane, s>> \in Buffers
    BY BuffersAre
  <2>2. /\ s # sel => <<k, lane, s>> \notin DOMAIN y
        /\ k # "OUTPUT" /\ k \notin GetKinds => <<k, lane, s>> \notin DOMAIN y
    BY <1>6
  <2>3. <<k, lane, s>> \notin DOMAIN y => underWay'[<<k, lane, s>>] = underWay[<<k, lane, s>>]
    BY <1>7, <2>1
  <2>4. QED  BY <2>2, <2>3
<1>9. ASSUME NEW lane \in All  PROVE underWay'[<<"OUTPUT", lane, sel>>] = {Lanes * group + lane}
  <2>1. <<"OUTPUT", lane, sel>> \in Buffers /\ "OUTPUT" \in Kinds
    BY <1>2, BuffersAre
  <2>2. underWay'[<<"OUTPUT", lane, sel>>] = {} \cup {lane + Lanes * group}
    <3>1. <<"OUTPUT", lane, sel>> \in DOMAIN y /\ y[<<"OUTPUT", lane, sel>>] = lane + Lanes * group
      BY <1>2, <1>6, <2>1
    <3>2. underWay'[<<"OUTPUT", lane, sel>>]
            = underWay[<<"OUTPUT", lane, sel>>] \cup {y[<<"OUTPUT", lane, sel>>]}
      BY <1>7, <2>1, <3>1
    <3>3. QED  BY <1>3, <2>1, <3>1, <3>2
  <2>3. QED  BY <1>4, <2>2
<1>10. ASSUME NEW lane \in All, NEW k \in GetKinds
       PROVE  underWay'[<<k, lane, sel>>] = {Lanes * (group + 2) + lane}
  <2>1. <<k, lane, sel>> \in Buffers /\ k \in Kinds
    BY <1>2, BuffersAre
  <2>2. underWay'[<<k, lane, sel>>] = {} \cup {lane + Lanes * (group + 2)}
    <3>1. <<k, lane, sel>> \in DOMAIN y /\ y[<<k, lane, sel>>] = lane + Lanes * (group + 2)
      BY <1>2, <1>6, <2>1
    <3>2. underWay'[<<k, lane, sel>>] = underWay[<<k, lane, sel>>] \cup {y[<<k, lane, sel>>]}
      BY <1>7, <2>1, <3>1
    <3>3. QED  BY <1>3, <2>1, <3>1, <3>2
  <2>3. QED  BY <1>4, <2>2
<1>11. buffers' = [b \in Buffers |-> IF b[1] = "OUTPUT" /\ b[3] = sel
                                     THEN Drawn(b[2], Lanes * group + b[2]) ELSE buffers[b]]
  <2>1. buffers' = [b \in Buffers |-> IF b \in Of({"OUTPUT"}, All, sel)
                                      THEN Drawn(b[2], group * Lanes + b[2]) ELSE buffers[b]]
    BY DEF DrawGroup
  <2>2. \A b \in Buffers : b \in Of({"OUTPUT"}, All, sel) <=> b[1] = "OUTPUT" /\ b[3] = sel
    BY DEF Of, Buffers, All
  <2>3. \A b \in Buffers : group * Lanes + b[2] = Lanes * group + b[2]
    BY <1>4, BuffersAre
  <2>4. QED  BY <2>1, <2>2, <2>3
<1>12. ASSUME NEW k \in Kinds, NEW lane \in All, NEW s \in {0, 1}
       PROVE  /\ s # sel \/ k # "OUTPUT" => buffers'[<<k, lane, s>>] = buffers[<<k, lane, s>>]
              /\ s = sel /\ k = "OUTPUT" => buffers'[<<k, lane, s>>] = Drawn(lane, Lanes * group + lane)
  BY <1>11, BuffersAre
<1>13. \A lane \in All : buffers'[<<"OUTPUT", lane, sel>>] = Drawn(lane, Lanes * group + lane)
  <2>1. "OUTPUT" \in Kinds
    BY BuffersAre
  <2>2. QED  BY <1>2, <1>12, <2>1
<1>14. \A lane \in All :
         /\ \A k \in Kinds : underWay[<<k, lane, sel>>] = {}
         /\ underWay'[<<"OUTPUT", lane, sel>>] = {Lanes * group + lane}
         /\ buffers'[<<"OUTPUT", lane, sel>>] = Drawn(lane, Lanes * group + lane)
         /\ \A k \in GetKinds : underWay'[<<k, lane, sel>>] = {Lanes * (group + 2) + lane}
  BY <1>3, <1>9, <1>10, <1>13
<1>15. underWay' \in [Buffers -> SUBSET Rows]
  BY <1>7
<1>16. \A k \in Kinds, lane \in All, s \in {0, 1} :
         /\ s # sel => underWay'[<<k, lane, s>>] = underWay[<<k, lane, s>>]
         /\ k # "OUTPUT" /\ k \notin GetKinds => underWay'[<<k, lane, s>>] = underWay[<<k, lane, s>>]
         /\ s # sel \/ k # "OUTPUT" => buffers'[<<k, lane, s>>] = buffers[<<k, lane, s>>]
  BY <1>8, <1>12
<1>17. QED  BY <1>1, <1>11, <1>14, <1>15, <1>16

LEMMA Remainder ==
  ASSUME RectTypes, RectCounts, DrawRest
  PROVE  LET lane == group - Groups  y == Lanes * Groups + lane  b == <<"OUTPUT", lane, sel>> IN
         /\ UNCHANGED <<host, runs, answers, args, expected, thread, inbox, outbox, data, stopped,
                        spu, screen, atRisk, sel>>
         /\ spu = "draw" /\ group >= Groups /\ lane < data.height % Lanes /\ group' = group + 1
         /\ lane \in All /\ y \in Rows /\ y < data.height
         /\ \A k \in Kinds : underWay[<<k, lane, sel>>] = {}
         /\ underWay' \in [Buffers -> SUBSET Rows]
         /\ underWay'[b] = {y} /\ \A d \in Buffers \ {b} : underWay'[d] = underWay[d]
         /\ buffers' = [buffers EXCEPT ![b] = Drawn(lane, y)]
<1> DEFINE lane == group - Groups
           y == Lanes * Groups + lane
           b == <<"OUTPUT", lane, sel>>
           is == [d \in {b} |-> y]
<1>1. /\ UNCHANGED <<host, runs, answers, args, expected, thread, inbox, outbox, data, stopped,
                     spu, screen, atRisk, sel>>
      /\ spu = "draw" /\ group >= Groups /\ lane < data.height % Lanes /\ group' = group + 1
      /\ Waited(Of(Kinds, {lane}, sel))
      /\ buffers' = [buffers EXCEPT ![b] = Drawn(lane, Groups * Lanes + lane)]
      /\ Issued([d \in {b} |-> Groups * Lanes + lane])
  BY DEF DrawRest, hostVars, Groups
<1>2. lane \in All /\ y \in Rows /\ y < data.height /\ Groups * Lanes + lane = y
  BY <1>1, RestRow
<1>3. underWay \in [Buffers -> SUBSET Rows] /\ sel \in {0, 1}
  BY DEF RectTypes, RectCounts
<1>4. Issued(is) /\ buffers' = [buffers EXCEPT ![b] = Drawn(lane, y)]
  BY <1>1, <1>2
<1>5. \A k \in Kinds : underWay[<<k, lane, sel>>] = {}
  BY <1>1 DEF Waited, Of
<1>6. DOMAIN is = {b} /\ is[b] = y /\ \A d \in DOMAIN is : is[d] \in Rows
  BY <1>2
<1>7. b \in Buffers /\ underWay[b] = {}
  BY <1>2, <1>3, <1>5, BuffersAre
<1> HIDE DEF lane, y, b, is
<1>8. /\ underWay' \in [Buffers -> SUBSET Rows]
      /\ \A d \in Buffers :
           underWay'[d] = underWay[d] \cup IF d \in DOMAIN is THEN {is[d]} ELSE {}
  BY <1>3, <1>4, <1>6, IssuedRows
<1>9. underWay'[b] = {y}
  BY <1>2, <1>6, <1>7, <1>8
<1>10. \A d \in Buffers \ {b} : underWay'[d] = underWay[d]
  BY <1>6, <1>8
<1>11. QED  BY <1>1, <1>2, <1>4, <1>5, <1>8, <1>9, <1>10 DEF lane, y, b

-----------------------------------------------------------------------------
(* The rows over a step.                                                   *)

LEMMA NoneOut ==
  ASSUME RectRows, spu # "draw"
  PROVE  \A lane \in All, s \in {0, 1} : underWay[<<"OUTPUT", lane, s>>] = {}
BY DEF RectRows, RowOut

LEMMA GroupDrawn ==
  ASSUME RectCounts, RectTypes, RectRows, RectFetched, DrawGroup, NEW lane \in All
  PROVE  /\ Lanes * group + lane \in Rows /\ Lanes * group + lane < data.height
         /\ Made(Lanes * group + lane, Drawn(lane, Lanes * group + lane))
<1> DEFINE y == Lanes * group + lane
<1>1. /\ y \in Rows /\ y < data.height /\ lane \in Nat /\ Lanes * group \in Nat
      /\ Whole = group /\ DrawnRows = Lanes * group /\ spu = "draw"
      /\ \A k \in Kinds : underWay[<<k, lane, sel>>] = {}
  BY GroupRows, Groupwise, RectGroups, Times
<1>2. y = NextRow(lane, sel)
  BY <1>1 DEF NextRow
<1>3. y >= DrawnRows
  BY <1>1
<1>4. \A k \in GetKinds : underWay[<<k, lane, sel>>] = {}
  BY <1>1, BuffersAre
<1> HIDE DEF y
<1>5. Made(y, Drawn(lane, y))
  BY <1>1, <1>2, <1>3, <1>4, DrawnAsWanted
<1>6. QED  BY <1>1, <1>5 DEF y

LEMMA RestDrawn ==
  ASSUME RectCounts, RectTypes, RectRows, RectFetched, DrawRest
  PROVE  LET lane == group - Groups  y == Lanes * Groups + lane IN
           y = DrawnRows /\ Made(y, Drawn(lane, y))
<1> DEFINE lane == group - Groups
           y == Lanes * Groups + lane
<1>1. /\ y \in Rows /\ y < data.height /\ lane \in All
      /\ spu = "draw" /\ \A k \in Kinds : underWay[<<k, lane, sel>>] = {}
      /\ group >= Groups /\ lane < data.height % Lanes
  BY Remainder
<1>2. Whole = Groups /\ DrawnRows = y
  BY <1>1, RestRow
<1>3. y = NextRow(lane, sel)
  BY <1>2 DEF NextRow
<1>4. \A k \in GetKinds : underWay[<<k, lane, sel>>] = {}
  BY <1>1, BuffersAre
<1>5. y >= DrawnRows
  BY <1>2, DrawnType
<1> HIDE DEF y, lane
<1>6. Made(y, Drawn(lane, y))
  BY <1>1, <1>3, <1>4, <1>5, DrawnAsWanted
<1>7. QED  BY <1>2, <1>6 DEF y, lane

LEMMA StepRectTypes ==
  ASSUME RectCalls, RectCounts, RectTypes, RectRows, RectFetched, [RectNext]_rectVars
  PROVE  RectTypes'
<1> DEFINE Places3 == Held \cup [row: Rows, was: Held \cup {Spoilt}] \cup {Spoilt}
<1>0. /\ runs \in Nat
      /\ expected \in [Rows -> Held] /\ screen \in [Rows -> Held \cup {Spoilt}]
      /\ buffers \in [Buffers -> Places3] /\ underWay \in [Buffers -> SUBSET Rows]
  BY Tallest DEF RectTypes, RectCounts
<1>1. CASE UNCHANGED <<buffers, underWay, screen, atRisk, expected, runs>>
  BY <1>1 DEF RectTypes
<1>2. CASE SendRun
  <2>1. /\ runs' = runs + 1 /\ args.no = runs + 1 /\ UNCHANGED <<buffers, underWay, screen, atRisk>>
        /\ expected' = [y \in Rows |-> IF y < args.height
                                       THEN [times |-> expected[y].times + 1, by |-> args.no]
                                       ELSE expected[y]]
    BY <1>2, RectWhere DEF SendRun, RectTurns, dmaVars
  <2>2. ASSUME NEW y \in Rows
        PROVE  /\ expected'[y] \in Held /\ expected'[y].times <= runs' /\ expected'[y].by <= runs'
               /\ IF screen'[y] = Spoilt THEN y \in atRisk'
                  ELSE screen'[y].times <= runs' + 1 /\ screen'[y].by <= runs'
    <3>1. /\ expected[y] \in Held /\ expected[y].times <= runs /\ expected[y].by <= runs
          /\ screen[y] \in Held \cup {Spoilt}
          /\ IF screen[y] = Spoilt THEN y \in atRisk
             ELSE screen[y] \in Held /\ screen[y].times <= runs + 1 /\ screen[y].by <= runs
      BY <1>0 DEF RectTypes
    <3>2. QED  BY <1>0, <2>1, <3>1 DEF Held
  <2>3. expected' \in [Rows -> Held]
    BY <2>1, <2>2
  <2>4. QED  BY <1>0, <2>1, <2>2, <2>3 DEF RectTypes
<1>3. CASE FetchFirst
  BY <1>3, Fetches DEF RectTypes
<1>4. CASE DrawGroup
  <2>1. /\ underWay' \in [Buffers -> SUBSET Rows] /\ UNCHANGED <<screen, atRisk, expected, runs>>
        /\ buffers' = [b \in Buffers |-> IF b[1] = "OUTPUT" /\ b[3] = sel
                                         THEN Drawn(b[2], Lanes * group + b[2]) ELSE buffers[b]]
    BY <1>4, Groupwise
  <2>2. \A lane \in All : Drawn(lane, Lanes * group + lane) \in Places3
    BY <1>4, GroupDrawn, GoalType DEF Made
  <2> HIDE DEF Places3
  <2>3. buffers' \in [Buffers -> Places3]
    BY <1>0, <2>1, <2>2, BuffersAre
  <2>4. QED  BY <2>1, <2>3 DEF RectTypes, Places3
<1>5. CASE DrawRest
  <2> DEFINE z == Lanes * Groups + (group - Groups)
             b == <<"OUTPUT", group - Groups, sel>>
  <2>1. /\ underWay' \in [Buffers -> SUBSET Rows] /\ UNCHANGED <<screen, atRisk, expected, runs>>
        /\ buffers' = [buffers EXCEPT ![b] = Drawn(group - Groups, z)]
        /\ z \in Rows
    BY <1>5, Remainder
  <2>2. Drawn(group - Groups, z) \in Places3
    BY <1>5, <2>1, RestDrawn, GoalType DEF Made
  <2> HIDE DEF Places3, z, b
  <2>3. buffers' \in [Buffers -> Places3]
    BY <1>0, <2>1, <2>2
  <2>4. QED  BY <2>1, <2>3 DEF RectTypes, Places3
<1>6. ASSUME NEW b \in Buffers, Arrive(b)  PROVE RectTypes'
  <2>1. PICK z \in Rows :
          /\ UNCHANGED <<runs, expected, atRisk>> /\ underWay' \in [Buffers -> SUBSET Rows]
          /\ z \in underWay[b]
          /\ b[1] = "OUTPUT" => buffers' = buffers /\ screen' = [screen EXCEPT ![z] = buffers[b]]
          /\ b[1] # "OUTPUT" => screen' = screen /\ buffers' = [buffers EXCEPT ![b] = AsFetched(b[1], z)]
    BY <1>6, Arrives
  <2>2. CASE b[1] = "OUTPUT"
    <3>1. b = <<"OUTPUT", b[2], b[3]>> /\ b[2] \in All /\ b[3] \in {0, 1}
      BY <2>2, BuffersAre
    <3>2. RowOut(b[2], b[3])
      BY <3>1 DEF RectRows
    <3>3. Made(z, buffers[b])
      BY <2>1, <3>1, <3>2, OneRow DEF RowOut
    <3>4. \/ buffers[b] = Spoilt /\ z \in atRisk
          \/ /\ buffers[b] \in Held /\ buffers[b] # Spoilt
             /\ buffers[b].times <= runs + 1 /\ buffers[b].by <= runs
      BY <3>3, GoalType DEF Made
    <3>5. screen' \in [Rows -> Held \cup {Spoilt}]
      BY <1>0, <2>1, <2>2, <3>4
    <3>6. \A y \in Rows : IF screen'[y] = Spoilt THEN y \in atRisk
                         ELSE screen'[y].times <= runs + 1 /\ screen'[y].by <= runs
      BY <1>0, <2>1, <2>2, <3>4 DEF RectTypes
    <3>7. QED  BY <2>1, <2>2, <3>5, <3>6 DEF RectTypes
  <2>3. CASE b[1] # "OUTPUT"
    <3>1. AsFetched(b[1], z) \in Places3
      BY FetchedIs
    <3>2. buffers' \in [Buffers -> Places3]
      BY <1>0, <2>1, <2>3, <3>1
    <3>3. QED  BY <2>1, <2>3, <3>2 DEF RectTypes
  <2>4. QED  BY <2>2, <2>3
<1>7. CASE Take \/ Finish
  BY <1>1, <1>7 DEF Take, Finish, hostVars, dmaVars
<1>8. CASE /\ ~SendRun /\ ~Take /\ ~FetchFirst /\ ~DrawGroup /\ ~DrawRest /\ ~Finish
           /\ \A b \in Buffers : ~Arrive(b)
  BY <1>1, <1>8, RectCalm
<1>9. QED  BY <1>2, <1>3, <1>4, <1>5, <1>6, <1>7, <1>8

LEMMA SameGoal ==
  ASSUME UNCHANGED <<stopped, data, expected>>
  PROVE  \A y \in Rows : Goal(y)' = Goal(y)
BY DEF Goal

LEMMA StepRectRest ==
  ASSUME RectCalls, RectCounts, RectTypes, RectRest, RectRows, [RectNext]_rectVars
  PROVE  RectRest'
<1>0. /\ runs \in Nat
      /\ RectPending => spu = "wait" /\ ~stopped /\ args.no = runs
      /\ data.height \in Nat /\ \A y \in Rows : y \in Int
  <2>1. \A y \in Rows : y \in Int
    BY Tallest
  <2>2. QED  BY <2>1, RectWhere, RectGroups
<1>1. CASE SendRun
  <2>1. /\ runs' = runs + 1 /\ UNCHANGED <<screen, args, data, stopped, spu>>
        /\ expected' = [y \in Rows |-> IF y < args.height
                                       THEN [times |-> expected[y].times + 1, by |-> args.no]
                                       ELSE expected[y]]
        /\ host = "send" /\ inbox' = Append(inbox, "RUN")
    BY <1>1 DEF SendRun, spuVars, dmaVars
  <2>2. ~stopped /\ RectQuiet
    BY <2>1, RectWhere DEF RectTurns
  <2>3. RectPending' /\ ~RectPending /\ spu = "wait"
    BY <2>1, <2>2, Mailed DEF RectQuiet, RectPending
  <2>4. \A y \in Rows : Shows(y, expected[y])
    BY <2>2, <2>3 DEF RectRest, Goal
  <2>5. ASSUME NEW y \in Rows
        PROVE  IF y < args.height THEN Undone(y, args.no)' /\ expected'[y].by = args.no
               ELSE Shows(y, expected[y])'
    BY <2>1, <2>2, <2>4 DEF Undone, Goal, Shows
  <2>6. QED  BY <2>1, <2>3, <2>5 DEF RectRest
<1>2. CASE Take
  <2>1. /\ UNCHANGED <<args, expected, screen, runs>> /\ spu = "wait" /\ spu' = "fetch"
        /\ inbox # <<>> /\ inbox' = Tail(inbox)
        /\ Head(inbox) = "RUN" => data' = args /\ stopped' = stopped
        /\ Head(inbox) # "RUN" => data' = data /\ stopped' = TRUE
    BY <1>2 DEF Take, hostVars, dmaVars
  <2>2. CASE RectPending
    <3>1. data' = args /\ ~stopped' /\ ~RectPending'
      <4>1. Head(inbox) = "RUN" /\ inbox' \in {<<>>, <<"STOP">>}
        BY <2>1, <2>2, Mailed DEF RectPending
      <4>2. ~RectPending'
        BY <4>1, Mailed DEF RectPending
      <4>3. data' = args /\ stopped' = stopped /\ ~stopped
        BY <1>0, <2>1, <2>2, <4>1
      <4>4. QED  BY <4>2, <4>3, Zenon
    <3>2. ASSUME NEW y \in Rows
          PROVE  /\ StillToDo(y)'
                 /\ y < data'.height => expected'[y].by = data'.no
      <4>1. Goal(y)' = expected[y] /\ Goal(y) = expected[y]
        BY <1>0, <2>1, <2>2, <3>1 DEF Goal
      <4>2. IF y < args.height THEN Undone(y, args.no) /\ expected[y].by = args.no
            ELSE Shows(y, expected[y])
        BY <2>2 DEF RectRest
      <4>3. QED  BY <2>1, <3>1, <4>1, <4>2 DEF StillToDo, Undone, Shows
    <3>3. QED  BY <2>1, <3>1, <3>2 DEF RectRest
  <2>3. CASE ~RectPending
    <3>1. data' = data /\ stopped' /\ ~stopped /\ ~RectPending'
      <4>1. inbox = <<"STOP">>
        BY <2>1, <2>3, RectWhere DEF RectPending
      <4>2. RectLeaving
        BY <4>1, Mailed DEF RectCalls, RectTurns, RectWorking, RectAnswered, RectQuiet, RectSent
      <4>3. QED  BY <2>1, <4>1, <4>2, Mailed DEF RectPending, RectLeaving
    <3>2. ASSUME NEW y \in Rows
          PROVE  /\ StillToDo(y)'
                 /\ y < data'.height => expected'[y].by = data'.no
      <4>1. Shows(y, expected[y])
        BY <2>1, <2>3, <3>1 DEF RectRest, Goal
      <4>2. y < data.height => expected[y].by = data.no
        BY <2>3 DEF RectRest
      <4>3. QED  BY <2>1, <3>1, <4>1, <4>2 DEF StillToDo, Undone, Goal, Shows
    <3>3. QED  BY <2>1, <3>1, <3>2 DEF RectRest
  <2>4. QED  BY <2>2, <2>3
<1>3. CASE FetchFirst \/ DrawGroup \/ DrawRest
  <2>1. UNCHANGED <<inbox, expected, data>> /\ spu' = "draw" /\ spu # "wait"
    BY <1>3 DEF FetchFirst, DrawGroup, DrawRest, hostVars
  <2>2. ~RectPending /\ ~RectPending'
    BY <1>0, <2>1 DEF RectPending
  <2>3. QED  BY <2>1, <2>2 DEF RectRest
<1>4. CASE Finish
  <2>1. /\ UNCHANGED <<inbox, expected, data, stopped, screen>> /\ spu = "draw"
        /\ spu' \in {"exit", "post"}
        /\ group = Groups + (data.height % Lanes)
        /\ \A lane \in All, s \in {0, 1} : underWay[<<"OUTPUT", lane, s>>] = {}
    BY <1>4 DEF Finish, hostVars, dmaVars, Groups, Waited
  <2>2. ~RectPending /\ ~RectPending'
    BY <1>0, <2>1 DEF RectPending
  <2>3. DrawnRows = data.height
    <3>1. /\ Groups \in Nat /\ data.height % Lanes \in Nat
          /\ data.height = Lanes * Groups + (data.height % Lanes) /\ Lanes * Groups \in Nat
      BY RectGroups, Times
    <3>2. Whole = Groups
      BY <2>1, <3>1 DEF Whole
    <3>3. QED  BY <2>1, <3>1, <3>2 DEF DrawnRows
  <2>4. ASSUME NEW y \in Rows  PROVE Shows(y, Goal(y))
    <3>1. CASE y < DrawnRows
      <4>1. RowShown(y)
        BY <2>1, <3>1 DEF RectRows
      <4>2. QED  BY <2>1, <4>1, OneRow DEF RowShown
    <3>2. CASE ~(y < DrawnRows)
      <4>1. StillToDo(y)
        BY <2>1, <3>2 DEF RectRows
      <4>2. QED  BY <2>3, <3>2, <4>1 DEF StillToDo
    <3>3. QED  BY <3>1, <3>2
  <2>5. \A y \in Rows : Shows(y, Goal(y))'
    BY <2>1, <2>4, SameGoal DEF Shows
  <2>6. QED  BY <2>1, <2>2, <2>5 DEF RectRest
<1>5. ASSUME NEW b \in Buffers, Arrive(b)  PROVE RectRest'
  <2>1. UNCHANGED <<runs, args, expected, inbox, spu, data, stopped>> /\ underWay[b] # {}
    BY <1>5, Arrives
  <2>2. CASE b[1] = "OUTPUT"
    <3>1. spu = "draw"
      <4>1. b = <<"OUTPUT", b[2], b[3]>> /\ b[2] \in All /\ b[3] \in {0, 1}
        BY <2>2, BuffersAre
      <4>2. QED  BY <2>1, <4>1, NoneOut
    <3>2. ~RectPending /\ ~RectPending'
      BY <1>0, <2>1, <3>1 DEF RectPending
    <3>3. QED  BY <2>1, <3>1, <3>2 DEF RectRest
  <2>3. CASE b[1] # "OUTPUT"
    <3>1. screen' = screen
      BY <1>5, <2>3, Arrives
    <3>2. QED  BY <2>1, <3>1, SameGoal DEF RectRest, Undone, StillToDo, RectPending, Shows
  <2>4. QED  BY <2>2, <2>3
<1>6. CASE /\ ~SendRun /\ ~Take /\ ~FetchFirst /\ ~DrawGroup /\ ~DrawRest /\ ~Finish
           /\ \A b \in Buffers : ~Arrive(b)
  <2>1. /\ UNCHANGED <<screen, expected, data, stopped>>
        /\ RectPending' <=> RectPending
        /\ RectPending => args' = args
        /\ spu' = spu \/ (spu' \notin {"fetch", "draw"} /\ spu \notin {"fetch", "draw"})
    BY <1>6, RectCalm
  <2>2. \A y \in Rows : Goal(y)' = Goal(y) /\ StillToDo(y)' = StillToDo(y)
    BY <2>1, SameGoal DEF StillToDo, Undone, Shows
  <2>3. spu' \notin {"fetch", "draw"} /\ ~RectPending' => \A y \in Rows : Shows(y, Goal(y))'
    BY <2>1, <2>2 DEF RectRest, Shows
  <2>4. RectPending' => \A y \in Rows :
          IF y < args'.height THEN Undone(y, args.no)' /\ expected'[y].by = args'.no
          ELSE Shows(y, expected[y])'
    BY <2>1, <2>2 DEF RectRest, Undone, Shows
  <2>5. spu' = "fetch" => \A y \in Rows : StillToDo(y)'
    BY <2>1, <2>2 DEF RectRest
  <2>6. ~RectPending' => \A y \in Rows : y < data'.height => expected'[y].by = data'.no
    BY <2>1 DEF RectRest
  <2>7. QED  BY <2>3, <2>4, <2>5, <2>6 DEF RectRest
<1>7. QED  BY <1>1, <1>2, <1>3, <1>4, <1>5, <1>6

LEMMA StepRectRows ==
  ASSUME RectCalls, RectCounts, RectTypes, RectRows, RectFetched, RectRest, [RectNext]_rectVars
  PROVE  RectRows'
<1>0. /\ sel \in {0, 1} /\ DrawnRows \in Nat
      /\ \A y \in Rows : y \in Nat
  <2>1. \A y \in Rows : y \in Nat
    BY Tallest
  <2>2. sel \in {0, 1}
    BY DEF RectCounts
  <2>3. QED  BY <2>1, <2>2, DrawnType
<1>1. CASE SendRun \/ Take
  <2>1. underWay' = underWay /\ spu # "draw" /\ spu' # "draw"
    <3>1. CASE SendRun
      BY <3>1, RectWhere DEF SendRun, RectTurns, RectQuiet, dmaVars, spuVars
    <3>2. CASE Take
      BY <3>2 DEF Take, dmaVars
    <3>3. QED  BY <1>1, <3>1, <3>2
  <2>2. QED  BY <2>1, NoneOut DEF RectRows, RowOut
<1>2. CASE FetchFirst
  <2>1. /\ spu = "fetch" /\ spu' = "draw" /\ group' = 0 /\ UNCHANGED <<screen, expected, data, stopped>>
        /\ \A lane \in All, s \in {0, 1} : underWay'[<<"OUTPUT", lane, s>>] = underWay[<<"OUTPUT", lane, s>>]
    BY <1>2, Fetches, BuffersAre
  <2>2. \A lane \in All, s \in {0, 1} : RowOut(lane, s)'
    BY <2>1, NoneOut DEF RowOut
  <2>3. /\ Groups \in Nat /\ data.height % Lanes \in Nat /\ Groups' = Groups /\ Lanes \in Nat
        /\ (data.height % Lanes)' = data.height % Lanes
    BY <2>1, RectGroups DEF Groups
  <2>4. Whole' = 0
    BY <2>1, <2>3 DEF Whole
  <2>5. DrawnRows' = 0
    BY <2>1, <2>3, <2>4 DEF DrawnRows
  <2>6. \A y \in Rows : StillToDo(y)'
    BY <2>1, SameGoal DEF RectRest, StillToDo, Undone, Shows
  <2>7. QED  BY <1>0, <2>1, <2>2, <2>3, <2>5, <2>6 DEF RectRows
<1>3. CASE DrawGroup
  <2>1. /\ UNCHANGED <<expected, data, stopped, spu, screen, atRisk>> /\ spu = "draw"
        /\ group < Groups /\ group' = group + 1
        /\ group \in Nat /\ Groups \in Nat /\ data.height % Lanes \in Nat /\ Lanes \in Nat /\ Lanes > 0
    BY <1>3, Groupwise, RectGroups
  <2>2. Groups' = Groups /\ (data.height % Lanes)' = data.height % Lanes
    BY <2>1 DEF Groups
  <2>3. DrawnRows = Lanes * group /\ DrawnRows' = DrawnRows + Lanes
    <3>1. Whole = group /\ Whole' = group + 1
      BY <2>1, <2>2 DEF Whole
    <3>2. Lanes * (group + 1) = Lanes * group + Lanes /\ Lanes * group \in Nat
      BY <2>1, Times
    <3>3. QED  BY <2>1, <3>1, <3>2 DEF DrawnRows
  <2>4. \A lane \in All : /\ underWay[<<"OUTPUT", lane, sel>>] = {}
                          /\ underWay'[<<"OUTPUT", lane, sel>>] = {Lanes * group + lane}
                          /\ buffers'[<<"OUTPUT", lane, sel>>] = Drawn(lane, Lanes * group + lane)
                          /\ Lanes * group + lane \in Rows
                          /\ Made(Lanes * group + lane, Drawn(lane, Lanes * group + lane))
                          /\ lane \in Nat /\ lane < Lanes
    BY <1>3, <2>1, Groupwise, GroupDrawn, GroupRows, BuffersAre
  <2>5. \A lane \in All, s \in {0, 1} : s # sel =>
          /\ underWay'[<<"OUTPUT", lane, s>>] = underWay[<<"OUTPUT", lane, s>>]
          /\ buffers'[<<"OUTPUT", lane, s>>] = buffers[<<"OUTPUT", lane, s>>]
    BY <1>3, Groupwise, BuffersAre
  <2>6. \A y \in Rows : Goal(y)' = Goal(y) /\ StillToDo(y)' = StillToDo(y)
    BY <2>1, SameGoal DEF StillToDo, Undone, Shows
  <2>7. ASSUME NEW lane \in All, NEW s \in {0, 1}  PROVE RowOut(lane, s)'
    <3>1. CASE s = sel
      <4>0. PICK z \in Rows : z = Lanes * group + lane
        BY <2>4
      <4>1. /\ underWay'[<<"OUTPUT", lane, s>>] = {z} /\ z < DrawnRows'
            /\ Made(z, buffers[<<"OUTPUT", lane, s>>])'
        BY <1>0, <2>1, <2>3, <2>4, <2>6, <3>1, <4>0 DEF Made
      <4>2. QED  BY <2>1, <4>1 DEF RowOut
    <3>2. CASE s # sel
      <4>1. RowOut(lane, s)
        BY DEF RectRows
      <4>2. CASE underWay[<<"OUTPUT", lane, s>>] = {}
        BY <2>5, <3>2, <4>2 DEF RowOut
      <4>3. CASE underWay[<<"OUTPUT", lane, s>>] # {}
        <5>1. PICK y \in Rows : /\ underWay[<<"OUTPUT", lane, s>>] = {y} /\ y < DrawnRows
                                /\ Made(y, buffers[<<"OUTPUT", lane, s>>])
          BY <4>1, <4>3 DEF RowOut
        <5>2. y < DrawnRows'
          BY <1>0, <2>1, <2>3, <5>1
        <5>3. underWay'[<<"OUTPUT", lane, s>>] = {y} /\ Made(y, buffers[<<"OUTPUT", lane, s>>])'
          BY <2>1, <2>5, <2>6, <3>2, <5>1 DEF Made
        <5>4. QED  BY <2>1, <5>2, <5>3 DEF RowOut
      <4>4. QED  BY <4>2, <4>3
    <3>3. QED  BY <3>1, <3>2
  <2>8. ASSUME NEW y \in Rows  PROVE IF y < DrawnRows' THEN RowShown(y)' ELSE StillToDo(y)'
    <3>1. CASE y < DrawnRows
      <4>1. RowShown(y) /\ y < DrawnRows'
        BY <1>0, <2>1, <2>3, <3>1 DEF RectRows
      <4>2. CASE Shows(y, Goal(y))
        BY <2>1, <2>6, <4>1, <4>2 DEF RowShown, Shows
      <4>3. ASSUME NEW lane \in All, NEW s \in {0, 1}, underWay[<<"OUTPUT", lane, s>>] = {y}
            PROVE  RowShown(y)'
        <5>1. s # sel
          BY <2>4, <4>3, OneRow
        <5>2. underWay'[<<"OUTPUT", lane, s>>] = {y}
          BY <2>5, <4>3, <5>1
        <5>3. QED  BY <5>2 DEF RowShown
      <4>4. QED  BY <4>1, <4>2, <4>3 DEF RowShown
    <3>2. CASE ~(y < DrawnRows) /\ y < DrawnRows'
      <4> DEFINE lane == y - Lanes * group
      <4>1. lane \in All /\ y = Lanes * group + lane
        BY <1>0, <2>1, <2>3, <3>2 DEF All
      <4> HIDE DEF lane
      <4>2. underWay'[<<"OUTPUT", lane, sel>>] = {y}
        BY <2>4, <4>1
      <4>3. RowShown(y)'
        BY <1>0, <4>1, <4>2 DEF RowShown
      <4>4. QED  BY <3>2, <4>3
    <3>3. CASE ~(y < DrawnRows')
      <4>1. ~(y < DrawnRows)
        BY <1>0, <2>1, <2>3, <3>3
      <4>2. StillToDo(y)
        BY <2>1, <4>1 DEF RectRows
      <4>3. QED  BY <2>6, <3>3, <4>2
    <3>4. QED  BY <3>1, <3>2, <3>3
  <2>9. group' <= Groups' + (data.height % Lanes)'
    BY <2>1, <2>2
  <2>10. QED  BY <2>1, <2>7, <2>8, <2>9 DEF RectRows
<1>4. CASE DrawRest
  <2>0. PICK z \in Rows, b \in Buffers : /\ z = Lanes * Groups + (group - Groups)
                                         /\ b = <<"OUTPUT", group - Groups, sel>>
    BY <1>0, <1>4, Remainder, BuffersAre
  <2>1. /\ UNCHANGED <<expected, data, stopped, spu, screen, atRisk, sel>> /\ spu = "draw"
        /\ group >= Groups /\ group - Groups < data.height % Lanes /\ group' = group + 1
        /\ group - Groups \in All
        /\ underWay[b] = {} /\ underWay'[b] = {z} /\ \A d \in Buffers \ {b} : underWay'[d] = underWay[d]
        /\ buffers' = [buffers EXCEPT ![b] = Drawn(group - Groups, z)]
    BY <1>4, <2>0, Remainder, BuffersAre
  <2>2. z = DrawnRows /\ Made(z, Drawn(group - Groups, z))
    BY <1>4, <2>0, RestDrawn
  <2>3. /\ Groups' = Groups /\ (data.height % Lanes)' = data.height % Lanes
        /\ group \in Nat /\ Groups \in Nat /\ data.height % Lanes \in Nat /\ Lanes \in Nat
        /\ Lanes * Groups \in Nat
    <3>1. Groups' = Groups /\ (data.height % Lanes)' = data.height % Lanes
      BY <2>1 DEF Groups
    <3>2. /\ group \in Nat /\ Groups \in Nat /\ data.height % Lanes \in Nat /\ Lanes \in Nat
      BY RectGroups
    <3>3. Lanes * Groups \in Nat
      BY <3>2, Times
    <3>4. QED  BY <3>1, <3>2, <3>3
  <2>4. DrawnRows' = DrawnRows + 1 /\ group' <= Groups' + (data.height % Lanes)'
    <3>1. Whole = Groups /\ Whole' = Groups
      BY <2>1, <2>3 DEF Whole
    <3>2. QED  BY <2>0, <2>1, <2>2, <2>3, <3>1 DEF DrawnRows
  <2>5. Made(z, buffers'[b]) /\ \A d \in Buffers \ {b} : buffers'[d] = buffers[d]
    BY <1>0, <2>1, <2>2, BuffersAre DEF RectTypes
  <2>6. \A y \in Rows : Goal(y)' = Goal(y) /\ StillToDo(y)' = StillToDo(y)
    BY <2>1, SameGoal DEF StillToDo, Undone, Shows
  <2>7. ASSUME NEW lane \in All, NEW s \in {0, 1}  PROVE RowOut(lane, s)'
    <3>1. CASE <<"OUTPUT", lane, s>> = b
      <4>1. /\ underWay'[<<"OUTPUT", lane, s>>] = {z} /\ z < DrawnRows'
            /\ Made(z, buffers[<<"OUTPUT", lane, s>>])'
        BY <1>0, <2>1, <2>2, <2>4, <2>5, <2>6, <3>1 DEF Made
      <4>2. QED  BY <2>1, <4>1 DEF RowOut
    <3>2. CASE <<"OUTPUT", lane, s>> # b
      <4>1. RowOut(lane, s)
        BY DEF RectRows
      <4>2. <<"OUTPUT", lane, s>> \in Buffers \ {b}
        BY <3>2, BuffersAre
      <4>3. CASE underWay[<<"OUTPUT", lane, s>>] = {}
        BY <2>1, <4>2, <4>3 DEF RowOut
      <4>4. CASE underWay[<<"OUTPUT", lane, s>>] # {}
        <5>1. PICK y \in Rows : /\ underWay[<<"OUTPUT", lane, s>>] = {y} /\ y < DrawnRows
                                /\ Made(y, buffers[<<"OUTPUT", lane, s>>])
          BY <4>1, <4>4 DEF RowOut
        <5>2. y < DrawnRows'
          BY <1>0, <2>4, <5>1
        <5>3. underWay'[<<"OUTPUT", lane, s>>] = {y} /\ Made(y, buffers[<<"OUTPUT", lane, s>>])'
          BY <2>1, <2>5, <2>6, <4>2, <5>1 DEF Made
        <5>4. QED  BY <2>1, <5>2, <5>3 DEF RowOut
      <4>5. QED  BY <4>3, <4>4
    <3>3. QED  BY <3>1, <3>2
  <2>8. ASSUME NEW y \in Rows  PROVE IF y < DrawnRows' THEN RowShown(y)' ELSE StillToDo(y)'
    <3>1. CASE y < DrawnRows
      <4>1. RowShown(y) /\ y < DrawnRows'
        BY <1>0, <2>1, <2>4, <3>1 DEF RectRows
      <4>2. CASE Shows(y, Goal(y))
        BY <2>1, <2>6, <4>1, <4>2 DEF RowShown, Shows
      <4>3. ASSUME NEW lane \in All, NEW s \in {0, 1}, underWay[<<"OUTPUT", lane, s>>] = {y}
            PROVE  RowShown(y)'
        <5>1. <<"OUTPUT", lane, s>> # b
          BY <2>1, <4>3, OneRow
        <5>2. underWay'[<<"OUTPUT", lane, s>>] = {y}
          BY <2>1, <4>3, <5>1, BuffersAre
        <5>3. QED  BY <5>2 DEF RowShown
      <4>4. QED  BY <4>1, <4>2, <4>3 DEF RowShown
    <3>2. CASE y = DrawnRows
      <4>1. underWay'[<<"OUTPUT", group - Groups, sel>>] = {y} /\ y < DrawnRows'
        BY <1>0, <2>0, <2>1, <2>2, <2>4, <3>2
      <4>2. RowShown(y)'
        BY <1>0, <2>1, <4>1 DEF RowShown
      <4>3. QED  BY <4>1, <4>2
    <3>3. CASE y > DrawnRows
      <4>1. ~(y < DrawnRows) /\ ~(y < DrawnRows')
        BY <1>0, <2>4, <3>3
      <4>2. StillToDo(y)
        BY <2>1, <4>1 DEF RectRows
      <4>3. QED  BY <2>6, <4>1, <4>2
    <3>4. QED  BY <1>0, <3>1, <3>2, <3>3
  <2>9. QED  BY <2>1, <2>4, <2>7, <2>8 DEF RectRows
<1>5. ASSUME NEW b \in Buffers, Arrive(b)  PROVE RectRows'
  <2>1. PICK z \in Rows :
          /\ UNCHANGED <<runs, args, expected, inbox, spu, data, stopped, group, sel, atRisk>>
          /\ z \in underWay[b] /\ underWay'[b] = underWay[b] \ {z}
          /\ \A d \in Buffers \ {b} : underWay'[d] = underWay[d]
          /\ b[1] = "OUTPUT" => buffers' = buffers /\ screen' = [screen EXCEPT ![z] = buffers[b]]
          /\ b[1] # "OUTPUT" => screen' = screen /\ \A d \in Buffers \ {b} : buffers'[d] = buffers[d]
    BY <1>5, Arrives
  <2>2. DrawnRows' = DrawnRows /\ Groups' = Groups
    BY <2>1 DEF DrawnRows, Whole, Groups
  <2>3. \A y \in Rows : Goal(y)' = Goal(y)
    BY <2>1, SameGoal
  <2>4. CASE b[1] = "OUTPUT"
    <3>1. b = <<"OUTPUT", b[2], b[3]>> /\ b[2] \in All /\ b[3] \in {0, 1}
      BY <2>4, BuffersAre
    <3>2. /\ spu = "draw" /\ underWay[b] = {z} /\ z < DrawnRows
          /\ Made(z, buffers[b])
      <4>1. RowOut(b[2], b[3])
        BY <3>1 DEF RectRows
      <4>2. QED  BY <2>1, <3>1, <4>1, OneRow DEF RowOut
    <3>3. underWay'[b] = {} /\ buffers' = buffers /\ screen' = [screen EXCEPT ![z] = buffers[b]]
      BY <2>1, <2>4, <3>2
    <3>4. ASSUME NEW lane \in All, NEW s \in {0, 1}  PROVE RowOut(lane, s)'
      <4>1. RowOut(lane, s)
        BY DEF RectRows
      <4>2. CASE <<"OUTPUT", lane, s>> = b
        BY <3>3, <4>2 DEF RowOut
      <4>3. CASE <<"OUTPUT", lane, s>> # b
        <5>1. underWay'[<<"OUTPUT", lane, s>>] = underWay[<<"OUTPUT", lane, s>>]
          BY <2>1, <4>3, BuffersAre
        <5>2. QED  BY <2>1, <2>2, <2>3, <3>3, <4>1, <5>1 DEF RowOut, Made
      <4>4. QED  BY <4>2, <4>3
    <3>5. ASSUME NEW y \in Rows  PROVE IF y < DrawnRows' THEN RowShown(y)' ELSE StillToDo(y)'
      <4>1. CASE y = z
        <5>1. Shows(y, Goal(y))' /\ y < DrawnRows'
          <6>1. screen'[y] = buffers[b]
            BY <3>3, <4>1 DEF RectTypes
          <6>2. QED  BY <2>2, <2>3, <3>2, <4>1, <6>1 DEF Made, Shows
        <5>2. QED  BY <5>1 DEF RowShown
      <4>2. CASE y # z
        <5>1. screen'[y] = screen[y]
          BY <3>3, <4>2 DEF RectTypes
        <5>2. IF y < DrawnRows THEN RowShown(y) ELSE StillToDo(y)
          BY <3>2 DEF RectRows
        <5>3. StillToDo(y)' = StillToDo(y)
          BY <2>1, <2>3, <5>1 DEF StillToDo, Undone, Shows
        <5>4. ASSUME RowShown(y)  PROVE RowShown(y)'
          <6>1. CASE Shows(y, Goal(y))
            BY <2>3, <5>1, <6>1 DEF RowShown, Shows
          <6>2. ASSUME NEW lane \in All, NEW s \in {0, 1}, underWay[<<"OUTPUT", lane, s>>] = {y}
                PROVE  RowShown(y)'
            <7>1. <<"OUTPUT", lane, s>> # b
              BY <3>2, <4>2, <6>2, OneRow
            <7>2. underWay'[<<"OUTPUT", lane, s>>] = {y}
              BY <2>1, <6>2, <7>1, BuffersAre
            <7>3. QED  BY <7>2 DEF RowShown
          <6>3. QED  BY <5>4, <6>1, <6>2 DEF RowShown
        <5>5. QED  BY <2>2, <5>2, <5>3, <5>4
      <4>3. QED  BY <4>1, <4>2
    <3>6. QED  BY <2>1, <2>2, <3>2, <3>4, <3>5 DEF RectRows
  <2>5. CASE b[1] # "OUTPUT"
    <3>1. screen' = screen /\ \A d \in Buffers \ {b} : buffers'[d] = buffers[d]
      BY <2>1, <2>5
    <3>2. \A lane \in All, s \in {0, 1} : LET d == <<"OUTPUT", lane, s>> IN
            underWay'[d] = underWay[d] /\ buffers'[d] = buffers[d]
      <4>1. \A lane \in All, s \in {0, 1} : <<"OUTPUT", lane, s>> \in Buffers \ {b}
        BY <2>5, BuffersAre
      <4>2. QED  BY <2>1, <3>1, <4>1
    <3>3. ASSUME NEW y \in Rows
          PROVE  StillToDo(y)' = StillToDo(y) /\ (RowShown(y) => RowShown(y)')
      <4>1. Goal(y)' = Goal(y) /\ screen'[y] = screen[y] /\ data' = data
        BY <2>1, <2>3, <3>1
      <4>2. StillToDo(y)' = StillToDo(y)
        BY <4>1 DEF StillToDo, Undone, Shows
      <4>3. Shows(y, Goal(y)) => Shows(y, Goal(y))'
        BY <4>1 DEF Shows
      <4>4. QED  BY <3>2, <4>2, <4>3 DEF RowShown
    <3>4. ASSUME NEW lane \in All, NEW s \in {0, 1}  PROVE RowOut(lane, s)'
      <4>1. RowOut(lane, s)
        BY DEF RectRows
      <4>2. \A y \in Rows : Made(y, buffers[<<"OUTPUT", lane, s>>])' = Made(y, buffers[<<"OUTPUT", lane, s>>])
        BY <2>1, <2>3, <3>2 DEF Made
      <4>3. QED  BY <2>1, <2>2, <3>2, <4>1, <4>2 DEF RowOut
    <3>5. QED  BY <2>1, <2>2, <3>3, <3>4 DEF RectRows
  <2>6. QED  BY <2>4, <2>5
<1>6. CASE Finish
  <2>1. /\ UNCHANGED underWay /\ spu' # "draw"
        /\ \A lane \in All, s \in {0, 1} : underWay[<<"OUTPUT", lane, s>>] = {}
    BY <1>6 DEF Finish, dmaVars, Waited
  <2>2. QED  BY <2>1 DEF RectRows, RowOut
<1>7. CASE /\ ~SendRun /\ ~Take /\ ~FetchFirst /\ ~DrawGroup /\ ~DrawRest /\ ~Finish
           /\ \A b \in Buffers : ~Arrive(b)
  <2>1. /\ UNCHANGED <<buffers, underWay, screen, atRisk, expected, data, stopped, group, sel>>
        /\ spu' = spu \/ (spu' # "draw" /\ spu # "draw")
    BY <1>7, RectCalm
  <2>2. DrawnRows' = DrawnRows /\ Groups' = Groups /\ \A y \in Rows : Goal(y)' = Goal(y)
    BY <2>1, SameGoal DEF DrawnRows, Whole, Groups
  <2>3. \A y \in Rows : StillToDo(y)' = StillToDo(y) /\ RowShown(y)' = RowShown(y)
    BY <2>1, <2>2 DEF StillToDo, Undone, RowShown, Shows
  <2>4. ASSUME NEW lane \in All, NEW s \in {0, 1}  PROVE RowOut(lane, s)'
    BY <2>1, <2>2 DEF RectRows, RowOut, Made
  <2>5. QED  BY <2>1, <2>2, <2>3, <2>4 DEF RectRows
<1>8. QED  BY <1>1, <1>2, <1>3, <1>4, <1>5, <1>6, <1>7

LEMMA NextRowType ==
  ASSUME RectCounts, NEW lane \in All, NEW s \in {0, 1}
  PROVE  NextRow(lane, s) \in Nat
<1>1. Whole \in Nat /\ lane \in Nat
  BY RectGroups DEF All
<1>2. Whole + 1 \in Nat
  BY <1>1
<1>3. Lanes * Whole \in Nat /\ Lanes * (Whole + 1) \in Nat
  BY <1>1, <1>2, Times
<1>4. QED  BY <1>1, <1>3 DEF NextRow

LEMMA StepRectFetched ==
  ASSUME RectCalls, RectCounts, RectTypes, RectRows, RectFetched, [RectNext]_rectVars
  PROVE  RectFetched'
<1>0. sel \in {0, 1} /\ RectCounts /\ Lanes \in Nat /\ Lanes > 0 /\ RectFetched
  BY Tallest DEF RectCounts
<1>1. CASE SendRun \/ Take \/ Finish
  <2>1. spu' # "draw"
    <3>1. CASE SendRun
      BY <3>1, RectWhere DEF SendRun, RectTurns, RectQuiet, spuVars
    <3>2. CASE Take \/ Finish
      BY <3>2 DEF Take, Finish
    <3>3. QED  BY <1>1, <3>1, <3>2
  <2>2. QED  BY <2>1 DEF RectFetched
<1>2. CASE FetchFirst
  <2>1. /\ group' = 0 /\ sel' = 0 /\ data' = data /\ underWay \in [Buffers -> SUBSET Rows]
        /\ \A k \in GetKinds, lane \in All, s \in {0, 1} :
              /\ Lanes * s + lane \in Rows
              /\ Lanes * s + lane \in underWay'[<<k, lane, s>>]
              /\ underWay'[<<k, lane, s>>] = {Lanes * s + lane} \/ Lanes * s + lane \in atRisk'
    BY <1>2, Fetches DEF RectTypes
  <2>2. Groups' = Groups /\ Groups \in Nat /\ GetKinds' = GetKinds
    BY <2>1, RectGroups DEF Groups, GetKinds
  <2>3. Whole' = 0
    BY <2>1, <2>2 DEF Whole
  <2>4. ASSUME NEW k \in GetKinds, NEW lane \in All, NEW s \in {0, 1}
        PROVE  RowComing(k, lane, s)'
    <3>1. NextRow(lane, s)' = Lanes * s + lane
      <4>1. CASE s = 0
        BY <2>1, <2>3, <4>1 DEF NextRow
      <4>2. CASE s = 1
        BY <2>1, <2>3, <4>2 DEF NextRow
      <4>3. QED  BY <4>1, <4>2
    <3>2. QED  BY <2>1, <3>1 DEF RowComing
  <2>5. QED  BY <2>2, <2>4 DEF RectFetched
<1>3. CASE DrawGroup
  <2>1. /\ UNCHANGED <<data, spu, screen, atRisk>> /\ spu = "draw"
        /\ group < Groups /\ group' = group + 1 /\ sel' = 1 - sel
        /\ group \in Nat /\ Groups \in Nat
    BY <1>3, Groupwise, RectGroups
  <2>2. Groups' = Groups /\ GetKinds' = GetKinds
    BY <2>1 DEF Groups, GetKinds
  <2>3. Whole = group /\ Whole' = group + 1 /\ DrawnRows = Lanes * group
    <3>1. Whole = group /\ Whole' = group + 1
      BY <2>1, <2>2 DEF Whole
    <3>2. Lanes * group \in Nat
      BY <2>1, Times
    <3>3. QED  BY <2>1, <3>1, <3>2 DEF DrawnRows
  <2>4. ASSUME NEW k \in GetKinds, NEW lane \in All, NEW s \in {0, 1}
        PROVE  RowComing(k, lane, s)'
    <3>1. k \in Kinds /\ k # "OUTPUT" /\ lane \in Nat
      BY <1>0, BuffersAre DEF All
    <3>2. CASE s = sel
      <4>1. underWay'[<<k, lane, s>>] = {Lanes * (group + 2) + lane}
        BY <1>3, <3>2, Groupwise
      <4>2. Lanes * (group + 2) + lane \in Rows
        BY <2>1, GroupRows
      <4>3. NextRow(lane, s)' = Lanes * (group + 2) + lane
        <5>1. s # sel' /\ Whole' + 1 = group + 2
          BY <1>0, <2>1, <2>3, <3>2
        <5>2. QED  BY <5>1 DEF NextRow
      <4>4. QED  BY <4>1, <4>3 DEF RowComing
    <3>3. CASE s # sel
      <4>1. underWay'[<<k, lane, s>>] = underWay[<<k, lane, s>>] /\ buffers'[<<k, lane, s>>] = buffers[<<k, lane, s>>]
        BY <1>3, <3>1, <3>3, Groupwise
      <4>2. NextRow(lane, s) = Lanes * (group + 1) + lane /\ NextRow(lane, s)' = NextRow(lane, s)
        <5>1. s = sel'
          BY <1>0, <2>1, <3>3
        <5>2. QED  BY <2>3, <3>3, <5>1 DEF NextRow
      <4>3. NextRow(lane, s) >= DrawnRows
        <5>1. Lanes * (group + 1) = Lanes * group + Lanes /\ Lanes * group \in Nat
          BY <2>1, Times
        <5>2. QED  BY <1>0, <2>3, <3>1, <4>2, <5>1
      <4>4. RowComing(k, lane, s)
        BY <2>1, <4>3 DEF RectFetched
      <4>5. QED  BY <2>1, <4>1, <4>2, <4>4 DEF RowComing, AsFetched
    <3>4. QED  BY <3>2, <3>3
  <2>5. QED  BY <2>2, <2>4 DEF RectFetched
<1>4. CASE DrawRest
  <2>0. PICK b \in Buffers : b = <<"OUTPUT", group - Groups, sel>>
    BY <1>0, <1>4, Remainder, BuffersAre
  <2>1. /\ UNCHANGED <<data, spu, screen, sel, atRisk>> /\ spu = "draw"
        /\ group >= Groups /\ group' = group + 1
        /\ \A d \in Buffers \ {b} : underWay'[d] = underWay[d]
        /\ buffers' = [buffers EXCEPT ![b] = Drawn(group - Groups, Lanes * Groups + (group - Groups))]
        /\ group \in Nat /\ Groups \in Nat
    BY <1>4, <2>0, Remainder, RectGroups
  <2>2. Groups' = Groups /\ GetKinds' = GetKinds
    BY <2>1 DEF Groups, GetKinds
  <2>3. Whole' = Whole /\ DrawnRows' >= DrawnRows /\ DrawnRows \in Nat /\ DrawnRows' \in Nat
    <3>1. Whole = Groups /\ Whole' = Groups /\ Lanes * Groups \in Nat
      BY <2>1, <2>2, Times DEF Whole
    <3>2. QED  BY <2>1, <3>1 DEF DrawnRows
  <2>4. \A d \in Buffers \ {b} : buffers'[d] = buffers[d]
    BY <2>1 DEF RectTypes
  <2>5. ASSUME NEW k \in GetKinds, NEW lane \in All, NEW s \in {0, 1}, NextRow(lane, s)' >= DrawnRows'
        PROVE  RowComing(k, lane, s)'
    <3>1. <<k, lane, s>> \in Buffers \ {b}
      BY <2>0, BuffersAre
    <3>2. NextRow(lane, s)' = NextRow(lane, s)
      BY <2>1, <2>3 DEF NextRow
    <3>3. NextRow(lane, s) \in Nat
      BY NextRowType
    <3>4. RowComing(k, lane, s)
      BY <2>1, <2>3, <2>5, <3>2, <3>3 DEF RectFetched
    <3>5. QED  BY <2>1, <2>4, <3>1, <3>2, <3>4 DEF RowComing, AsFetched
  <2>6. QED  BY <2>1, <2>2, <2>5 DEF RectFetched
<1>5. ASSUME NEW b \in Buffers, Arrive(b)  PROVE RectFetched'
  <2>1. PICK z \in Rows :
          /\ UNCHANGED <<spu, data, group, sel, atRisk>> /\ z \in underWay[b]
          /\ underWay'[b] = underWay[b] \ {z} /\ \A d \in Buffers \ {b} : underWay'[d] = underWay[d]
          /\ b[1] = "OUTPUT" => buffers' = buffers /\ screen' = [screen EXCEPT ![z] = buffers[b]]
          /\ b[1] # "OUTPUT" => /\ screen' = screen /\ \A d \in Buffers \ {b} : buffers'[d] = buffers[d]
                                /\ buffers'[b] = AsFetched(b[1], z)
    BY <1>5, Arrives
  <2>2. DrawnRows' = DrawnRows /\ GetKinds' = GetKinds
    BY <2>1 DEF DrawnRows, Whole, Groups, GetKinds
  <2>3. SUFFICES ASSUME spu = "draw", NEW k \in GetKinds, NEW lane \in All, NEW s \in {0, 1},
                        NextRow(lane, s)' >= DrawnRows'
                 PROVE  RowComing(k, lane, s)'
    BY <2>1, <2>2 DEF RectFetched
  <2>4. NextRow(lane, s)' = NextRow(lane, s)
    BY <2>1 DEF NextRow, Whole, Groups
  <2>5. RowComing(k, lane, s) /\ <<k, lane, s>> \in Buffers /\ k # "OUTPUT"
    <3>1. NextRow(lane, s) >= DrawnRows
      BY <2>2, <2>3, <2>4
    <3>2. RowComing(k, lane, s)
      BY <2>3, <3>1 DEF RectFetched
    <3>3. QED  BY <3>2, BuffersAre
  <2>6. CASE b[1] = "OUTPUT"
    <3>1. b = <<"OUTPUT", b[2], b[3]>> /\ b[2] \in All /\ b[3] \in {0, 1}
      BY <2>6, BuffersAre
    <3>2. z < DrawnRows
      <4>1. RowOut(b[2], b[3])
        BY <3>1 DEF RectRows
      <4>2. \E y \in Rows : underWay[b] = {y} /\ y < DrawnRows
        BY <2>1, <3>1, <4>1 DEF RowOut
      <4>3. QED  BY <2>1, <4>2
    <3>4. buffers' = buffers /\ screen' = [screen EXCEPT ![z] = buffers[b]]
      BY <2>1, <2>6
    <3>5. NextRow(lane, s) # z
      <4>1. NextRow(lane, s) \in Nat /\ DrawnRows \in Nat /\ z \in Int
        BY NextRowType, DrawnType, Tallest
      <4>2. QED  BY <2>2, <2>3, <2>4, <3>2, <4>1
    <3>6. screen'[NextRow(lane, s)] = screen[NextRow(lane, s)]
      BY <3>4, <3>5 DEF RectTypes
    <3>7. underWay'[<<k, lane, s>>] = underWay[<<k, lane, s>>]
      BY <2>1, <2>5, <3>1
    <3>8. QED  BY <2>1, <2>4, <2>5, <3>4, <3>6, <3>7 DEF RowComing, AsFetched
  <2>7. CASE b[1] # "OUTPUT"
    <3>1. /\ screen' = screen /\ \A d \in Buffers \ {b} : buffers'[d] = buffers[d]
          /\ buffers'[b] = AsFetched(b[1], z)
      BY <2>1, <2>7
    <3>2. CASE b # <<k, lane, s>>
      BY <2>1, <2>4, <2>5, <3>1, <3>2 DEF RowComing, AsFetched
    <3>3. CASE b = <<k, lane, s>>
      <4> DEFINE y == NextRow(lane, s)
      <4>1. /\ RowComing(k, lane, s) /\ b[1] = k /\ NextRow(lane, s)' = y /\ buffers'[b] = AsFetched(k, z)
            /\ underWay'[b] = underWay[b] \ {z} /\ z \in underWay[b] /\ atRisk' = atRisk
            /\ AsFetched(k, y)' = AsFetched(k, y) /\ AsFetched(k, z).row = z
        BY <2>1, <2>4, <2>5, <3>1, <3>3, FetchedIs DEF AsFetched
      <4> HIDE DEF y
      <4>2. IF y \in underWay[b] THEN underWay[b] = {y} \/ y \in atRisk ELSE y \in atRisk
        BY <3>3, <4>1 DEF RowComing, y
      <4>3. z = y => buffers'[b] = AsFetched(k, y)
        BY <4>1
      <4>4. buffers'[b].row = y => z = y
        BY <4>1
      <4>5. IF y \in underWay'[b] THEN underWay'[b] = {y} \/ y \in atRisk'
            ELSE \/ underWay'[b] = {} /\ buffers'[b] = AsFetched(k, y)
                 \/ y \in atRisk' /\ (buffers'[b] # Spoilt /\ buffers'[b].row = y
                                       => buffers'[b] = AsFetched(k, y))
        <5>1. CASE z = y
          <6>1. y \notin underWay'[b] /\ (underWay[b] = {y} => underWay'[b] = {})
            BY <4>1, <5>1
          <6>2. underWay'[b] = {} \/ y \in atRisk
            BY <4>1, <4>2, <5>1, <6>1
          <6>3. QED  BY <4>1, <4>3, <5>1, <6>1, <6>2
        <5>2. CASE z # y
          <6>1. y \in atRisk
            BY <4>1, <4>2, <5>2
          <6>2. buffers'[b].row # y /\ y \in atRisk'
            BY <4>1, <4>4, <5>2, <6>1
          <6>3. CASE y \in underWay'[b]
            BY <6>2, <6>3
          <6>4. CASE y \notin underWay'[b]
            BY <6>2, <6>4
          <6>5. QED  BY <6>3, <6>4
        <5>3. QED  BY <5>1, <5>2
      <4>6. RowComing(k, lane, s)' <=>
              IF y \in underWay'[b] THEN underWay'[b] = {y} \/ y \in atRisk'
              ELSE \/ underWay'[b] = {} /\ buffers'[b] = AsFetched(k, y)'
                   \/ y \in atRisk' /\ (buffers'[b] # Spoilt /\ buffers'[b].row = y
                                         => buffers'[b] = AsFetched(k, y)')
        <5>1. RowComing(k, lane, s)' <=>
                LET d == <<k, lane, s>> IN
                IF NextRow(lane, s)' \in underWay'[d]
                THEN underWay'[d] = {NextRow(lane, s)'} \/ NextRow(lane, s)' \in atRisk'
                ELSE \/ underWay'[d] = {} /\ buffers'[d] = AsFetched(k, NextRow(lane, s))'
                     \/ /\ NextRow(lane, s)' \in atRisk'
                        /\ buffers'[d] # Spoilt /\ buffers'[d].row = NextRow(lane, s)'
                           => buffers'[d] = AsFetched(k, NextRow(lane, s))'
          BY DEF RowComing
        <5>2. NextRow(lane, s)' = y /\ AsFetched(k, NextRow(lane, s))' = AsFetched(k, y)'
          BY <2>1, <2>4, <4>1 DEF y, AsFetched
        <5> HIDE DEF RowComing
        <5>3. QED  BY <3>3, <5>1, <5>2
      <4>7. QED  BY <4>1, <4>5, <4>6
    <3>4. QED  BY <3>2, <3>3
  <2>8. QED  BY <2>6, <2>7
<1>6. CASE /\ ~SendRun /\ ~Take /\ ~FetchFirst /\ ~DrawGroup /\ ~DrawRest /\ ~Finish
           /\ \A b \in Buffers : ~Arrive(b)
  <2>1. /\ UNCHANGED <<buffers, underWay, screen, atRisk, data, group, sel>>
        /\ spu' = spu \/ (spu' # "draw" /\ spu # "draw")
    BY <1>6, RectCalm
  <2>2. DrawnRows' = DrawnRows /\ GetKinds' = GetKinds
    BY <2>1 DEF DrawnRows, Whole, Groups, GetKinds
  <2>3. \A lane \in All, s \in {0, 1} : NextRow(lane, s)' = NextRow(lane, s)
    BY <2>1 DEF NextRow, Whole, Groups
  <2>4. ASSUME NEW k \in GetKinds, NEW lane \in All, NEW s \in {0, 1}
        PROVE  RowComing(k, lane, s)' = RowComing(k, lane, s)
    <3>1. \A y : AsFetched(k, y)' = AsFetched(k, y)
      BY <2>1 DEF AsFetched
    <3>2. QED  BY <2>1, <2>3, <3>1 DEF RowComing
  <2>5. QED  BY <2>1, <2>2, <2>3, <2>4 DEF RectFetched
<1>7. QED  BY <1>1, <1>2, <1>3, <1>4, <1>5, <1>6

-----------------------------------------------------------------------------
LEMMA RectStart ==
  ASSUME RectInit
  PROVE  RectInv
<1>1. /\ Lanes \in Nat /\ Lanes > 0 /\ MaxRuns \in Nat /\ Highest \in Nat /\ 0 \in RectHeights
      /\ \A y \in Rows : y \in Nat
  BY Tallest
<1>2. /\ host = "idle" /\ runs = 0 /\ answers = 0 /\ data = args
      /\ args = [no |-> 0, height |-> 0, op |-> "FILL"]
      /\ thread = "new" /\ inbox = <<>> /\ outbox = <<>> /\ spu = "none"
      /\ group = 0 /\ sel = 0 /\ stopped = FALSE
      /\ expected = [y \in Rows |-> Fresh] /\ screen = [y \in Rows |-> Fresh]
      /\ buffers = [b \in Buffers |-> Spoilt] /\ underWay = [b \in Buffers |-> {}] /\ atRisk = {}
  BY DEF RectInit
<1>3. ~RectPending
  BY <1>2, Mailed DEF RectPending
<1>4. RectCalls
  BY <1>2, <1>3 DEF RectCalls, RectTurns, RectWorking
<1>5. RectCounts
  <2>1. data.height = 0 /\ args.height = 0 /\ data.op \in Ops /\ args.op \in Ops
    BY <1>2 DEF Ops
  <2>2. runs \in 0 .. MaxRuns /\ group \in 0 .. Highest
    BY <1>1, <1>2
  <2>3. QED  BY <1>1, <1>2, <2>1, <2>2 DEF RectCounts
<1>6. RectTypes
  <2>1. Fresh \in Held /\ Fresh.times = 0 /\ Fresh.by = 0
    BY DEF Fresh, Held
  <2>2. Fresh # Spoilt
    BY <2>1, RectAssumption
  <2>3. underWay \in [Buffers -> SUBSET Rows] /\ atRisk \subseteq 0 .. 2 * Lanes - 1
    BY <1>2
  <2>4. buffers \in [Buffers -> Held \cup [row: Rows, was: Held \cup {Spoilt}] \cup {Spoilt}]
    BY <1>2
  <2>5. expected \in [Rows -> Held] /\ screen \in [Rows -> Held]
    BY <1>2, <2>1
  <2>6. \A y \in Rows : screen[y] = Fresh /\ expected[y] = Fresh
    BY <1>2
  <2>7. QED  BY <1>2, <2>1, <2>2, <2>3, <2>4, <2>5, <2>6 DEF RectTypes
<1>7. RectRest
  BY <1>1, <1>2, <1>3 DEF RectRest, Goal, Shows
<1>8. RectRows /\ RectFetched
  BY <1>2, BuffersAre DEF RectRows, RectFetched, RowOut
<1>9. QED  BY <1>4, <1>5, <1>6, <1>7, <1>8 DEF RectInv

LEMMA RectStep ==
  ASSUME RectInv, [RectNext]_rectVars
  PROVE  RectInv'
BY StepRectCalls, StepRectCounts, StepRectTypes, StepRectRest, StepRectRows, StepRectFetched
   DEF RectInv

LEMMA RectTyped ==
  ASSUME RectInv
  PROVE  RectTypeOK
<1>1. /\ RectCalls /\ RectCounts /\ RectTypes
      /\ runs \in Nat /\ MaxRuns \in Nat /\ data.no \in Nat /\ data.no <= runs /\ runs <= MaxRuns
      /\ inbox \in {<<>>, <<"RUN">>, <<"STOP">>, <<"RUN", "STOP">>}
  BY RectWhere DEF RectInv
<1>2. /\ host \in {"idle", "receive", "send", "join", "joined"}
      /\ answers \in {runs, runs + 1}
      /\ spu \in {"none", "post", "wait", "fetch", "draw", "exit"}
  BY <1>1 DEF RectCalls, RectTurns, RectLeaving, RectWorking, RectAnswered, RectQuiet, RectSent
<1>3. inbox \in Seq({"RUN", "STOP"}) /\ Len(inbox) <= 2
  <2>1. /\ <<>> \in Seq({"RUN", "STOP"}) /\ Len(<<>>) <= 2
        /\ <<"RUN">> \in Seq({"RUN", "STOP"}) /\ Len(<<"RUN">>) <= 2
    OBVIOUS
  <2>2. /\ <<"STOP">> \in Seq({"RUN", "STOP"}) /\ Len(<<"STOP">>) <= 2
        /\ <<"RUN", "STOP">> \in Seq({"RUN", "STOP"}) /\ Len(<<"RUN", "STOP">>) <= 2
    OBVIOUS
  <2>3. QED  BY <1>1, <2>1, <2>2, Zenon
<1>4. screen \in [Rows -> [times: 0 .. MaxRuns + 1, by: 0 .. MaxRuns] \cup {Spoilt}]
  <2>1. screen \in [Rows -> Held \cup {Spoilt}]
    BY <1>1 DEF RectTypes
  <2>2. ASSUME NEW y \in Rows, screen[y] # Spoilt
        PROVE  screen[y] \in [times: 0 .. MaxRuns + 1, by: 0 .. MaxRuns]
    <3>1. screen[y] \in Held /\ screen[y].times <= runs + 1 /\ screen[y].by <= runs
      BY <1>1, <2>1, <2>2 DEF RectTypes
    <3>2. screen[y].times \in 0 .. MaxRuns + 1 /\ screen[y].by \in 0 .. MaxRuns
      BY <1>1, <3>1 DEF Held
    <3>3. QED  BY <3>1, <3>2 DEF Held
  <2>3. QED  BY <2>1, <2>2
<1>5. underWay \in [Buffers -> SUBSET Rows] /\ atRisk \subseteq 0 .. 2 * Lanes - 1
  BY <1>1 DEF RectTypes
<1>6. QED  BY <1>1, <1>2, <1>3, <1>4, <1>5 DEF RectTypeOK, RectCounts, RectCalls, RectHeights

LEMMA RectAnswer ==
  ASSUME RectInv
  PROVE  RectDrawn
<1>1. RectCalls /\ RectCounts /\ RectTypes /\ RectRest /\ runs \in Nat
  BY RectWhere DEF RectInv
<1> DEFINE Right(y, v) == screen[y] = v \/ (y \in atRisk /\ screen[y] = Spoilt)
<1>0. \A v : \A y \in Rows : Shows(y, v) => Right(y, v)
  BY <1>1 DEF RectTypes, Shows
<1> HIDE DEF Right
<1>2. ASSUME host = "idle", answers = runs + 1, NEW y \in Rows  PROVE Right(y, expected[y])
  <2>1. ~stopped /\ RectQuiet
    BY <1>1, <1>2, RectWhere DEF RectTurns, RectWorking, RectAnswered, RectQuiet, RectSent
  <2>2. Shows(y, expected[y])
    BY <1>1, <2>1, Mailed DEF RectQuiet, RectRest, RectPending, Goal
  <2>3. QED  BY <1>0, <2>2
<1>3. ASSUME host = "joined", NEW y \in Rows
      PROVE  Right(y, IF y < data.height
                      THEN [expected[y] EXCEPT !.times = @ + 1] ELSE expected[y])
  <2>1. RectLeaving /\ spu = "exit"
    BY <1>1, <1>3, RectWhere DEF RectLeaving
  <2>2. stopped /\ inbox = <<>>
    BY <2>1 DEF RectLeaving
  <2>3. Right(y, Goal(y))
    BY <1>0, <1>1, <2>1, <2>2, Mailed DEF RectRest, RectPending
  <2>4. expected[y] \in Held
    BY <1>1 DEF RectTypes
  <2>5. [expected[y] EXCEPT !.times = @ + 1] = [times |-> expected[y].times + 1, by |-> expected[y].by]
    BY <2>4 DEF Held
  <2>6. QED  BY <2>2, <2>3, <2>5 DEF Goal
<1>4. QED  BY <1>2, <1>3 DEF RectDrawn, Right

(* Every variable of the draw_rect service keeps its type; the rows that   *)
(* may be fetched wrongly are in the first two groups, whatever order the  *)
(* commands complete in.                                                   *)
THEOREM RectTypesKept == RectSpec => []RectTypeOK
<1>1. RectInit => RectInv
  BY RectStart
<1>2. RectInv /\ [RectNext]_rectVars => RectInv'
  BY RectStep
<1>3. RectInv => RectTypeOK
  BY RectTyped
<1>4. QED  BY <1>1, <1>2, <1>3, PTL DEF RectSpec

(* When the draw_rect service has answered, each operation has drawn each  *)
(* of its rows once and nothing else, and after draw_rect_destroy the last *)
(* one was drawn once more: all rows but those of the first two groups for *)
(* which a row of an earlier operation was on its way to the same buffer,  *)
(* and these too unless it was the last to arrive.                         *)
THEOREM RectsDrawn == RectSpec => []RectDrawn
<1>1. RectInit => RectInv
  BY RectStart
<1>2. RectInv /\ [RectNext]_rectVars => RectInv'
  BY RectStep
<1>3. RectInv => RectDrawn
  BY RectAnswer
<1>4. QED  BY <1>1, <1>2, <1>3, PTL DEF RectSpec


-----------------------------------------------------------------------------
(* THE LOADER.  Where main of spe_loader.c is fixes where main of loader.c *)
(* can be, what the program has fetched, and what is in the mailbox.       *)
LoaderResting ==
  /\ spe \in {"none", "args", "data", "greet"} => speMbox = Garbage
  /\ spe = "none" => main \in {"start", "no file", "greeting"}
  /\ spe \in {"args", "data", "greet"} => main = "greeting"
  /\ loaderThread = "new" => spe = "none" /\ main = "greeting"

(* The buffer is there until the program was fetched from it.              *)
LoaderFetched ==
  /\ main = "greeting" => buffer = Program /\ context
  /\ spe \in {"data", "greet", "call"} => speArgs = Argument
  /\ spe \in {"greet", "call"} => speData = Program

LoaderTalks ==
  /\ spe = "call" =>
       \/ main = "greeting" /\ speMbox = Greeting
       \/ main = "result" /\ speMbox = Garbage
  /\ spe = "exit" =>
       \/ main = "result" /\ speMbox = Argument
       \/ main \in {"free", "done"} /\ speMbox = Garbage
  /\ spe \in {"none", "args", "data", "greet", "call", "exit"}

LoaderRead ==
  /\ main \in {"result", "free", "done"} => greeted = Greeting
  /\ main \in {"free", "done"} => sentBack = Argument

LoaderInv == LoaderResting /\ LoaderFetched /\ LoaderTalks /\ LoaderRead

(* main of loader.c frees the buffer, and destroys the context, only after *)
(* the greeting and what the loaded program returned have been read, in    *)
(* this order: neither is taken for the other, and no fetch of the SPU     *)
(* meets a freed buffer.                                                   *)
LoaderOutcome ==
  /\ main \in {"free", "done"} => greeted = Greeting /\ sentBack = Argument
  /\ spe \in {"args", "data"} => context /\ buffer = Program

LEMMA LoaderStarts ==
  ASSUME LoaderInit
  PROVE  LoaderInv
BY LoaderAssumption DEF LoaderInit, LoaderInv, LoaderResting, LoaderFetched, LoaderTalks, LoaderRead

LEMMA LoaderStep ==
  ASSUME LoaderInv, [LoaderNext]_loaderVars
  PROVE  LoaderInv'
<1> USE LoaderAssumption DEF LoaderInv, LoaderResting, LoaderFetched, LoaderTalks, LoaderRead
<1>1. CASE StartLoader BY <1>1 DEF StartLoader
<1>2. CASE ReadGreeting BY <1>2 DEF ReadGreeting
<1>3. CASE ReadResult BY <1>3 DEF ReadResult
<1>4. CASE FreeAll BY <1>4 DEF FreeAll
<1>5. CASE RunLoader BY <1>5 DEF RunLoader
<1>6. CASE LoaderEnds BY <1>6 DEF LoaderEnds
<1>7. CASE FetchArgs BY <1>7 DEF FetchArgs
<1>8. CASE FetchProgram BY <1>8 DEF FetchProgram
<1>9. CASE Greet BY <1>9 DEF Greet
<1>10. CASE SendBack BY <1>10 DEF SendBack
<1>11. CASE UNCHANGED loaderVars BY <1>11 DEF loaderVars
<1>12. QED
  BY <1>1, <1>2, <1>3, <1>4, <1>5, <1>6, <1>7, <1>8, <1>9, <1>10, <1>11
  DEF LoaderNext

(* So it is in every order of the two sides, with every file and argument. *)
THEOREM LoaderAnswers == LoaderSpec => []LoaderOutcome
<1>1. LoaderInit => LoaderInv
  BY LoaderStarts
<1>2. LoaderInv /\ [LoaderNext]_loaderVars => LoaderInv'
  BY LoaderStep
<1>3. LoaderInv => LoaderOutcome
  BY DEF LoaderInv, LoaderResting, LoaderFetched, LoaderRead, LoaderOutcome
<1>4. QED  BY <1>1, <1>2, <1>3, PTL DEF LoaderSpec

-----------------------------------------------------------------------------
(* Both services and the row filter side by side: a step of the whole is a *)
(* step of one of them, or of the loader, and leaves the others alone.     *)

ServicesInv == FilterInv /\ RectInv /\ CscInv

LEMMA ServicesSteps ==
  ASSUME [ServicesNext]_allVars
  PROVE  [FilterNext]_filterVars /\ [RectNext]_rectVars /\ [CscNext]_cscVars
<1>1. CASE ServicesStep
  BY <1>1 DEF ServicesStep, RectNext, CscNext
<1>2. CASE which = "rect" /\ CallerStep /\ UNCHANGED <<filterVars, cscVars>>
  BY <1>2 DEF RectNext
<1>3. CASE which = "csc" /\ CscCaller /\ UNCHANGED <<filterVars, rectVars>>
  BY <1>3 DEF CscNext
<1>4. CASE which = "filter" /\ FilterNext /\ UNCHANGED <<rectVars, cscVars>>
  BY <1>4
<1>5. CASE UNCHANGED allVars
  BY <1>5 DEF allVars
<1>6. QED  BY <1>1, <1>2, <1>3, <1>4, <1>5 DEF ServicesNext

LEMMA ServicesInvHolds == ServicesSpec => []ServicesInv
<1>1. ServicesInit => ServicesInv
  BY FilterInitInv, RectStart, CscStart DEF ServicesInit, ServicesInv
<1>2. ServicesInv /\ [ServicesNext]_allVars => ServicesInv'
  <2>1. SUFFICES ASSUME ServicesInv, [ServicesNext]_allVars  PROVE ServicesInv'
    OBVIOUS
  <2>2. [FilterNext]_filterVars /\ [RectNext]_rectVars /\ [CscNext]_cscVars
    BY <2>1, ServicesSteps
  <2>3. FilterInv'
    <3>1. CASE UNCHANGED filterVars
      BY <2>1, <3>1 DEF ServicesInv, FilterInv, FilterTypeOK, Computed, Overrun, Position, Half, filterVars
    <3>2. QED  BY <2>1, <2>2, <3>1, FillOffsetInv, FillRowInv, UpdateInv DEF FilterNext, ServicesInv
  <2>4. RectInv' /\ CscInv'
    BY <2>1, <2>2, RectStep, CscStep DEF ServicesInv
  <2>5. QED  BY <2>3, <2>4 DEF ServicesInv
<1>3. QED  BY <1>1, <1>2, PTL DEF ServicesSpec

(* Every variable of the two services and of the row filter keeps its type *)
(* when they are in one system: the tables and buffers are not overrun and *)
(* no mailbox is fuller than it can be.                                    *)
THEOREM ServicesTypes == ServicesSpec => []ServicesTypeOK
<1>1. ServicesInv => ServicesTypeOK
  BY RectTyped DEF ServicesInv, FilterInv, CscInv, ServicesTypeOK
<1>2. QED  BY <1>1, ServicesInvHolds, PTL

(* In that system too, every answered operation is drawn, every answered   *)
(* frame converted, and no row mixed from what lies beyond its plane.      *)
THEOREM ServicesAnswer == ServicesSpec => [](RectDrawn /\ FrameConverted /\ RowsInside)
<1>1. ServicesInv => RectDrawn /\ FrameConverted /\ RowsInside
  BY RectAnswer, CscAnswer, TablesInside DEF ServicesInv
<1>2. QED  BY <1>1, ServicesInvHolds, PTL

-----------------------------------------------------------------------------
(* PROGRESS.  Each caller in a call has a step of its service to wait for, *)
(* which brings the end of the call nearer.  The guards of the steps are   *)
(* written out; the services run on unless the program was not loaded.     *)

RectUnloaded == thread = "ended" /\ spu = "none"

(* A guard of ServiceStep holds: in the library and its thread,            *)
RectHostCan ==
  \/ host = "receive" /\ outbox # <<>>
  \/ host = "join" /\ thread = "ended"
  \/ thread = "new"
  \/ thread = "runs" /\ spu = "exit"

(* or in the program or its DMA.                                           *)
RectDrawCan ==
  LET rest == data.height % Lanes IN
  \/ group < Groups /\ Waited(Of(Kinds, All, sel))
  \/ /\ group >= Groups /\ group - Groups < rest
     /\ Waited(Of(Kinds, {group - Groups}, sel))
  \/ group = Groups + rest /\ Waited({"OUTPUT"} \X All \X {0, 1})

RectSpuCan ==
  \/ \E b \in Buffers : underWay[b] # {}
  \/ spu = "post" /\ outbox = <<>>
  \/ spu = "wait" /\ inbox # <<>>
  \/ spu = "fetch"
  \/ spu = "draw" /\ RectDrawCan

RectNeverStuck ==
  host \in {"receive", "join"} => RectHostCan \/ RectSpuCan \/ RectUnloaded

(* The program is there when its thread runs.                              *)
RectRuns == thread = "runs" => spu # "none"

(* The steps left to the service, but for those of its DMA: a message is   *)
(* an operation, which is a step for each group and each row left over.    *)
RectOneMessage == Highest + 5
RectMail == IF inbox = <<>> THEN 0
            ELSE IF inbox = <<"RUN", "STOP">> THEN 2 * RectOneMessage ELSE RectOneMessage
RectSpuLeft ==
  CASE spu = "none" -> 3
    [] spu = "post" -> 2
    [] spu = "wait" -> 1
    [] spu = "fetch" -> Highest + 4
    [] spu = "draw" -> Groups + (data.height % Lanes) - group + 3
    [] OTHER -> 0
RectHostLeft == IF host \in {"receive", "join"} THEN 1 ELSE 0
RectThreadLeft == IF thread = "new" THEN 2 ELSE IF thread = "runs" THEN 1 ELSE 0
RectStepsLeft == RectHostLeft + RectThreadLeft + RectMail + RectSpuLeft

(* A step takes one of them, or one command away from those under way.     *)
RectNearer ==
  \/ RectStepsLeft' < RectStepsLeft
  \/ /\ RectStepsLeft' = RectStepsLeft
     /\ \E b \in Buffers : \E y \in underWay[b] :
          underWay' = [underWay EXCEPT ![b] = @ \ {y}]

RectWaitsShorten ==
  [][ServiceStep \/ host \in {"receive", "join"} => RectStepsLeft \in Nat /\ RectNearer]_rectVars

-----------------------------------------------------------------------------
(* The same of yuv2rgb, whose commands under way are of finitely many.     *)
CscUnloaded == cscThread = "ended" /\ cscPc = "none"

CscHostCan ==
  \/ cscHost = "send" /\ Len(cscIn) < 4
  \/ cscHost = "receive" /\ cscOut # <<>>
  \/ cscHost = "join" /\ cscThread = "ended"
  \/ cscThread = "new"
  \/ cscThread = "runs" /\ cscPc = "exit"

CscSpuCan ==
  \/ cscPc \in {"boot", "fetch"}
  \/ cscPc \in {"first", "wait"} /\ cscIn # <<>>
  \/ /\ cscPc = "convert" /\ line < height
     /\ moving[<<"tgi", line % 2>>] = {} /\ moving[<<"tgo", line % 2>>] = {}
  \/ /\ cscPc = "convert" /\ line = height
     /\ moving[<<"tgo", (line + 1) % 2>>] = {}
  \/ cscPc = "post" /\ cscOut = <<>>
  \/ \E t \in CscTags : moving[t] # {}

CscNeverStuck ==
  cscHost \in {"send", "receive", "join"} => CscHostCan \/ CscSpuCan \/ CscUnloaded

(* The program is there when its thread runs, and after the destroy it has *)
(* ended or has a STOP to take.                                            *)
CscRuns ==
  /\ cscThread = "runs" => cscPc # "none"
  /\ cscHost \in {"join", "joined"} => cscPc = "exit" \/ cscIn # <<>>

(* A message is a frame: for each pair one step.                           *)
CscOneMessage == MostPairs + 4
CscMail == IF cscIn = <<>> THEN 0 ELSE CscOneMessage
CscPcLeft ==
  CASE cscPc = "none" -> 3
    [] cscPc = "boot" -> 2
    [] cscPc \in {"first", "wait"} -> 1
    [] cscPc = "fetch" -> MostPairs + 4
    [] cscPc = "convert" -> height - line + 3
    [] cscPc = "post" -> 2
    [] OTHER -> 0
CscHostLeft ==
  CASE cscHost = "send" -> CscOneMessage + 1
    [] cscHost \in {"receive", "join"} -> 1
    [] OTHER -> 0
CscThreadLeft == IF cscThread = "new" THEN 2 ELSE IF cscThread = "runs" THEN 1 ELSE 0
CscStepsLeft == CscHostLeft + CscThreadLeft + CscMail + CscPcLeft

CscNearer ==
  \/ CscStepsLeft' < CscStepsLeft
  \/ /\ CscStepsLeft' = CscStepsLeft
     /\ \E t \in CscTags : \E c \in moving[t] :
          moving' = [moving EXCEPT ![t] = @ \ {c}]

(* What is fetched ahead is at most two pairs further down.                *)
CscAhead == \A t \in CscTags : moving[t] \subseteq {0, 1} \X (0 .. MostPairs + 1)

CscWaitsShorten ==
  [][CscService \/ cscHost \in {"send", "receive", "join"} =>
       CscStepsLeft \in Nat /\ CscAhead /\ CscNearer]_cscVars

-----------------------------------------------------------------------------
(* And of the loader, all of it.                                           *)
LoaderCan ==
  \/ main \in {"greeting", "result"} /\ speMbox # Garbage
  \/ main = "free"
  \/ loaderThread = "new"
  \/ loaderThread = "runs" /\ spe = "exit"
  \/ spe \in {"args", "data"} /\ context
  \/ spe \in {"greet", "call"} /\ context /\ speMbox = Garbage

LoaderNeverStuck ==
  main \in {"greeting", "result", "free"} =>
    LoaderCan \/ (loaderThread = "ended" /\ spe = "none")

LoaderRuns ==
  /\ loaderThread = "runs" => spe # "none"
  /\ main = "greeting" => loaderThread # "none"
  /\ main = "result" => context
  /\ main \in {"start", "no file"} => loaderThread = "none"
  /\ loaderThread \in {"none", "new", "runs", "ended"}

LoaderMainLeft ==
  CASE main = "start" -> 6 [] main = "greeting" -> 3 [] main = "result" -> 2
    [] main = "free" -> 1 [] OTHER -> 0
LoaderSpeLeft ==
  CASE spe = "none" -> 5 [] spe = "args" -> 4 [] spe = "data" -> 3
    [] spe = "greet" -> 2 [] spe = "call" -> 1 [] OTHER -> 0
LoaderThreadLeft ==
  CASE loaderThread = "new" -> 2 [] loaderThread = "runs" -> 1 [] OTHER -> 0
LoaderStepsLeft == LoaderMainLeft + LoaderSpeLeft + LoaderThreadLeft

LoaderWaitsShorten ==
  [][LoaderNext => LoaderStepsLeft \in 0 .. 11 /\ LoaderStepsLeft' < LoaderStepsLeft]_loaderVars

(* Loading the program makes it runnable, and only then does the thread.   *)
LEMMA StepRectRuns ==
  ASSUME RectRuns, [RectNext]_rectVars
  PROVE  RectRuns'
<1>1. CASE Load
  BY <1>1 DEF Load, RectRuns
<1>2. CASE ~Load /\ ~Ended
  <2>1. UNCHANGED thread /\ (UNCHANGED spu \/ spu' # "none")
    <3>1. CASE Receive \/ SendRun \/ Destroy \/ ReceiveReady \/ Joined \/ UNCHANGED rectVars
      BY <3>1 DEF Receive, SendRun, Destroy, ReceiveReady, Joined, rectVars, spuVars
    <3>2. ASSUME NEW h \in RectSizes, NEW op \in Ops, Prepare(h, op)
          PROVE  UNCHANGED thread /\ UNCHANGED spu
      BY <3>2 DEF Prepare, spuVars
    <3>3. ASSUME NEW b \in Buffers, Arrive(b)  PROVE UNCHANGED thread /\ UNCHANGED spu
      BY <3>3 DEF Arrive, spuVars
    <3>4. CASE Post \/ Take \/ FetchFirst \/ DrawGroup \/ DrawRest \/ Finish
      BY <3>4 DEF Post, Take, FetchFirst, DrawGroup, DrawRest, Finish
    <3>5. QED  BY <1>2, <3>1, <3>2, <3>3, <3>4 DEF RectNext, CallerStep, ServiceStep
  <2>2. QED  BY <2>1 DEF RectRuns
<1>3. CASE Ended
  BY <1>3 DEF Ended, RectRuns
<1>4. QED  BY <1>1, <1>2, <1>3

(* In the drawing loop, once the DMA is done, one of its steps can be taken. *)
LEMMA RectDrawGoesOn ==
  ASSUME RectInv, spu = "draw", \A b \in Buffers : underWay[b] = {}
  PROVE  RectDrawCan
<1>1. /\ group \in Nat /\ Groups \in Nat /\ data.height % Lanes \in 0 .. Lanes - 1
      /\ Lanes \in Nat /\ group <= Groups + (data.height % Lanes) /\ sel \in {0, 1}
  BY RectGroups DEF RectInv, RectRows, RectCounts
<1>2. Waited(Of(Kinds, All, sel)) /\ Waited({"OUTPUT"} \X All \X {0, 1})
  <2>1. Of(Kinds, All, sel) \subseteq Buffers /\ {"OUTPUT"} \X All \X {0, 1} \subseteq Buffers
    BY <1>1 DEF Of, Buffers, Kinds, All
  <2>2. QED  BY <2>1 DEF Waited
<1>3. CASE group >= Groups /\ group - Groups < data.height % Lanes
  <2>1. group - Groups \in All
    BY <1>1, <1>3 DEF All
  <2>2. Waited(Of(Kinds, {group - Groups}, sel))
    <3>1. Of(Kinds, {group - Groups}, sel) \subseteq Buffers
      BY <1>1, <2>1 DEF Of, Buffers, All
    <3>2. QED  BY <3>1 DEF Waited
  <2>3. QED  BY <1>3, <2>2 DEF RectDrawCan
<1>4. QED  BY <1>1, <1>2, <1>3 DEF RectDrawCan

LEMMA RectGoesOn ==
  ASSUME RectInv, RectRuns
  PROVE  RectNeverStuck
<1>1. SUFFICES ASSUME host \in {"receive", "join"}, ~RectHostCan, ~RectUnloaded  PROVE RectSpuCan
  BY DEF RectNeverStuck
<1>2. thread \in {"new", "runs", "ended"} /\ RectCalls
  BY DEF RectInv, RectCounts
<1>3. spu # "none"
  BY <1>1, <1>2 DEF RectHostCan, RectUnloaded, RectRuns
<1>4. spu # "draw" => RectSpuCan
  <2>1. CASE host = "receive"
    <3>1. RectTurns /\ outbox = <<>> /\ answers = runs
      BY <1>1, <1>2, <2>1 DEF RectCalls, RectTurns, RectLeaving, RectHostCan
    <3>2. RectWorking \/ RectSent
      <4>1. ~RectAnswered
        BY <3>1, Mailed DEF RectAnswered
      <4>2. ~RectQuiet
        BY <1>2, <3>1, RectWhere DEF RectInv, RectQuiet
      <4>3. QED  BY <3>1, <4>1, <4>2 DEF RectTurns
    <3>3. CASE RectSent
      BY <3>3, Mailed DEF RectSent, RectSpuCan
    <3>4. CASE RectWorking
      BY <1>3, <3>4 DEF RectWorking, RectSpuCan
    <3>5. QED  BY <3>2, <3>3, <3>4
  <2>2. CASE host = "join"
    <3>1. RectLeaving /\ thread # "ended"
      BY <1>1, <1>2, <2>2 DEF RectCalls, RectTurns, RectHostCan
    <3>2. spu # "exit"
      BY <1>1, <1>2, <1>3, <3>1 DEF RectHostCan
    <3>3. QED  BY <3>1, <3>2, Mailed DEF RectLeaving, RectSpuCan
  <2>3. QED  BY <1>1, <2>1, <2>2
<1>5. spu = "draw" => RectSpuCan
  BY RectDrawGoesOn DEF RectSpuCan
<1>6. QED  BY <1>4, <1>5

(* A caller of draw_rect that waits for an answer, or for the thread to    *)
(* end, always has a step of the library, the program or its DMA to wait   *)
(* for, for every height and number of lanes, and whatever the order in    *)
(* which the commands complete; but a thread that could not load the       *)
(* program has ended, and nobody answers.                                  *)
THEOREM RectNeverStops == RectSpec => []RectNeverStuck
<1>1. RectInit => RectInv /\ RectRuns
  BY RectStart DEF RectInit, RectRuns
<1>2. RectInv /\ RectRuns /\ [RectNext]_rectVars => RectInv' /\ RectRuns'
  BY RectStep, StepRectRuns
<1>3. RectInv /\ RectRuns => RectNeverStuck
  BY RectGoesOn
<1>4. QED  BY <1>1, <1>2, <1>3, PTL DEF RectSpec

-----------------------------------------------------------------------------
LEMMA CscGoesOn ==
  ASSUME CscInv, CscRuns
  PROVE  CscNeverStuck
<1>1. SUFFICES ASSUME cscHost \in {"send", "receive", "join"}, ~CscHostCan, ~CscUnloaded
               PROVE  CscSpuCan
  BY DEF CscNeverStuck
<1>2. /\ cscThread \in {"new", "runs", "ended"} /\ CscTypeOK /\ CscCalls /\ NewestFrame \in Nat
      /\ answered \in Nat
  BY CscTurns DEF CscInv, CscTypeOK
<1>3. cscPc # "none"
  BY <1>1, <1>2 DEF CscHostCan, CscUnloaded, CscRuns
<1>4. cscPc \notin {"convert"} => CscSpuCan
  <2>1. cscHost # "send"
    <3>1. SUFFICES ASSUME cscHost = "send"  PROVE FALSE
      OBVIOUS
    <3>2. CscQuiet
      BY <1>2, <3>1, CscTurns DEF CscCalls
    <3>3. Len(cscIn) < 4
      BY <3>2 DEF CscQuiet
    <3>4. QED  BY <1>1, <3>1, <3>3 DEF CscHostCan
  <2>2. CASE cscHost = "receive"
    <3>1. CscPhase /\ cscOut = <<>> /\ answered < NewestFrame
      BY <1>1, <1>2, <2>2, CscTurns DEF CscCalls, CscHostCan
    <3>2. CscSent \/ CscWorking
      <4>1. ~CscAnswered
        BY <3>1, Mail DEF CscAnswered
      <4>2. ~CscQuiet
        BY <1>2, <3>1 DEF CscQuiet
      <4>3. QED  BY <3>1, <4>1, <4>2 DEF CscPhase
    <3>3. CASE CscSent
      BY <1>3, <3>3, Mail DEF CscSent, CscSpuCan
    <3>4. CASE CscWorking
      BY <3>4 DEF CscWorking, CscSpuCan
    <3>5. QED  BY <3>2, <3>3, <3>4
  <2>3. CASE cscHost = "join"
    <3>1. CscLeaving /\ cscThread # "ended" /\ (cscPc = "exit" \/ cscIn # <<>>)
      BY <1>1, <1>2, <2>3, CscTurns DEF CscHostCan, CscRuns
    <3>2. cscPc # "exit"
      BY <1>1, <1>2, <1>3, <3>1 DEF CscHostCan, CscCalls
    <3>3. QED  BY <1>3, <3>1, <3>2 DEF CscLeaving, CscSpuCan
  <2>4. QED  BY <1>1, <2>1, <2>2, <2>3
<1>5. cscPc = "convert" => CscSpuCan
  <2>1. SUFFICES ASSUME cscPc = "convert", \A t \in CscTags : moving[t] = {}  PROVE CscSpuCan
    BY DEF CscSpuCan
  <2>2. line \in Nat /\ height \in Nat /\ line <= height
    BY <1>2, <2>1, Most DEF CscInv, CscTypeOK, LinesIn
  <2>3. line % 2 \in {0, 1} /\ (line + 1) % 2 \in {0, 1}
    BY <2>2
  <2>4. /\ moving[<<"tgi", line % 2>>] = {} /\ moving[<<"tgo", line % 2>>] = {}
        /\ moving[<<"tgo", (line + 1) % 2>>] = {}
    BY <2>1, <2>3, CscTagsAre
  <2>5. QED  BY <2>1, <2>2, <2>4 DEF CscSpuCan
<1>6. QED  BY <1>4, <1>5

LEMMA StepCscRuns ==
  ASSUME CscInv, CscRuns, [CscNext]_cscVars
  PROVE  CscRuns'
<1>0. CscTypeOK /\ CscCalls /\ (cscHost \in {"join", "joined"} => CscLeaving)
  BY CscTurns DEF CscInv
<1>1. CASE CscLoad
  BY <1>0, <1>1 DEF CscLoad, CscCalls, CscRuns, cscHostVars
<1>2. CASE CscDestroy
  <2>1. CscQuiet /\ cscHost = "idle"
    BY <1>0, <1>2, CscTurns DEF CscDestroy, NewestFrame
  <2>2. cscIn' # <<>>
    BY <1>2, <2>1, Mail DEF CscDestroy, CscQuiet
  <2>3. QED  BY <1>2, <2>2 DEF CscDestroy, CscRuns, cscSpuVars
<1>3. CASE CscFirst \/ CscTake
  <2>1. /\ cscPc' = IF Head(cscIn) = "STOP" THEN "exit" ELSE "fetch"
        /\ cscIn # <<>> /\ UNCHANGED <<cscHost, cscThread>>
    BY <1>3 DEF CscFirst, CscTake, cscHostVars
  <2>2. cscHost \in {"join", "joined"} => Head(cscIn) = "STOP"
    BY <1>0, <2>1, Mail DEF CscLeaving
  <2>3. QED  BY <2>1, <2>2 DEF CscRuns
<1>4. CASE CscSend
  BY <1>4 DEF CscSend, CscRuns, cscSpuVars
<1>5. CASE CscBoot \/ CscFetch \/ CscConvert \/ CscFinish \/ CscPost
  <2>1. UNCHANGED <<cscHost, cscThread, cscIn>> /\ cscPc # "exit" /\ cscPc' # "none"
    BY <1>5 DEF CscBoot, CscFetch, CscConvert, CscFinish, CscPost, cscHostVars
  <2>2. QED  BY <2>1 DEF CscRuns
<1>6. ASSUME NEW t \in CscTags, CscMoved(t)  PROVE CscRuns'
  BY <1>6 DEF CscMoved, CscRuns, cscHostVars, cscSpuVars
<1>7. CASE CscDraw \/ CscRun \/ CscReceive \/ CscReceived \/ UNCHANGED cscVars
  BY <1>7 DEF CscDraw, CscRun, CscReceive, CscReceived, cscVars, cscHostVars, cscSpuVars, CscRuns
<1>8. ASSUME NEW w \in Widths, CscUpdate(w)  PROVE CscRuns'
  BY <1>8 DEF CscUpdate, cscSpuVars, CscRuns
<1>9. CASE CscJoined \/ CscEnded
  BY <1>9 DEF CscJoined, CscEnded, cscHostVars, cscSpuVars, CscRuns
<1>10. QED
  BY <1>1, <1>2, <1>3, <1>4, <1>5, <1>6, <1>7, <1>8, <1>9 DEF CscNext, CscCaller, CscService

(* A caller of yuv2rgb that sends, waits for an answer or for the thread   *)
(* to end always has a step of the service to wait for, also after a STOP  *)
(* sent twice and whatever the order in which the commands complete; but a *)
(* thread that could not load the program has ended, and nobody answers.   *)
THEOREM CscNeverStops == CscSpec => []CscNeverStuck
<1>1. CscInit => CscInv /\ CscRuns
  BY CscStart DEF CscInit, CscRuns
<1>2. CscInv /\ CscRuns /\ [CscNext]_cscVars => CscInv' /\ CscRuns'
  BY CscStep, StepCscRuns
<1>3. CscInv /\ CscRuns => CscNeverStuck
  BY CscGoesOn
<1>4. QED  BY <1>1, <1>2, <1>3, PTL DEF CscSpec

-----------------------------------------------------------------------------
(* No command is for lines further down than that.                         *)
LEMMA StepCscAhead ==
  ASSUME CscInv, CscAhead, [CscNext]_cscVars
  PROVE  CscAhead'
<1> DEFINE Commands == {0, 1} \X (0 .. MostPairs + 1)
<1>1. /\ MostPairs \in Nat \ {0} /\ height \in Nat /\ height <= MostPairs /\ line \in Nat
      /\ flips \in {0, 1} /\ CscTypeOK /\ CscMoving
  BY Most DEF CscInv, CscTypeOK
<1>2. CASE CscFetch
  <2>1. \A s \in {0, 1} : <<flips, s>> \in Commands
    BY <1>1
  <2>2. \A t \in CscTags : moving'[t] \subseteq moving[t] \cup {<<flips, t[2]>>} /\ t[2] \in {0, 1}
    BY <1>2 DEF CscFetch, CscTags
  <2>3. QED  BY <2>1, <2>2 DEF CscAhead
<1>3. CASE CscConvert
  <2>1. PICK s \in {0, 1} : s = line % 2
    BY <1>1, Index
  <2>2. /\ moving'[<<"tgo", s>>] = moving[<<"tgo", s>>] \cup {<<flips, line>>}
        /\ moving'[<<"tgi", s>>] = moving[<<"tgi", s>>] \cup {<<flips, line + 2>>}
        /\ \A t \in CscTags \ {<<"tgi", s>>, <<"tgo", s>>} : moving'[t] = moving[t]
    <3>1. moving' = CscIssued(s)
      BY <1>3, <2>1 DEF CscConvert
    <3>2. QED  BY <1>1, <3>1, CscIssues
  <2>3. line < height
    BY <1>3 DEF CscConvert
  <2>4. <<flips, line>> \in Commands /\ <<flips, line + 2>> \in Commands
    BY <1>1, <2>3
  <2>5. <<"tgi", s>> \in CscTags /\ <<"tgo", s>> \in CscTags
    BY CscTagsAre
  <2>6. QED  BY <2>2, <2>4, <2>5 DEF CscAhead
<1>4. ASSUME NEW t \in CscTags, CscMoved(t)  PROVE CscAhead'
  <2>1. \E c \in {0, 1} \X Nat :
          moving'[t] = moving[t] \ {c} /\ \A u \in CscTags \ {t} : moving'[u] = moving[u]
    BY <1>1, <1>4, CscCompletes
  <2>2. \A u \in CscTags : moving'[u] \subseteq moving[u]
    BY <2>1
  <2>3. QED  BY <2>2 DEF CscAhead
<1>5. CASE UNCHANGED moving
  BY <1>5 DEF CscAhead
<1>6. QED
  BY <1>2, <1>3, <1>4, <1>5 DEF CscNext, CscCaller, CscService, CscDraw, CscRun, CscReceive,
     CscDestroy, CscUpdate, CscSend, CscReceived, CscJoined, CscLoad, CscEnded, CscBoot, CscFirst,
     CscTake, CscFinish, CscPost, cscVars, cscDmaVars

(* The parts of the count.                                                 *)
LEMMA CscParts ==
  ASSUME CscInv
  PROVE  /\ CscOneMessage \in Nat /\ CscOneMessage = MostPairs + 4 /\ MostPairs \in Nat
         /\ height \in Nat /\ height <= MostPairs /\ line \in Nat
         /\ cscPc = "convert" => line <= height
         /\ CscHostLeft \in Nat /\ CscThreadLeft \in Nat /\ CscMail \in Nat
         /\ CscPcLeft \in Nat
<1>1. /\ MostPairs \in Nat /\ height \in Nat /\ height <= MostPairs /\ line \in Nat
      /\ cscPc = "convert" => line <= height
  BY Most DEF CscInv, CscTypeOK, LinesIn
<1>2. CscOneMessage \in Nat /\ CscOneMessage = MostPairs + 4
  BY <1>1 DEF CscOneMessage
<1>3. CscHostLeft \in Nat /\ CscThreadLeft \in Nat /\ CscMail \in Nat
  BY <1>2 DEF CscHostLeft, CscThreadLeft, CscMail
<1>4. CscPcLeft \in Nat
  <2>1. CASE cscPc = "convert"
    BY <1>1, <2>1 DEF CscPcLeft
  <2>2. CASE cscPc \in {"none", "boot", "first", "fetch", "post", "wait", "exit"}
    BY <1>1, <2>2 DEF CscPcLeft
  <2>3. QED  BY <2>1, <2>2 DEF CscInv, CscTypeOK
<1>5. QED  BY <1>1, <1>2, <1>3, <1>4

(* What is counted in a step of the library and its thread,                *)
LEMMA CscHostFewer ==
  ASSUME CscInv, CscSend \/ CscReceived \/ CscJoined \/ CscLoad \/ CscEnded
  PROVE  CscStepsLeft' < CscStepsLeft
<1>1. /\ CscOneMessage \in Nat /\ CscHostLeft \in Nat /\ CscThreadLeft \in Nat
      /\ CscMail \in Nat /\ CscPcLeft \in Nat
      /\ CscOneMessage' = CscOneMessage
  BY CscParts DEF CscOneMessage
<1>2. CASE CscSend
  <2>1. cscIn = <<>>
    BY <1>2, CscTurns DEF CscSend, CscInv, CscCalls, CscQuiet
  <2>2. CscMail = 0 /\ CscMail' = CscOneMessage
    <3>1. cscIn' # <<>>
      BY <1>2, <2>1, Mail DEF CscSend, CscInv, CscTypeOK
    <3>2. QED  BY <1>1, <2>1, <3>1 DEF CscMail
  <2>3. CscHostLeft = CscOneMessage + 1 /\ CscHostLeft' = 0
    BY <1>2 DEF CscSend, CscHostLeft
  <2>4. CscThreadLeft' = CscThreadLeft /\ CscPcLeft' = CscPcLeft
    BY <1>2 DEF CscSend, CscThreadLeft, CscPcLeft, cscSpuVars
  <2>5. QED  BY <1>1, <2>2, <2>3, <2>4 DEF CscStepsLeft
<1>3. CASE CscReceived \/ CscJoined
  <2>1. CscHostLeft = 1 /\ CscHostLeft' = 0
    BY <1>3 DEF CscReceived, CscJoined, CscHostLeft
  <2>2. CscThreadLeft' = CscThreadLeft /\ CscPcLeft' = CscPcLeft /\ CscMail' = CscMail
    BY <1>1, <1>3 DEF CscReceived, CscJoined, CscThreadLeft, CscPcLeft, CscMail, cscSpuVars
  <2>3. QED  BY <1>1, <2>1, <2>2 DEF CscStepsLeft
<1>4. CASE CscLoad
  <2>1. cscPc = "none"
    BY <1>4 DEF CscLoad, CscInv, CscCalls
  <2>2. CscThreadLeft = 2 /\ CscPcLeft = 3
    BY <1>4, <2>1 DEF CscLoad, CscThreadLeft, CscPcLeft
  <2>3. \/ CscThreadLeft' = 1 /\ CscPcLeft' = 2
        \/ CscThreadLeft' = 0 /\ CscPcLeft' = 3
    BY <1>4, <2>1 DEF CscLoad, CscThreadLeft, CscPcLeft
  <2>4. CscHostLeft' = CscHostLeft /\ CscMail' = CscMail
    BY <1>1, <1>4 DEF CscLoad, CscHostLeft, CscMail, cscHostVars
  <2>5. QED  BY <1>1, <2>2, <2>3, <2>4 DEF CscStepsLeft
<1>5. CASE CscEnded
  <2>1. CscThreadLeft = 1 /\ CscThreadLeft' = 0
    BY <1>5 DEF CscEnded, CscThreadLeft
  <2>2. CscHostLeft' = CscHostLeft /\ CscMail' = CscMail /\ CscPcLeft' = CscPcLeft
    BY <1>1, <1>5 DEF CscEnded, CscHostLeft, CscMail, CscPcLeft, cscHostVars, cscSpuVars
  <2>3. QED  BY <1>1, <2>1, <2>2 DEF CscStepsLeft
<1>6. QED  BY <1>2, <1>3, <1>4, <1>5

(* and of the program.                                                     *)
LEMMA CscSpuFewer ==
  ASSUME CscInv, CscBoot \/ CscFirst \/ CscTake \/ CscFetch \/ CscConvert \/ CscFinish \/ CscPost
  PROVE  CscStepsLeft' < CscStepsLeft
<1>1. /\ CscOneMessage \in Nat /\ CscHostLeft \in Nat /\ CscThreadLeft \in Nat
      /\ CscMail \in Nat /\ CscPcLeft \in Nat
      /\ CscOneMessage = MostPairs + 4 /\ MostPairs \in Nat
      /\ CscOneMessage' = CscOneMessage
      /\ line \in Nat /\ height \in Nat /\ height <= MostPairs
  BY CscParts DEF CscOneMessage
<1>2. CscThreadLeft' = CscThreadLeft /\ CscHostLeft' = CscHostLeft
  BY <1>1 DEF CscThreadLeft, CscHostLeft, CscBoot, CscFirst, CscTake, CscFetch, CscConvert,
       CscFinish, CscPost, cscHostVars
<1>3. CASE CscBoot
  <2>1. CscPcLeft = 2 /\ CscPcLeft' = 1 /\ CscMail' = CscMail
    BY <1>1, <1>3 DEF CscBoot, CscPcLeft, CscMail
  <2>2. QED  BY <1>1, <1>2, <2>1 DEF CscStepsLeft
<1>4. CASE CscFirst \/ CscTake
  <2>1. /\ cscIn # <<>> /\ cscIn' = Tail(cscIn) /\ cscPc \in {"first", "wait"}
        /\ cscPc' = IF Head(cscIn) = "STOP" THEN "exit" ELSE "fetch"
    BY <1>4 DEF CscFirst, CscTake
  <2>2. CscMail = CscOneMessage /\ CscPcLeft = 1
    BY <2>1 DEF CscMail, CscPcLeft
  <2>3. CASE Head(cscIn) = "STOP"
    <3>1. CscPcLeft' = 0 /\ (CscMail' = 0 \/ CscMail' = CscOneMessage)
      BY <1>1, <2>1, <2>3 DEF CscPcLeft, CscMail
    <3>2. QED  BY <1>1, <1>2, <2>2, <3>1 DEF CscStepsLeft
  <2>4. CASE Head(cscIn) # "STOP"
    <3>1. cscIn' = <<>>
      <4>1. CscPhase
        BY <2>1, <2>4, CscTurns, Mail DEF CscInv, CscLeaving
      <4>2. CscSent
        BY <2>1, <4>1, CscTurns DEF CscInv
      <4>3. QED  BY <2>1, <4>2, Mail DEF CscSent
    <3>2. CscPcLeft' = CscOneMessage /\ CscMail' = 0
      BY <1>1, <2>1, <2>4, <3>1 DEF CscPcLeft, CscMail
    <3>3. QED  BY <1>1, <1>2, <2>2, <3>2 DEF CscStepsLeft
  <2>5. QED  BY <2>3, <2>4
<1>5. CASE CscFinish
  <2>1. CscPcLeft = 3 /\ CscPcLeft' = 2 /\ CscMail' = CscMail
    BY <1>1, <1>5 DEF CscFinish, CscPcLeft, CscMail
  <2>2. QED  BY <1>1, <1>2, <2>1 DEF CscStepsLeft
<1>6. CASE CscPost
  <2>1. CscPcLeft = 2 /\ CscPcLeft' = 1 /\ CscMail' = CscMail
    BY <1>1, <1>6 DEF CscPost, CscPcLeft, CscMail
  <2>2. QED  BY <1>1, <1>2, <2>1 DEF CscStepsLeft
<1>7. CASE CscFetch
  <2>1. CscPcLeft = MostPairs + 4 /\ CscPcLeft' = height + 3 /\ CscMail' = CscMail
    BY <1>1, <1>7 DEF CscFetch, CscPcLeft, CscMail, cscHostVars
  <2>2. QED  BY <1>1, <1>2, <2>1 DEF CscStepsLeft
<1>8. CASE CscConvert
  <2>1. /\ CscPcLeft = height - line + 3 /\ CscPcLeft' = height - (line + 1) + 3
        /\ CscMail' = CscMail /\ line < height
    BY <1>1, <1>8 DEF CscConvert, CscPcLeft, CscMail, cscHostVars
  <2>2. QED  BY <1>1, <1>2, <2>1 DEF CscStepsLeft
<1>9. QED  BY <1>3, <1>4, <1>5, <1>6, <1>7, <1>8

(* A command that completes leaves the steps as they are.                  *)
LEMMA CscArrivalNearer ==
  ASSUME CscInv, NEW t \in CscTags, CscMoved(t)
  PROVE  CscNearer
<1>1. CscStepsLeft' = CscStepsLeft
  <2>1. UNCHANGED <<cscHost, cscThread, cscIn, cscPc, line, height>>
    BY DEF CscMoved, cscHostVars, cscSpuVars
  <2>2. CscOneMessage' = CscOneMessage
    BY DEF CscOneMessage
  <2>3. QED
    BY <2>1, <2>2 DEF CscStepsLeft, CscHostLeft, CscThreadLeft, CscMail, CscPcLeft
<1>2. \E c \in moving[t] : moving' = [moving EXCEPT ![t] = @ \ {c}]
  BY DEF CscMoved
<1>3. QED  BY <1>1, <1>2 DEF CscNearer

(* Every step of the yuv2rgb service, its program or its DMA takes one of  *)
(* the steps left, or one command away from those under way, which are of  *)
(* finitely many; and while the caller is in a call there is no other: it  *)
(* waits for no more than its messages and the highest frame account for.  *)
THEOREM CscWaitsEnd == CscSpec => CscWaitsShorten
<1>1. CscInit => CscInv /\ CscAhead
  BY CscStart DEF CscInit, CscAhead
<1>2. CscInv /\ CscAhead /\ [CscNext]_cscVars => CscInv' /\ CscAhead'
  BY CscStep, StepCscAhead
<1>3. CscInv /\ CscAhead /\ [CscNext]_cscVars =>
        [CscService \/ cscHost \in {"send", "receive", "join"} =>
           CscStepsLeft \in Nat /\ CscAhead /\ CscNearer]_cscVars
  <2>1. SUFFICES ASSUME CscInv, CscAhead, CscNext,
                        CscService \/ cscHost \in {"send", "receive", "join"}
                 PROVE  CscStepsLeft \in Nat /\ CscNearer
    OBVIOUS
  <2>2. CscStepsLeft \in Nat
    <3>1. /\ CscHostLeft \in Nat /\ CscThreadLeft \in Nat /\ CscMail \in Nat
          /\ CscPcLeft \in Nat
      BY <2>1, CscParts
    <3>2. QED  BY <3>1 DEF CscStepsLeft
  <2>3. CscService
    BY <2>1 DEF CscNext, CscCaller, CscDraw, CscRun, CscReceive, CscDestroy, CscUpdate
  <2>4. CASE \E t \in CscTags : CscMoved(t)
    BY <2>1, <2>2, <2>4, CscArrivalNearer
  <2>5. CASE ~\E t \in CscTags : CscMoved(t)
    <3>1. CscStepsLeft' < CscStepsLeft
      BY <2>1, <2>3, <2>5, CscHostFewer, CscSpuFewer DEF CscService
    <3>2. QED  BY <2>2, <3>1 DEF CscNearer
  <2>6. QED  BY <2>4, <2>5
<1>4. QED  BY <1>1, <1>2, <1>3, PTL DEF CscSpec, CscWaitsShorten

-----------------------------------------------------------------------------
LEMMA RectParts ==
  ASSUME RectInv
  PROVE  /\ Highest \in Nat /\ RectOneMessage = Highest + 5 /\ RectOneMessage' = RectOneMessage
         /\ RectHostLeft \in Nat /\ RectThreadLeft \in Nat /\ RectMail \in Nat
         /\ RectSpuLeft \in Nat /\ RectStepsLeft \in Nat
<1>1. Highest \in Nat /\ RectOneMessage = Highest + 5 /\ RectOneMessage' = RectOneMessage
  BY Tallest DEF RectOneMessage
<1>2. RectHostLeft \in Nat /\ RectThreadLeft \in Nat /\ RectMail \in Nat
  BY <1>1 DEF RectHostLeft, RectThreadLeft, RectMail
<1>3. RectSpuLeft \in Nat
  <2>1. CASE spu = "draw"
    <3>1. /\ Groups \in Nat /\ data.height % Lanes \in Nat /\ group \in Nat
          /\ group <= Groups + (data.height % Lanes)
      BY <2>1, RectGroups DEF RectInv, RectRows
    <3>2. QED  BY <2>1, <3>1 DEF RectSpuLeft
  <2>2. CASE spu # "draw"
    BY <1>1, <2>2 DEF RectSpuLeft
  <2>3. QED  BY <2>1, <2>2
<1>4. QED  BY <1>1, <1>2, <1>3 DEF RectStepsLeft

LEMMA RectFewer ==
  ASSUME RectInv, ServiceStep, \A b \in Buffers : ~Arrive(b)
  PROVE  RectStepsLeft' < RectStepsLeft
<1>1. /\ Highest \in Nat /\ RectOneMessage = Highest + 5 /\ RectOneMessage' = RectOneMessage
      /\ RectHostLeft \in Nat /\ RectThreadLeft \in Nat /\ RectMail \in Nat /\ RectSpuLeft \in Nat
  BY RectParts
<1>2. /\ Groups \in Nat /\ data.height % Lanes \in Nat /\ group \in Nat
      /\ Groups + (data.height % Lanes) <= Highest
  BY RectGroups DEF RectInv
<1>3. CASE ReceiveReady \/ Joined
  <2>1. RectHostLeft = 1 /\ RectHostLeft' = 0
    BY <1>3 DEF ReceiveReady, Joined, RectHostLeft
  <2>2. RectThreadLeft' = RectThreadLeft /\ RectMail' = RectMail /\ RectSpuLeft' = RectSpuLeft
    BY <1>1, <1>3 DEF ReceiveReady, Joined, RectThreadLeft, RectMail, RectSpuLeft, Groups, spuVars
  <2>3. QED  BY <1>1, <2>1, <2>2 DEF RectStepsLeft
<1>4. CASE Load
  <2>1. spu = "none"
    BY <1>4 DEF Load, RectInv, RectCalls
  <2>2. RectThreadLeft = 2 /\ RectSpuLeft = 3
    BY <1>4, <2>1 DEF Load, RectThreadLeft, RectSpuLeft
  <2>3. \/ RectThreadLeft' = 1 /\ RectSpuLeft' = 2
        \/ RectThreadLeft' = 0 /\ RectSpuLeft' = 3
    BY <1>4, <2>1 DEF Load, RectThreadLeft, RectSpuLeft
  <2>4. RectHostLeft' = RectHostLeft /\ RectMail' = RectMail
    BY <1>1, <1>4 DEF Load, RectHostLeft, RectMail, hostVars
  <2>5. QED  BY <1>1, <2>2, <2>3, <2>4 DEF RectStepsLeft
<1>5. CASE Ended
  <2>1. RectThreadLeft = 1 /\ RectThreadLeft' = 0
    BY <1>5 DEF Ended, RectThreadLeft
  <2>2. RectHostLeft' = RectHostLeft /\ RectMail' = RectMail /\ RectSpuLeft' = RectSpuLeft
    BY <1>1, <1>5 DEF Ended, RectHostLeft, RectMail, RectSpuLeft, Groups, hostVars, spuVars
  <2>3. QED  BY <1>1, <2>1, <2>2 DEF RectStepsLeft
<1>6. CASE Take
  <2>1. /\ spu = "wait" /\ spu' = "fetch" /\ inbox # <<>> /\ inbox' = Tail(inbox)
        /\ RectHostLeft' = RectHostLeft /\ RectThreadLeft' = RectThreadLeft
    BY <1>6 DEF Take, RectHostLeft, RectThreadLeft, hostVars
  <2>2. RectSpuLeft = 1 /\ RectSpuLeft' = Highest + 4
    BY <1>1, <2>1 DEF RectSpuLeft
  <2>3. inbox \in {<<"RUN">>, <<"STOP">>, <<"RUN", "STOP">>}
    BY <2>1, RectWhere DEF RectInv
  <2>4. \/ RectMail = RectOneMessage /\ RectMail' = 0
        \/ RectMail = RectOneMessage + RectOneMessage /\ RectMail' = RectOneMessage
    <3>1. CASE inbox = <<"RUN", "STOP">>
      <4>1. inbox' = <<"STOP">>
        BY <2>1, <3>1, Mailed
      <4>2. RectMail = 2 * RectOneMessage /\ RectMail' = RectOneMessage
        BY <1>1, <3>1, <4>1, Mailed DEF RectMail
      <4>3. QED  BY <1>1, <4>2
    <3>2. CASE inbox \in {<<"RUN">>, <<"STOP">>}
      <4>1. inbox' = <<>>
        BY <2>1, <3>2, Mailed
      <4>2. RectMail = RectOneMessage /\ RectMail' = 0
        BY <1>1, <3>2, <4>1, Mailed DEF RectMail
      <4>3. QED  BY <4>2
    <3>3. QED  BY <2>3, <3>1, <3>2
  <2>5. QED  BY <1>1, <2>1, <2>2, <2>4 DEF RectStepsLeft
<1>7. CASE Post \/ FetchFirst \/ DrawGroup \/ DrawRest \/ Finish
  <2>1. RectHostLeft' = RectHostLeft /\ RectThreadLeft' = RectThreadLeft /\ RectMail' = RectMail
    BY <1>1, <1>7 DEF Post, FetchFirst, DrawGroup, DrawRest, Finish, RectHostLeft, RectThreadLeft,
         RectMail, hostVars
  <2>2. RectSpuLeft' < RectSpuLeft /\ RectSpuLeft' \in Nat
    <3>1. CASE Post
      BY <3>1 DEF Post, RectSpuLeft
    <3>2. CASE FetchFirst
      <4>1. RectSpuLeft = Highest + 4
        BY <1>1, <3>2 DEF FetchFirst, RectSpuLeft
      <4>2. RectSpuLeft' = Groups + (data.height % Lanes) - 0 + 3
        BY <1>2, <3>2 DEF FetchFirst, RectSpuLeft, Groups
      <4>3. QED  BY <1>1, <1>2, <4>1, <4>2
    <3>3. CASE DrawGroup \/ DrawRest
      <4>1. RectSpuLeft = Groups + (data.height % Lanes) - group + 3
        BY <3>3 DEF DrawGroup, DrawRest, RectSpuLeft
      <4>2. RectSpuLeft' = Groups + (data.height % Lanes) - (group + 1) + 3
        BY <1>2, <3>3 DEF DrawGroup, DrawRest, RectSpuLeft, Groups
      <4>3. group < Groups + (data.height % Lanes)
        BY <1>2, <3>3 DEF DrawGroup, DrawRest, Groups
      <4>4. QED  BY <1>2, <4>1, <4>2, <4>3
    <3>4. CASE Finish
      <4>1. RectSpuLeft = 3
        <5>1. spu = "draw" /\ group = Groups + (data.height % Lanes)
          BY <3>4 DEF Finish, Groups
        <5>2. QED  BY <1>2, <5>1 DEF RectSpuLeft
      <4>2. RectSpuLeft' \in {0, 2}
        BY <3>4 DEF Finish, RectSpuLeft
      <4>3. QED  BY <4>1, <4>2
    <3>5. QED  BY <1>7, <3>1, <3>2, <3>3, <3>4
  <2>3. RectHostLeft + RectThreadLeft + RectMail \in Nat
    BY <1>1
  <2>4. (RectHostLeft + RectThreadLeft + RectMail)' = RectHostLeft + RectThreadLeft + RectMail
    BY <2>1
  <2>5. QED  BY <1>1, <2>2, <2>3, <2>4 DEF RectStepsLeft
<1>8. QED  BY <1>3, <1>4, <1>5, <1>6, <1>7 DEF ServiceStep

LEMMA RectArrivalNearer ==
  ASSUME RectInv, NEW b \in Buffers, Arrive(b)
  PROVE  RectNearer
<1>1. UNCHANGED <<host, thread, inbox, spu, data, group>>
  BY DEF Arrive, hostVars, spuVars
<1>2. RectStepsLeft' = RectStepsLeft
  <2>1. RectHostLeft' = RectHostLeft /\ RectThreadLeft' = RectThreadLeft /\ RectMail' = RectMail
    BY <1>1, RectParts DEF RectHostLeft, RectThreadLeft, RectMail
  <2>2. RectSpuLeft' = RectSpuLeft
    BY <1>1 DEF RectSpuLeft, Groups
  <2>3. QED  BY <2>1, <2>2 DEF RectStepsLeft
<1>3. \E y \in underWay[b] : underWay' = [underWay EXCEPT ![b] = @ \ {y}]
  BY DEF Arrive
<1>4. QED  BY <1>2, <1>3 DEF RectNearer

(* Every step of the draw_rect service takes one of the steps left, which  *)
(* the messages and the height of the rectangle bound, or one command away *)
(* from those under way; and while the caller waits there is no other      *)
(* step: it waits in no loop.                                              *)
THEOREM RectWaitsEnd == RectSpec => RectWaitsShorten
<1>1. RectInit => RectInv
  BY RectStart
<1>2. RectInv /\ [RectNext]_rectVars => RectInv'
  BY RectStep
<1>3. RectInv /\ [RectNext]_rectVars =>
        [ServiceStep \/ host \in {"receive", "join"} => RectStepsLeft \in Nat /\ RectNearer]_rectVars
  <2>1. SUFFICES ASSUME RectInv, RectNext, ServiceStep \/ host \in {"receive", "join"}
                 PROVE  RectStepsLeft \in Nat /\ RectNearer
    OBVIOUS
  <2>2. ServiceStep
    BY <2>1 DEF RectNext, CallerStep, Receive, SendRun, Destroy, Prepare
  <2>3. RectStepsLeft \in Nat
    BY <2>1, RectParts
  <2>4. RectNearer
    <3>1. CASE \E b \in Buffers : Arrive(b)
      BY <2>1, <3>1, RectArrivalNearer
    <3>2. CASE \A b \in Buffers : ~Arrive(b)
      BY <2>1, <2>2, <3>2, RectFewer DEF RectNearer
    <3>3. QED  BY <3>1, <3>2
  <2>5. QED  BY <2>3, <2>4
<1>4. QED  BY <1>1, <1>2, <1>3, PTL DEF RectSpec, RectWaitsShorten

-----------------------------------------------------------------------------
LEMMA StepLoaderRuns ==
  ASSUME LoaderInv, LoaderRuns, [LoaderNext]_loaderVars
  PROVE  LoaderRuns'
<1> USE DEF LoaderInv, LoaderResting, LoaderFetched, LoaderTalks, LoaderRuns
<1>1. CASE StartLoader BY <1>1 DEF StartLoader
<1>2. CASE ReadGreeting BY <1>2 DEF ReadGreeting
<1>3. CASE ReadResult BY <1>3 DEF ReadResult
<1>4. CASE FreeAll BY <1>4 DEF FreeAll
<1>5. CASE RunLoader BY <1>5 DEF RunLoader
<1>6. CASE LoaderEnds BY <1>6 DEF LoaderEnds
<1>7. CASE FetchArgs \/ FetchProgram \/ Greet \/ SendBack
  BY <1>7 DEF FetchArgs, FetchProgram, Greet, SendBack
<1>8. CASE UNCHANGED loaderVars BY <1>8 DEF loaderVars
<1>9. QED
  BY <1>1, <1>2, <1>3, <1>4, <1>5, <1>6, <1>7, <1>8 DEF LoaderNext

(* Where main and the program are leaves one of them a step.               *)
LEMMA LoaderGoesOn ==
  ASSUME LoaderInv, LoaderRuns
  PROVE  LoaderNeverStuck
<1> USE LoaderAssumption DEF LoaderInv, LoaderRuns, LoaderCan
<1>1. SUFFICES ASSUME main \in {"greeting", "result"}, ~(loaderThread = "ended" /\ spe = "none")
               PROVE  LoaderCan
  BY DEF LoaderNeverStuck
<1>2. CASE spe = "none"
  BY <1>1, <1>2 DEF LoaderResting
<1>3. CASE spe \in {"args", "data", "greet"}
  BY <1>1, <1>3 DEF LoaderResting, LoaderFetched
<1>4. CASE spe \in {"call", "exit"}
  BY <1>1, <1>4 DEF LoaderTalks
<1>5. QED  BY <1>2, <1>3, <1>4 DEF LoaderTalks

LEMMA LoaderFewer ==
  ASSUME LoaderInv, LoaderRuns, LoaderNext
  PROVE  LoaderStepsLeft \in 0 .. 11 /\ LoaderStepsLeft' < LoaderStepsLeft
<1>1. /\ LoaderMainLeft \in 0 .. 6 /\ LoaderSpeLeft \in 0 .. 5 /\ LoaderThreadLeft \in {0, 1, 2}
      /\ LoaderMainLeft > 3 => LoaderThreadLeft = 0
  <2>1. /\ main = "start" => LoaderMainLeft = 6
        /\ main # "start" => LoaderMainLeft \in 0 .. 3
    <3>1. CASE main = "start" BY <3>1 DEF LoaderMainLeft
    <3>2. CASE main # "start" BY <3>2 DEF LoaderMainLeft
    <3>3. QED  BY <3>1, <3>2
  <2>2. LoaderSpeLeft \in 0 .. 5
    BY DEF LoaderSpeLeft
  <2>3. LoaderThreadLeft \in {0, 1, 2}
    BY DEF LoaderThreadLeft
  <2>4. main = "start" => LoaderThreadLeft = 0
    BY DEF LoaderThreadLeft, LoaderRuns
  <2>5. QED  BY <2>1, <2>2, <2>3, <2>4
<1>2. LoaderStepsLeft \in 0 .. 11
  BY <1>1 DEF LoaderStepsLeft
<1>3. CASE StartLoader
  <2>1. LoaderMainLeft = 6 /\ LoaderThreadLeft = 0 /\ LoaderSpeLeft' = LoaderSpeLeft
    BY <1>3 DEF StartLoader, LoaderRuns, LoaderMainLeft, LoaderSpeLeft, LoaderThreadLeft
  <2>2. \/ LoaderMainLeft' = 3 /\ LoaderThreadLeft' = 2
        \/ LoaderMainLeft' = 0 /\ LoaderThreadLeft' = LoaderThreadLeft
    BY <1>3 DEF StartLoader, LoaderMainLeft, LoaderThreadLeft
  <2>3. QED  BY <1>1, <1>2, <2>1, <2>2 DEF LoaderStepsLeft
<1>4. CASE ReadGreeting \/ ReadResult
  <2>1. LoaderMainLeft' = LoaderMainLeft - 1
    BY <1>4 DEF ReadGreeting, ReadResult, LoaderMainLeft
  <2>2. LoaderSpeLeft' = LoaderSpeLeft /\ LoaderThreadLeft' = LoaderThreadLeft
    BY <1>4 DEF ReadGreeting, ReadResult, LoaderSpeLeft, LoaderThreadLeft
  <2>3. QED  BY <1>1, <1>2, <2>1, <2>2 DEF LoaderStepsLeft
<1>5. CASE FreeAll
  <2>1. LoaderMainLeft = 1 /\ LoaderMainLeft' = 0 /\ LoaderThreadLeft' = 0
    BY <1>5 DEF FreeAll, LoaderMainLeft, LoaderThreadLeft
  <2>2. LoaderSpeLeft' = LoaderSpeLeft
    BY <1>5 DEF FreeAll, LoaderSpeLeft
  <2>3. LoaderStepsLeft' = LoaderSpeLeft
    BY <1>1, <2>1, <2>2 DEF LoaderStepsLeft
  <2>4. LoaderStepsLeft > LoaderSpeLeft
    BY <1>1, <2>1 DEF LoaderStepsLeft
  <2>5. QED  BY <1>1, <1>2, <2>3, <2>4
<1>6. CASE RunLoader
  <2>1. LoaderThreadLeft = 2 /\ LoaderSpeLeft = 5 /\ LoaderMainLeft' = LoaderMainLeft
    BY <1>6 DEF RunLoader, LoaderMainLeft, LoaderThreadLeft, LoaderSpeLeft, LoaderInv, LoaderResting
  <2>2. \/ LoaderThreadLeft' = 1 /\ LoaderSpeLeft' = 4
        \/ LoaderThreadLeft' = 0 /\ LoaderSpeLeft' = 5
    BY <1>6 DEF RunLoader, LoaderThreadLeft, LoaderSpeLeft, LoaderInv, LoaderResting
  <2>3. QED  BY <1>1, <1>2, <2>1, <2>2 DEF LoaderStepsLeft
<1>7. CASE LoaderEnds
  <2>1. LoaderThreadLeft = 1 /\ LoaderThreadLeft' = 0 /\ LoaderMainLeft' = LoaderMainLeft
    BY <1>7 DEF LoaderEnds, LoaderMainLeft, LoaderThreadLeft
  <2>2. LoaderSpeLeft' = LoaderSpeLeft
    BY <1>7 DEF LoaderEnds, LoaderSpeLeft
  <2>3. QED  BY <1>1, <1>2, <2>1, <2>2 DEF LoaderStepsLeft
<1>8. CASE FetchArgs \/ FetchProgram \/ Greet \/ SendBack
  <2>1. LoaderSpeLeft' = LoaderSpeLeft - 1
    BY <1>8 DEF FetchArgs, FetchProgram, Greet, SendBack, LoaderSpeLeft
  <2>2. LoaderMainLeft' = LoaderMainLeft /\ LoaderThreadLeft' = LoaderThreadLeft
    BY <1>8 DEF FetchArgs, FetchProgram, Greet, SendBack, LoaderMainLeft, LoaderThreadLeft
  <2>3. QED  BY <1>1, <1>2, <2>1, <2>2 DEF LoaderStepsLeft
<1>9. QED
  BY <1>3, <1>4, <1>5, <1>6, <1>7, <1>8 DEF LoaderNext

(* While main of loader.c waits for one of the two messages, the thread or *)
(* the program has a step to take, unless spe_loader could not be loaded;  *)
(* and a whole run of the example, from the file to the end of the         *)
(* process, is of 11 steps at most, in whatever order the sides take them. *)
THEOREM LoaderEndsSoon == LoaderSpec => []LoaderNeverStuck /\ LoaderWaitsShorten
<1>1. LoaderInit => LoaderInv /\ LoaderRuns
  BY LoaderStarts DEF LoaderInit, LoaderRuns
<1>2. LoaderInv /\ LoaderRuns /\ [LoaderNext]_loaderVars => LoaderInv' /\ LoaderRuns'
  BY LoaderStep, StepLoaderRuns
<1>3. LoaderInv /\ LoaderRuns => LoaderNeverStuck
  BY LoaderGoesOn
<1>4. LoaderInv /\ LoaderRuns /\ [LoaderNext]_loaderVars =>
        [LoaderNext => LoaderStepsLeft \in 0 .. 11 /\ LoaderStepsLeft' < LoaderStepsLeft]_loaderVars
  <2>1. SUFFICES ASSUME LoaderInv, LoaderRuns, LoaderNext
                 PROVE  LoaderStepsLeft \in 0 .. 11 /\ LoaderStepsLeft' < LoaderStepsLeft
    OBVIOUS
  <2>2. QED  BY <2>1, LoaderFewer
<1>5. QED  BY <1>1, <1>2, <1>3, <1>4, PTL DEF LoaderSpec, LoaderWaitsShorten
=============================================================================
