----------------------------- MODULE RowFilter ------------------------------
(***************************************************************************)
(* The vertical filter of the scaler: initHFilter                          *)
(* (spu-medialib/spu/include/spu_scaler_argb.h) computes for every row of  *)
(* the picture shown which two rows of the source it is mixed from, in     *)
(* tables the frame loop of spu_yuv2argb_scaler.c then fetches by, and     *)
(* computes them again, over the old ones, when an UPDATE brings other     *)
(* heights.                                                                *)
(*                                                                         *)
(* Row i is at i * (srcH/2 - 1) / (dstH/2 - 1): row is its whole part, as  *)
(* hfilterpos0 has it, and part / (dstH/2 - 1) the weight of the row after *)
(* (w1).  The arithmetic is that of float: a position that is whole may    *)
(* come out as one less and a weight of almost one.                        *)
(***************************************************************************)
EXTENDS Integers

CONSTANTS
  MaxHeight, \* MAXHEIGHT, the greatest height the program is said to take
  Heights,   \* heights of the source and of the picture
  NoRow      \* an entry that was never computed, or of which nothing is known

ASSUME FilterAssumption ==
  /\ MaxHeight \in Nat
  /\ Heights \subseteq 4 .. MaxHeight
  /\ NoRow \notin [row: Nat, part: Nat]

VARIABLES
  srcH, dstH, \* iargs, as the program has fetched it
  table,      \* what initHFilter computes: "dmapos" or "hfilterpos"
  filled,     \* i, the entry of it that is next
  rows,       \* hfilterpos0, with the weight
  past,       \* history: the tables that were written past their end
  srcTop,     \* history: the greatest srcH
  dstTop      \* and the greatest dstH so far

filterVars == <<srcH, dstH, table, filled, rows, past, srcTop, dstTop>>

Half(height) == height \div 2

(* The last entry of each table: dmapos stands for dmacromapos too, and    *)
(* hfilterpos for both of its kind.                                        *)
Last == [weightHfilter |-> MaxHeight, dmapos |-> MaxHeight + 1,
         hfilterpos |-> MaxHeight + 1]

Beyond(tables, i) == {t \in tables : i > Last[t]}

Unknown == [i \in 0 .. MaxHeight |-> NoRow]

FilterInit ==
  /\ srcH \in Heights /\ dstH \in Heights
  /\ table = "dmapos" /\ filled = 1
  /\ rows = Unknown
  /\ past = {}
  /\ srcTop = srcH /\ dstTop = dstH

(* One turn of the first loop, over rows of the source.  What lies behind  *)
(* a table on the stack, the compiler decides: with a write past its end   *)
(* nothing is known of the tables any more, nor of what they do later.     *)
FillOffset ==
  /\ table = "dmapos"
  /\ past' = past \cup Beyond({"dmapos"}, filled)
  /\ rows' = IF past' = {} THEN rows ELSE Unknown
  /\ \/ /\ filled < srcH + 3
        /\ filled' = filled + 1
        /\ table' = table
     \/ /\ filled = srcH + 3
        /\ filled' = 0
        /\ table' = "hfilterpos"
  /\ UNCHANGED <<srcH, dstH, srcTop, dstTop>>

(* Mutant of Position: the scale is the ratio of the heights.              *)
PositionOfRatio(i, x) == x.row * Half(dstH) + x.part = i * Half(srcH)

(* i*scale                                                                 *)
Position(i, x) == x.row * (Half(dstH) - 1) + x.part = i * (Half(srcH) - 1)

(* One turn of the second, over rows of the picture.                       *)
FillRow ==
  /\ table = "hfilterpos" /\ filled < dstH + 4
  /\ past' = past \cup Beyond({"weightHfilter", "hfilterpos"}, filled)
  /\ IF past' = {}
     THEN \E x \in [row: 0 .. filled * Half(srcH), part: 0 .. Half(dstH) - 1] :
            Position(filled, x) /\ rows' = [rows EXCEPT ![filled] = x]
     ELSE rows' = Unknown
  /\ filled' = filled + 1
  /\ UNCHANGED <<srcH, dstH, table, srcTop, dstTop>>

Complete == table = "hfilterpos" /\ filled = dstH + 4

Greater(a, b) == IF a > b THEN a ELSE b

(* UPDATE between two frames.                                              *)
Update ==
  /\ Complete
  /\ srcH' \in Heights /\ dstH' \in Heights
  /\ table' = "dmapos" /\ filled' = 1
  /\ srcTop' = Greater(srcTop, srcH') /\ dstTop' = Greater(dstTop, dstH')
  /\ UNCHANGED <<rows, past>>

FilterNext == FillOffset \/ FillRow \/ Update

FilterSpec == FilterInit /\ [][FilterNext]_filterVars

-----------------------------------------------------------------------------
FilterTypeOK ==
  /\ srcH \in Heights /\ dstH \in Heights
  /\ table \in {"dmapos", "hfilterpos"}
  /\ filled \in IF table = "dmapos" THEN 1 .. srcH + 3 ELSE 0 .. dstH + 4
  /\ rows \in [0 .. MaxHeight -> [row: Nat, part: Nat] \cup {NoRow}]
  /\ past \subseteq {"weightHfilter", "dmapos", "hfilterpos"}
  /\ srcTop \in Heights /\ dstTop \in Heights

(* Row i is mixed from rows of a plane of so many rows, except for one     *)
(* after it of which it takes nothing.                                     *)
Inside(i, height) ==
  /\ rows[i].row < height
  /\ rows[i].row + 1 < height \/ rows[i].part = 0

(* The tables are written past their end by every height of a source above *)
(* MAXHEIGHT - 2 and of a picture above MAXHEIGHT - 3, which the program   *)
(* takes though it cannot, and by no other.  Up to those, with the tables  *)
(* complete, also over those of a larger picture, no row of chroma is made *)
(* from what lies beyond its plane, whatever the heights, and no row of Y  *)
(* when the picture is not scaled down; and the lines fetched ahead, for   *)
(* two rows more than there are, have an offset in dmapos, which ends at   *)
(* srcH + 3 (initHFilter; spu_yuv2argb_scaler.c, its tables and the gets   *)
(* of the frame loop).                                                     *)
RowsInside ==
  /\ srcTop <= MaxHeight - 2 /\ dstTop <= MaxHeight - 3 => past = {}
  /\ Complete =>
       /\ srcTop > MaxHeight - 2 <=> "dmapos" \in past
       /\ dstTop > MaxHeight - 3 <=> "weightHfilter" \in past
       /\ dstTop > MaxHeight - 2 <=> "hfilterpos" \in past
  /\ Complete /\ past = {} =>
       /\ \A h \in 0 .. Half(dstH) - 1 : Inside(h, Half(srcH))
       /\ Half(srcH) <= Half(dstH) =>
            /\ \A i \in 0 .. 2 * Half(dstH) - 1 : Inside(i, srcH)
            /\ \A i \in 0 .. 2 * Half(dstH) + 1 : rows[i].row + 1 <= srcH + 3
=============================================================================
