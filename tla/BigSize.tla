------------------------------ MODULE BigSize -------------------------------
(***************************************************************************)
(* Sizes of many files together (fcommon.c): counters of bytes, kilobytes  *)
(* and megabytes with carry, for a total that no 32 bit counter holds.     *)
(***************************************************************************)
EXTENDS Integers

Unit == 1024

ZeroSize == [b |-> 0, kb |-> 0, mb |-> 0]

(* IncBigSize2: a carry is passed on once, which is enough below 2 Unit. *)
IncBigSize2(bs, inc) ==
  LET b == bs.b + inc.b
      kb == bs.kb + (IF b >= Unit THEN 1 ELSE 0) + inc.kb
  IN  [b  |-> IF b >= Unit THEN b - Unit ELSE b,
       kb |-> IF kb >= Unit THEN kb - Unit ELSE kb,
       mb |-> bs.mb + (IF kb >= Unit THEN 1 ELSE 0) + inc.mb]

Split(size) == [b |-> size % Unit, kb |-> (size \div Unit) % Unit, mb |-> (size \div Unit) \div Unit]

(* A carry that is lost when a counter is exactly full. *)
IncBigSizeOffByOne(bs, size) ==
  LET inc == Split(size)
      b == bs.b + inc.b
      kb == bs.kb + (IF b > Unit THEN 1 ELSE 0) + inc.kb
  IN  [b  |-> IF b > Unit THEN b - Unit ELSE b,
       kb |-> IF kb > Unit THEN kb - Unit ELSE kb,
       mb |-> bs.mb + (IF kb > Unit THEN 1 ELSE 0) + inc.mb]

(* IncBigSize: the size of one file is split and added. *)
IncBigSize(bs, size) == IncBigSize2(bs, Split(size))

(* PrintBigSize: bytes up to 10 MB, then megabytes and hundredths. *)
PrintBigSize(bs) ==
  IF bs.mb > 9 THEN <<bs.mb, (bs.kb * 100) \div Unit>> ELSE <<(bs.mb * Unit + bs.kb) * Unit + bs.b>>

(* The number the counters stand for. *)
Bytes(bs) == (bs.mb * Unit + bs.kb) * Unit + bs.b

Digit == 0 .. Unit - 1
SizeType == [b : Digit, kb : Digit, mb : Nat]
=============================================================================
