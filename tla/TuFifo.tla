------------------------------- MODULE TuFifo -------------------------------
(***************************************************************************)
(* The ring buffer of TinyUSB (src/common/tusb_fifo.c), configured         *)
(* overwritable with items of one byte, as HID_::begin() does.             *)
(*                                                                         *)
(* A FIFO is a record [buf, rd, wr].  The two indices run over twice the   *)
(* depth, so that a full FIFO can be told from an empty one and one        *)
(* overflow can be noticed by the reader; they are 16-bit numbers.  A      *)
(* write never moves rd.                                                   *)
(***************************************************************************)
EXTENDS Integers, Sequences

CONSTANT Depth

(* tu_fifo_config refuses a depth above 0x8000.                            *)
ASSUME DepthAssumption == Depth \in 1..32768

Wrap16(n) == n % 65536
Indices == 0..2 * Depth - 1

FifoConfig(cell) == [buf |-> [p \in 0..Depth - 1 |-> cell], rd |-> 0, wr |-> 0]

(* How far wr is ahead of rd; above Depth after an overflow.               *)
CountBetween(wr, rd) == IF wr >= rd THEN wr - rd ELSE 2 * Depth - (rd - wr)

Overflowable(f) == CountBetween(f.wr, f.rd)
FifoCount(f) == IF Overflowable(f) > Depth THEN Depth ELSE Overflowable(f)

AdvanceIndex_NoWrap(idx, offset) == Wrap16(idx + offset)

(* The sum may leave the 16 bits or only the index space; either way the   *)
(* unused numbers above 2*Depth are skipped.                               *)
AdvanceIndex(idx, offset) ==
  LET new == Wrap16(idx + offset) IN
    IF idx > new \/ new >= 2 * Depth
      THEN Wrap16(new + (65535 - (2 * Depth - 1)))
      ELSE new

PtrOf(idx) == idx % Depth

(* An overflowed FIFO is made a full one: the oldest items are given up.   *)
CorrectReadIndex(f) ==
  IF Overflowable(f) <= Depth THEN f
  ELSE [f EXCEPT !.rd = IF f.wr >= Depth THEN f.wr - Depth ELSE f.wr + Depth]

(* The items a peek for n of them copies: fewer when there are fewer.      *)
PeekN(f, n) ==
  LET g == CorrectReadIndex(f)
      m == IF n < FifoCount(g) THEN n ELSE FifoCount(g)
  IN [i \in 1..m |-> g.buf[PtrOf(g.rd + i - 1)]]

(* Where the data goes: over the whole buffer; so that the FIFO is full    *)
(* after a second overflow; or behind the data, if need be over the oldest *)
WriteIndex(f, n) ==
  IF n >= Depth THEN f.rd
  ELSE IF Overflowable(f) + n >= 2 * Depth THEN AdvanceIndex(f.rd, Depth - n)
  ELSE f.wr

(* Of data longer than the buffer only the last part is kept; what does    *)
(* not fit up to the end of the buffer goes to its beginning.              *)
WriteN(f, data) ==
  LET n == IF Len(data) > Depth THEN Depth ELSE Len(data)
      wr == WriteIndex(f, Len(data))
      ptr == PtrOf(wr)
  IN IF n = 0 THEN f
     ELSE [f EXCEPT !.wr = AdvanceIndex(wr, n),
                    !.buf = [p \in 0..Depth - 1 |->
                               LET i == (p - ptr) % Depth IN
                                 IF i < n THEN data[Len(data) - n + 1 + i]
                                          ELSE f.buf[p]]]

AdvanceReadPointer(f, n) == [f EXCEPT !.rd = AdvanceIndex(f.rd, n)]
=============================================================================
