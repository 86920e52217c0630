----------------------------- MODULE FifoBuffer -----------------------------
(***************************************************************************)
(* The class Fifo_buffer (src/lib/FIFO_BUFFER/src): items of a fixed size  *)
(* at the beginning of internal_buffer, moved up by one item when the      *)
(* first is taken.  index is the number of bytes used.                     *)
(***************************************************************************)
EXTENDS Integers, Sequences

CONSTANTS ItemSize,            \* at least a byte, and no more than the buffer
          InternalBufferSize, ZeroByte

FifoInit ==
  [internal_buffer |-> [p \in 0..InternalBufferSize - 1 |-> ZeroByte],
   index |-> 0, num_items |-> 0]

HasRoom(f) == f.index + ItemSize <= InternalBufferSize

IsEmpty(f) == f.index <= 0

(* An item that has no room is not taken.                                  *)
PutItem(f, item) ==
  IF ~HasRoom(f) THEN f
  ELSE [internal_buffer |-> [p \in DOMAIN f.internal_buffer |->
                               IF p \in f.index..f.index + ItemSize - 1
                                 THEN item[p - f.index + 1]
                                 ELSE f.internal_buffer[p]],
        index |-> f.index + ItemSize, num_items |-> f.num_items + 1]

ForwardFifo_OneShort(f) ==
  LET moved == (f.num_items - 2) * ItemSize IN
    [p \in DOMAIN f.internal_buffer |->
       IF p < moved THEN f.internal_buffer[p + ItemSize]
       ELSE IF p \in moved..moved + ItemSize - 1 THEN ZeroByte
       ELSE f.internal_buffer[p]]

(* All items but the first move one place up; the place of the last one is *)
(* cleared.                                                                *)
ForwardFifo(f) ==
  LET moved == (f.num_items - 1) * ItemSize IN
    [p \in DOMAIN f.internal_buffer |->
       IF p < moved THEN f.internal_buffer[p + ItemSize]
       ELSE IF p \in moved..moved + ItemSize - 1 THEN ZeroByte
       ELSE f.internal_buffer[p]]

(* get() when there is an item, and removeOne(), whose caller looks first. *)
RemoveOne(f) == [internal_buffer |-> ForwardFifo(f),
                 index |-> f.index - ItemSize, num_items |-> f.num_items - 1]

(* removeOne until the FIFO is empty.                                      *)
RemoveAll(f) ==
  LET left[n \in 0..f.num_items] ==
        IF n = 0 THEN f
        ELSE LET g == left[n - 1] IN IF IsEmpty(g) THEN g ELSE RemoveOne(g)
  IN left[f.num_items]

Items(f) ==
  [k \in 1..f.num_items |->
     [i \in 1..ItemSize |-> f.internal_buffer[(k - 1) * ItemSize + i - 1]]]
=============================================================================
