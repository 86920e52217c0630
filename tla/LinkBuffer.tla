----------------------------- MODULE LinkBuffer -----------------------------
(***************************************************************************)
(* buffer_t of src/lib/SPISlave/src/link/spi_link_slave.c: a linear buffer *)
(* between the DMA and the layers above.  Positions and sizes are 16-bit   *)
(* numbers that are moved by signed amounts; buffer_get_loadsize returns   *)
(* the low 8 bits.                                                         *)
(***************************************************************************)
EXTENDS Integers, Sequences

CONSTANT BufferSize     \* message_size_max and the link's header

(* _buffers_init asserts that the size is a uint8_t.                       *)
ASSUME BufferSizeAssumption == BufferSize \in 3..255

U16(n) == n % 65536
U8(n) == n % 256

BufferInit(cell) ==
  [data |-> [p \in 0..BufferSize - 1 |-> cell],
   read_pos |-> 0, write_pos |-> 0, loadsize |-> 0, freesize |-> BufferSize]

BufferClear(b) ==
  [data |-> b.data,
   read_pos |-> 0, write_pos |-> 0, loadsize |-> 0, freesize |-> BufferSize]

UpdateReadPos(b, len) ==
  [data |-> b.data,
   read_pos |-> U16(b.read_pos + len), write_pos |-> b.write_pos,
   loadsize |-> U16(b.loadsize - len), freesize |-> U16(b.freesize + len)]

UpdateWritePos(b, len) ==
  [data |-> b.data,
   read_pos |-> b.read_pos, write_pos |-> U16(b.write_pos + len),
   loadsize |-> U16(b.loadsize + len), freesize |-> U16(b.freesize - len)]

GetLoadsize(b) == U8(b.loadsize)

(* What the DMA has put at the free space pointer, no more than the line   *)
(* size from there; the buffer's numbers do not change.                    *)
DmaInto(b, cells) ==
  [b EXCEPT !.data = [p \in 0..BufferSize - 1 |->
                        LET i == p - b.write_pos + 1 IN
                          IF i \in DOMAIN cells THEN cells[i] ELSE b.data[p]]]

Get(b, len) == [i \in 1..len |-> b.data[b.read_pos + i - 1]]

CanGet(b, len) == len <= b.loadsize
=============================================================================
