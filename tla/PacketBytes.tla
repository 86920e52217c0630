----------------------------- MODULE PacketBytes ----------------------------
(***************************************************************************)
(* The bytes of the inbound packets on one side: from the DMA buffer of    *)
(* the link (module LinkBuffer) over the read buffer and p_data of         *)
(* Spi_slave::data_in_process into the Fifo_buffer (module FifoBuffer) and *)
(* to readPacket.                                                          *)
(*                                                                         *)
(* SpiLink and SpiSlave have the interleavings and take a payload as one   *)
(* value; here each handler is one step and what is checked is where its   *)
(* bytes come from.  A transfer is cut short or padded as the master       *)
(* likes, and leaves its bytes behind in the buffer.  A header that says   *)
(* at least its own length says whole packets.  One that says less is let  *)
(* in as well, and what it loads is more than the buffers have: see        *)
(* DataInProcess.                                                          *)
(*                                                                         *)
(* A message is a record [len, good]: the length its header says, and the  *)
(* packets in it with a valid CRC.  A byte is which byte of which message  *)
(* it is.  Whether a message is DATA that the link's state lets in is left *)
(* open.                                                                   *)
(***************************************************************************)
EXTENDS LinkBuffer

CONSTANTS PacketSize,           \* sizeof(Communications_protocol::Packet)
          InternalBufferSize,
          Messages,             \* what the master sends
          Lengths               \* bound: the bytes it may clock

HeaderSize == 2                 \* sizeof(spil_mess_header_t)
MessageSizeMax == BufferSize - HeaderSize

ASSUME PacketAssumption ==
  /\ PacketSize \in Nat \ {0} /\ InternalBufferSize \in Nat
  /\ PacketSize <= InternalBufferSize
  /\ Lengths \subseteq 1..BufferSize
  /\ \A m \in Messages :
       /\ m.len \in 0..255
       /\ m.len >= HeaderSize => (m.len - HeaderSize) % PacketSize = 0

VARIABLES
  cache, in,                            \* p_buffer_in_cache, p_buffer_in
  data_in_available, line_in_busy, line_in_is_saturated,
  spi_rx_fifo

vars == <<cache, in, data_in_available, line_in_busy, line_in_is_saturated,
          spi_rx_fifo>>

Zero == [of |-> [len |-> 0, good |-> {}], at |-> 0]

Fifo == INSTANCE FifoBuffer WITH ItemSize <- PacketSize, ZeroByte <- Zero

Init ==
  /\ cache = BufferInit(Zero) /\ in = BufferInit(Zero)
  /\ data_in_available = FALSE
  /\ line_in_busy = FALSE /\ line_in_is_saturated = FALSE
  /\ spi_rx_fifo = Fifo!FifoInit

-----------------------------------------------------------------------------
(* The interrupt after a transfer.                                         *)

Clocked(m, n) == [i \in 1..n |-> [of |-> m, at |-> i]]

HeadOf(b) == b.data[b.read_pos].of

Complete_Unchecked(b) == TRUE

(* All of the message has been received.                                   *)
Complete(b) == HeadOf(b).len <= GetLoadsize(b)

(* Fault: the bytes that padded the message stay behind it.                *)
Trim_Kept(b) == b

(* The buffer's end is set to the message's, whatever followed it.         *)
Trim(b) == UpdateWritePos(UpdateWritePos(b, 0 - GetLoadsize(b)), HeadOf(b).len)

SkipHeader_Kept(b) == b

SkipHeader(b) == UpdateReadPos(b, HeaderSize)

(* _buffer_in_cache_data_move with b in the cache: what is in the two      *)
(* buffers then, and what becomes of the flags.                            *)
Moved(b) ==
  IF GetLoadsize(b) = 0
    THEN [cache |-> b, in |-> in, available |-> data_in_available,
          busy |-> FALSE]
  ELSE IF GetLoadsize(in) # 0
    THEN [cache |-> b, in |-> in, available |-> data_in_available,
          busy |-> TRUE]
  ELSE [cache |-> in, in |-> b, available |-> TRUE, busy |-> FALSE]

(* What does not stay is recycled, and the next transfer is armed.         *)
TakeMove(to) ==
  /\ cache' = IF to.busy THEN to.cache ELSE BufferClear(to.cache)
  /\ in' = to.in
  /\ data_in_available' = to.available
  /\ line_in_busy' = to.busy
  /\ line_in_is_saturated' = (GetLoadsize(cache') # 0)
  /\ UNCHANGED spi_rx_fifo

Filled(m, n) == UpdateWritePos(DmaInto(cache, Clocked(m, n)), n)

Transfer(m, n, letIn) ==
  /\ ~line_in_busy /\ ~line_in_is_saturated
  /\ n >= HeaderSize
  /\ LET b == Filled(m, n) IN
       IF letIn /\ Complete(b)
         THEN TakeMove(Moved(SkipHeader(Trim(b))))
         ELSE cache' = BufferClear(b)
              /\ UNCHANGED <<in, data_in_available, line_in_busy,
                             line_in_is_saturated, spi_rx_fifo>>

(* Less than a header: the buffer is used again as it is.                  *)
TransferBroken(m, n) ==
  /\ ~line_in_busy /\ ~line_in_is_saturated
  /\ n < HeaderSize
  /\ cache' = DmaInto(cache, Clocked(m, n))
  /\ UNCHANGED <<in, data_in_available, line_in_busy, line_in_is_saturated,
                 spi_rx_fifo>>

(* BUSY, also when the cache was freed after the transfer was armed: there *)
(* was no room for a byte then.                                            *)
TransferBusy ==
  /\ line_in_busy \/ line_in_is_saturated
  /\ line_in_is_saturated' = (GetLoadsize(cache) # 0)
  /\ UNCHANGED <<cache, in, data_in_available, line_in_busy, spi_rx_fifo>>

-----------------------------------------------------------------------------
(* The main loop.                                                          *)

(* _line_in_busy_process.                                                  *)
Poll ==
  /\ line_in_busy
  /\ LET to == Moved(cache) IN
       cache' = to.cache /\ in' = to.in
       /\ data_in_available' = to.available /\ line_in_busy' = to.busy
  /\ UNCHANGED <<line_in_is_saturated, spi_rx_fifo>>

Chunks(cells) ==
  [k \in 1..Len(cells) \div PacketSize |->
     SubSeq(cells, (k - 1) * PacketSize + 1, k * PacketSize)]

(* The k-th packet of a message, and the packet that a chunk is.           *)
PacketCells(m, k) ==
  [i \in 1..PacketSize |->
     [of |-> m, at |-> HeaderSize + (k - 1) * PacketSize + i]]
NumberOf(chunk) == (chunk[1].at - HeaderSize - 1) \div PacketSize + 1
IsPacket(chunk) == chunk = PacketCells(chunk[1].of, NumberOf(chunk))

(* The CRC tells broken packets, but is not relied upon to tell bytes that *)
(* never were a packet.                                                    *)
CrcValid(chunk) == IsPacket(chunk) => NumberOf(chunk) \in chunk[1].of.good

packet_in_process(f, chunk) ==
  IF CrcValid(chunk) THEN Fifo!PutItem(f, chunk) ELSE f

(* The loop over the packets of p_data.                                    *)
PutAll(f, chunks) ==
  LET after[n \in 0..Len(chunks)] ==
        IF n = 0 THEN f ELSE packet_in_process(after[n - 1], chunks[n])
  IN after[Len(chunks)]

(* What a header that says less than its own length leaves: 254 or 255     *)
(* bytes are said to be loaded, more than p_data and the buffer have.      *)
Overruns(b) == GetLoadsize(b) > MessageSizeMax

(* data_in_process: spils_data_read and the loop over its packets.  To     *)
(* copy an overrun is undefined, and the model goes no further with it.    *)
DataInProcess ==
  /\ data_in_available
  /\ ~Overruns(in)
  /\ LET len == GetLoadsize(in) IN
       IF CanGet(in, len)
         THEN /\ spi_rx_fifo' = PutAll(spi_rx_fifo, Chunks(Get(in, len)))
              /\ in' = BufferClear(in)
              /\ data_in_available' = FALSE
         ELSE UNCHANGED <<spi_rx_fifo, in, data_in_available>>
  /\ UNCHANGED <<cache, line_in_busy, line_in_is_saturated>>

readPacket ==
  /\ ~Fifo!IsEmpty(spi_rx_fifo)
  /\ spi_rx_fifo' = Fifo!RemoveOne(spi_rx_fifo)
  /\ UNCHANGED <<cache, in, data_in_available, line_in_busy,
                 line_in_is_saturated>>

clearRead ==
  /\ ~Fifo!IsEmpty(spi_rx_fifo)
  /\ spi_rx_fifo' = Fifo!RemoveAll(spi_rx_fifo)
  /\ UNCHANGED <<cache, in, data_in_available, line_in_busy,
                 line_in_is_saturated>>

Next ==
  \/ \E m \in Messages, n \in Lengths :
       (\E letIn \in BOOLEAN : Transfer(m, n, letIn)) \/ TransferBroken(m, n)
  \/ TransferBusy \/ Poll \/ DataInProcess \/ readPacket \/ clearRead

Spec == Init /\ [][Next]_vars
-----------------------------------------------------------------------------
(* The buffers are linear: what is loaded lies between the positions, and  *)
(* the sizes add up, as 16-bit numbers; the FIFO's items lie at its        *)
(* beginning and the rest of it is clear.                                  *)
IsLinear(b) == /\ b.write_pos \in 0..BufferSize
               /\ U16(b.read_pos + b.loadsize) = b.write_pos
               /\ b.freesize = U16(BufferSize - b.loadsize)

TypeOK ==
  /\ IsLinear(cache) /\ IsLinear(in)
  /\ data_in_available = (in.loadsize # 0)
  /\ line_in_busy = (cache.loadsize # 0)
  /\ line_in_busy => line_in_is_saturated
  /\ spi_rx_fifo.index = spi_rx_fifo.num_items * PacketSize
  /\ spi_rx_fifo.index \in 0..InternalBufferSize
  /\ \A p \in DOMAIN spi_rx_fifo.internal_buffer :
       p >= spi_rx_fifo.index => spi_rx_fifo.internal_buffer[p] = Zero

(* The message whose header lies at the buffer's beginning.                *)
MessageIn(b) == b.data[0].of
IsShort(m) == m.len < HeaderSize

(* spils_data_read copies what the buffer says is loaded, and p_data on    *)
(* the stack of data_in_process has room for four packets: however long    *)
(* the transfer was, it fits, but for a message whose header says less     *)
(* than its own length. (Spi_slave.cpp:198-210, spi_link_slave.c:854-869)  *)
ReadFits ==
  data_in_available => (Overruns(in) <=> IsShort(MessageIn(in)))

(* What spils_data_read gives of any other message is whole packets, as    *)
(* data_in_process asserts of it: not a byte of the padding or of an older *)
(* message is with them, and no header.                                    *)
(* (Spi_slave.cpp:210-211, spi_link_slave.c:863-869)                       *)
WholePackets ==
  data_in_available /\ ~IsShort(MessageIn(in)) =>
    GetLoadsize(in) % PacketSize = 0

(* Every message that is let in is read into p_data, and is of whole       *)
(* packets: the array has the size of the largest message, and             *)
(* data_in_process asserts the second. (Spi_slave.cpp:198,211)             *)
DataInIsValid ==
  data_in_available => /\ GetLoadsize(in) <= MessageSizeMax
                       /\ GetLoadsize(in) % PacketSize = 0

(* The bytes are the packets that module PacketPipe promises: whatever the *)
(* transfers before it left in a buffer, readPacket gets the bytes of one  *)
(* packet of the master, each packet once, in order, and none is lost but  *)
(* behind a full FIFO. (spi_link_slave.c:834-912, Spi_slave.cpp:192-227)   *)

(* What s has at the positions in "which", in order.                       *)
Kept(s, which) ==
  LET kept[n \in 0..Len(s)] ==
        IF n = 0 THEN <<>>
        ELSE IF n \in which THEN Append(kept[n - 1], s[n]) ELSE kept[n - 1]
  IN kept[Len(s)]

PacketOf(chunk) ==
  <<chunk[1].of, IF IsPacket(chunk) THEN NumberOf(chunk) ELSE 0>>
PacketsIn(chunks) == [k \in 1..Len(chunks) |-> PacketOf(chunks[k])]
ValidIn(chunks) ==
  Kept(PacketsIn(chunks), {k \in 1..Len(chunks) : CrcValid(chunks[k])})

InFifo == PacketsIn(Fifo!Items(spi_rx_fifo))
InBuffer(b) ==
  IF Overruns(b) THEN <<>> ELSE ValidIn(Chunks(Get(b, GetLoadsize(b))))

PacketsOf == [m \in Messages |->
                LET count == IF IsShort(m) THEN 0
                               ELSE (m.len - HeaderSize) \div PacketSize
                IN Kept([k \in 1..count |-> <<m, k>>],
                        {k \in 1..count : k \in m.good})]

Pipe == INSTANCE PacketPipe WITH
          Payload <- Messages, OutPacket <- {},
          FifoSize <- InternalBufferSize \div PacketSize,
          inbound <- InFifo \o (InBuffer(in) \o InBuffer(cache)),
          outbound <- <<>>

ImplementsPipe == Pipe!Spec
=============================================================================
