----------------------------- MODULE PacketPipe -----------------------------
(***************************************************************************)
(* What one side's Spi_slave promises the layers above: two queues of      *)
(* packets.  A packet is lost only where a FIFO is full, where the layer   *)
(* above clears a FIFO, or where the master sent it broken; what is not    *)
(* lost keeps its order.                                                   *)
(*                                                                         *)
(*   inbound    packets acknowledged to the master, not yet read           *)
(*   outbound   packets queued by sendPacket, not yet clocked out          *)
(***************************************************************************)
EXTENDS Naturals, Sequences

CONSTANTS
  Payload,      \* what a DATA message of the master carries
  PacketsOf,    \* the packets of a payload that have a valid CRC
  OutPacket,    \* the packets the layers above send
  FifoSize      \* the packets a FIFO holds

VARIABLES inbound, outbound

vars == <<inbound, outbound>>

Init == inbound = <<>> /\ outbound = <<>>

(* The link holds two payloads of its own.                                 *)
InLink == 2

Arrive(d) ==
  /\ inbound' = inbound \o PacketsOf[d]
  /\ UNCHANGED outbound

(* The packets behind a full FIFO are dropped as they reach it.            *)
Overflow ==
  /\ \E n \in 1..(Len(inbound) - FifoSize) :
       inbound' = SubSeq(inbound, 1, FifoSize)
                    \o SubSeq(inbound, FifoSize + n + 1, Len(inbound))
  /\ UNCHANGED outbound

Read ==
  /\ inbound # <<>>
  /\ inbound' = Tail(inbound)
  /\ UNCHANGED outbound

(* clearRead: the head of the queue, as far as it is in the FIFO.          *)
ClearRead ==
  /\ \E n \in 1..FifoSize :
       n <= Len(inbound) /\ inbound' = SubSeq(inbound, n + 1, Len(inbound))
  /\ UNCHANGED outbound

Queue(k) ==
  /\ outbound' = Append(outbound, k)
  /\ UNCHANGED inbound

Sent ==
  /\ outbound # <<>>
  /\ outbound' = Tail(outbound)
  /\ UNCHANGED inbound

(* clearSend: the tail of the queue, as far as it is in the FIFO.          *)
ClearSend ==
  /\ \E n \in 0..InLink :
       n <= Len(outbound) /\ outbound' = SubSeq(outbound, 1, n)
  /\ UNCHANGED inbound

Next ==
  \/ \E d \in Payload : Arrive(d)
  \/ \E k \in OutPacket : Queue(k)
  \/ Overflow \/ Read \/ ClearRead \/ Sent \/ ClearSend

Spec == Init /\ [][Next]_vars

=============================================================================
