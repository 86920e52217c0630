------------------------------ MODULE SpiSlave ------------------------------
(***************************************************************************)
(* One keyboard side as the firmware's main loop sees it: the class        *)
(* Spi_slave (src/lib/SPISlave/src/Spi_slave.cpp), its two Fifo_buffers    *)
(* and the interface SpiPort, on top of the SPI link slave.                *)
(*                                                                         *)
(* Link is the module SpiLink: its interrupt and its API calls are the     *)
(* actions of Link, and here the main loop decides which call comes next.  *)
(* The interrupt reports through spils_event_handler, which writes two     *)
(* flags of the class the main loop reads and writes as well; each access  *)
(* to them is a step of its own, and loop says which one is next.          *)
(*                                                                         *)
(* The connection machine, the first thing spils_poll does, shares no      *)
(* state with the rest and is in module SpiConnection.                     *)
(*                                                                         *)
(* The master is another processor.  With MasterAsksBlindly = FALSE it     *)
(* asks for data only after a reply DATA_READY and once per such reply.    *)
(***************************************************************************)
EXTENDS Naturals, Sequences

CONSTANTS
  Payload,              \* what a DATA message of the master carries
  InPacket,             \* the packets the other side sends
  PacketsOf,            \* the packets of a payload that have a valid CRC
  OutPacket,            \* the packets the layers above send
  FifoSize,             \* the packets an internal_buffer has room for
  MasterAsksBlindly

ASSUME SlaveAssumption ==
  /\ PacketsOf \in [Payload -> Seq(InPacket)]
  /\ Payload \cap OutPacket = {}
  /\ FifoSize \in Nat \ {0}
  /\ MasterAsksBlindly \in BOOLEAN

VARIABLES
  state, inBuf, outBuf, p_buffer_in, p_buffer_in_cache, p_buffer_out,
  p_buffer_out_cache, data_in_available, data_out_available, line_in_busy,
  line_in_is_saturated, mutex_in, mutex_out, rx, tx, pc, temp_buffer,
  sending, p_data, result,      \* of the link
  loop,                         \* the next step of the main loop
  spils_data_in_received, spils_data_out_sending,
  rx_fifo, tx_fifo,             \* the packets in the two Fifo_buffers
  spi_packet,                   \* the packet data_out_process has taken
  read_available,               \* what spils_data_read_available returned
  mayFetch                      \* the master: DATA_READY seen, not yet used

Link == INSTANCE SpiLink WITH Payload <- Payload \cup OutPacket
NULL == Link!NULL

ASSUME LinkAssumption == (Payload \cup OutPacket) \cap Link!Reserved = {}

linkVars == <<state, inBuf, outBuf, p_buffer_in, p_buffer_in_cache,
              p_buffer_out, p_buffer_out_cache, data_in_available,
              data_out_available, line_in_busy, line_in_is_saturated,
              mutex_in, mutex_out, rx, tx, pc, temp_buffer, sending, p_data,
              result>>
flagVars == <<spils_data_in_received, spils_data_out_sending>>
fifoVars == <<rx_fifo, tx_fifo>>
ownVars  == <<spi_packet, read_available>>
vars == <<linkVars, loop, flagVars, fifoVars, ownVars, mayFetch>>

Init ==
  /\ Link!Init
  /\ loop = "app"
  /\ spils_data_in_received = FALSE /\ spils_data_out_sending = FALSE
  /\ rx_fifo = <<>> /\ tx_fifo = <<>>
  /\ spi_packet = NULL /\ read_available = FALSE
  /\ mayFetch = FALSE

-----------------------------------------------------------------------------
(***************************************************************************)
(* The interrupt.                                                          *)
(***************************************************************************)

\* Fault: no case for DATA_IN_READY.
spils_event_handler_NoInput(ev) ==
  /\ UNCHANGED spils_data_in_received
  /\ spils_data_out_sending' = ("DATA_OUT_SENT" \notin ev /\ spils_data_out_sending)

(* DATA_IN_READY sets the one flag, DATA_OUT_SENT takes back the other.    *)
spils_event_handler(ev) ==
  /\ spils_data_in_received' = ("DATA_IN_READY" \in ev \/ spils_data_in_received)
  /\ spils_data_out_sending' = ("DATA_OUT_SENT" \notin ev /\ spils_data_out_sending)

(* The transfer clocks out the reply that is armed, so the master knows it *)
(* when it chooses its next message.                                       *)
Transfer(m) ==
  /\ m = "RECV_START" => mayFetch \/ MasterAsksBlindly
  /\ mayFetch' = (outBuf[tx] = "DATA_READY" /\ m # "RECV_START")
  /\ \E ev \in SUBSET Link!Events :
       Link!TransferDone(m, ev) /\ spils_event_handler(ev)
  /\ UNCHANGED <<loop, fifoVars, ownVars>>

-----------------------------------------------------------------------------
(***************************************************************************)
(* The main loop.                                                          *)
(***************************************************************************)

Goto(from, to) == loop = from /\ loop' = to

(* The next step of the API call in progress.                              *)
Call ==
  /\ \E ev \in SUBSET Link!Events :
       Link!CallStep(ev) /\ spils_event_handler(ev)
  /\ UNCHANGED <<loop, fifoVars, ownVars, mayFetch>>

Returned == pc = "idle"

(* run( ): first spils_poll.                                               *)
run ==
  /\ Returned
  /\ Goto("app", "poll")
  /\ Link!Poll({})
  /\ UNCHANGED <<flagVars, fifoVars, ownVars, mayFetch>>

(* data_in_process.                                                        *)
DataInCheck ==
  /\ Returned
  /\ loop = "poll"
  /\ loop' = IF spils_data_in_received THEN "in_read" ELSE "out_check"
  /\ UNCHANGED <<linkVars, flagVars, fifoVars, ownVars, mayFetch>>

DataInRead ==
  /\ Goto("in_read", "in_call")
  /\ Link!Read({})
  /\ UNCHANGED <<flagVars, fifoVars, ownVars, mayFetch>>

(* A read that failed leaves data_in_process with the flag set.            *)
DataInReadAvailable ==
  /\ Returned
  /\ loop = "in_call"
  /\ loop' = IF result = "OK" THEN "in_store" ELSE "out_check"
  /\ read_available' = (result = "OK" /\ data_in_available)
  /\ UNCHANGED <<linkVars, flagVars, fifoVars, spi_packet, mayFetch>>

\* Fault: no check for room.
Put_Unchecked(fifo, packets) == fifo \o packets

(* Fifo_buffer::put, for packets one after the other: what has no room is  *)
(* dropped, and no caller looks at the result.                             *)
Put(fifo, packets) ==
  LET room == FifoSize - Len(fifo)
  IN  fifo \o SubSeq(packets, 1, IF Len(packets) < room THEN Len(packets)
                                                        ELSE room)

Packets == IF p_data = NULL THEN <<>> ELSE PacketsOf[p_data]

\* Fault: the payload is taken for one packet.
DataInStore_FirstPacket ==
  /\ Goto("in_store", "out_check")
  /\ spils_data_in_received' = read_available
  /\ rx_fifo' = Put(rx_fifo, IF Packets = <<>> THEN <<>>
                                            ELSE <<Head(Packets)>>)
  /\ read_available' = FALSE
  /\ UNCHANGED <<linkVars, spils_data_out_sending, tx_fifo, spi_packet,
                 mayFetch>>

(* The flag becomes what spils_data_read_available said, then              *)
(* packet_in_process for every packet that was read.                       *)
DataInStore ==
  /\ Goto("in_store", "out_check")
  /\ spils_data_in_received' = read_available
  /\ rx_fifo' = Put(rx_fifo, Packets)
  /\ read_available' = FALSE
  /\ UNCHANGED <<linkVars, spils_data_out_sending, tx_fifo, spi_packet,
                 mayFetch>>

\* Fault: the next packet is taken while the last one is still in the link.
DataOutCheck_NoWait ==
  /\ Returned
  /\ loop = "out_check"
  /\ IF tx_fifo = <<>>
       THEN loop' = "app" /\ UNCHANGED <<tx_fifo, spi_packet>>
       ELSE /\ loop' = "out_flag"
            /\ spi_packet' = Head(tx_fifo)
            /\ tx_fifo' = Tail(tx_fifo)
  /\ UNCHANGED <<linkVars, flagVars, rx_fifo, read_available, mayFetch>>

(* data_out_process.                                                       *)
DataOutCheck ==
  /\ Returned
  /\ loop = "out_check"
  /\ IF spils_data_out_sending \/ tx_fifo = <<>>
       THEN loop' = "app" /\ UNCHANGED <<tx_fifo, spi_packet>>
       ELSE /\ loop' = "out_flag"
            /\ spi_packet' = Head(tx_fifo)
            /\ tx_fifo' = Tail(tx_fifo)
  /\ UNCHANGED <<linkVars, flagVars, rx_fifo, read_available, mayFetch>>

(* "The receive end callback might theoretically come before the end of    *)
(* the function": the flag is set before the packet is handed over.        *)
DataOutFlag ==
  /\ Goto("out_flag", "out_send")
  /\ spils_data_out_sending' = TRUE
  /\ UNCHANGED <<linkVars, spils_data_in_received, fifoVars, ownVars,
                 mayFetch>>

DataOutSend ==
  /\ Goto("out_send", "out_call")
  /\ Link!Send(spi_packet, {})
  /\ UNCHANGED <<flagVars, fifoVars, ownVars, mayFetch>>

\* Fault: the flag is set after the packet has been handed over.
DataOutReturned_FlagAgain ==
  /\ Returned
  /\ Goto("out_call", "app")
  /\ spils_data_out_sending' = (result = "OK")
  /\ spi_packet' = NULL
  /\ UNCHANGED <<linkVars, spils_data_in_received, fifoVars, read_available,
                 mayFetch>>

DataOutReturned ==
  /\ Returned
  /\ Goto("out_call", "app")
  /\ spils_data_out_sending' = (result = "OK" /\ spils_data_out_sending)
  /\ spi_packet' = NULL
  /\ UNCHANGED <<linkVars, spils_data_in_received, fifoVars, read_available,
                 mayFetch>>

LoopStep == \/ Call \/ run
            \/ DataInCheck \/ DataInRead \/ DataInReadAvailable
            \/ DataInStore
            \/ DataOutCheck \/ DataOutFlag \/ DataOutSend \/ DataOutReturned

-----------------------------------------------------------------------------
(***************************************************************************)
(* The layers above, between two calls of run( ): the functions of         *)
(* SpiPort.  None of them looks at what the interrupt shares.              *)
(***************************************************************************)

InApp == loop = "app" /\ Returned
AppRest == UNCHANGED <<linkVars, loop, flagVars, ownVars, mayFetch>>

(* It returns true also when the FIFO had no room.                         *)
sendPacket(packet) ==
  /\ InApp
  /\ tx_fifo' = Put(tx_fifo, <<packet>>)
  /\ UNCHANGED rx_fifo
  /\ AppRest

readPacket ==
  /\ InApp
  /\ rx_fifo # <<>>
  /\ rx_fifo' = Tail(rx_fifo)
  /\ UNCHANGED tx_fifo
  /\ AppRest

clearSend ==
  /\ InApp
  /\ tx_fifo' = <<>>
  /\ UNCHANGED rx_fifo
  /\ AppRest

clearRead ==
  /\ InApp
  /\ rx_fifo' = <<>>
  /\ UNCHANGED tx_fifo
  /\ AppRest

App == (\E k \in OutPacket : sendPacket(k)) \/ readPacket \/ clearSend \/ clearRead

-----------------------------------------------------------------------------

Next == (\E m \in Link!Messages \ OutPacket : Transfer(m)) \/ LoopStep \/ App

Spec == Init /\ [][Next]_vars

(* The loop goes round for ever; it is one thread, and an interrupt only   *)
(* delays it.                                                              *)
FairSpec == Spec /\ WF_vars(LoopStep)

-----------------------------------------------------------------------------
(***************************************************************************)
(* Properties.                                                             *)
(***************************************************************************)

Loops == {"app", "poll", "in_read", "in_call", "in_store", "out_check",
          "out_flag", "out_send", "out_call"}

TypeOK ==
  /\ Link!TypeOK
  /\ loop \in Loops
  /\ spils_data_in_received \in BOOLEAN /\ spils_data_out_sending \in BOOLEAN
  /\ Len(rx_fifo) <= FifoSize /\ Len(tx_fifo) <= FifoSize
  /\ tx_fifo \in Seq(OutPacket)
  /\ spi_packet \in OutPacket \cup {NULL}
  /\ read_available \in BOOLEAN
  /\ mayFetch \in BOOLEAN

(* ASSERT_DYGMA( result == RESULT_OK, "Failure: spils_data_send failed" ): *)
(* a packet that has left the FIFO is always accepted by the link.         *)
SendNeverFails == (loop = "out_call" /\ Returned) => result = "OK"

(* spils_data_out_sending is set exactly while the link has a packet that  *)
(* the master has not fetched.  If it stayed set without one, this side    *)
(* would never send again.                                                 *)
SendingMeansPending ==
  loop \notin {"out_send", "out_call"} =>
    (spils_data_out_sending <=> Link!ToMaster # <<>>)

(* Input that has been announced by the link is noticed by data_in_process *)
(* at the next turn of the loop.  The only step that can break this is the *)
(* store of a flag value that is older than the interrupt.                 *)
InputNoticed ==
  data_in_available =>
     spils_data_in_received \/ pc \in {"move_not_busy", "move_unlock",
                                       "move_event"}
OnlyStaleStoreLosesInput ==
  [][(InputNoticed /\ ~InputNoticed') =>
       (loop = "in_store" /\ loop' = "out_check" /\ ~read_available)]_vars

(* Spi_slave.h on data_in_process: "This function will act when the event  *)
(* SPILS_EVENT_TYPE_DATA_IN_READY is received.  It will read the data from *)
(* the SPI slave and put it in the rx_fifo."                               *)
AnnouncedInputIsRead == data_in_available ~> ~data_in_available

(* The side implements two packet queues.                                  *)
InHand == IF loop \in {"in_call", "in_store"} THEN Packets ELSE <<>>

Unpack(payloads) ==      \* the link holds at most two
  CASE Len(payloads) = 0 -> <<>>
    [] Len(payloads) = 1 -> PacketsOf[payloads[1]]
    [] Len(payloads) = 2 -> PacketsOf[payloads[1]] \o PacketsOf[payloads[2]]

Inbound == rx_fifo \o InHand \o Unpack(Link!ToHost)

OutHand == IF \/ loop \in {"out_flag", "out_send"}
              \/ pc \in {"send_trylock", "send_header", "send_payload",
                         "send_available"}
             THEN <<spi_packet>> ELSE <<>>

Outbound == Link!ToMaster \o OutHand \o tx_fifo

Pipe == INSTANCE PacketPipe WITH inbound <- Inbound, outbound <- Outbound

ImplementsPipe == Pipe!Spec

=============================================================================
