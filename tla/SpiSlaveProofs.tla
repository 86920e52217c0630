---------------------------- MODULE SpiSlaveProofs ---------------------------
(***************************************************************************)
(* Proofs about SpiSlave, for every payload, packet and size of the FIFOs: *)
(* the link below is taken with the invariant and the refinement proved in *)
(* SpiLinkProofs and SpiLinkRefinement, and the inductive invariant here   *)
(* adds what ties the class's two flags, its FIFOs and the place of the    *)
(* main loop to it.                                                        *)
(***************************************************************************)
EXTENDS SpiSlave, SequenceTheorems, TLAPS

LinkP == INSTANCE SpiLinkRefinement WITH Payload <- Payload \cup OutPacket

SendPcs == {"send_trylock", "send_header", "send_payload", "send_available"}

(* The calls of the link by the place of the loop that makes them.         *)
PlaceInv ==
  /\ pc \in LinkP!InitPcs => loop = "app"
  /\ pc = "move_trylock" => loop = "poll"
  /\ pc \in LinkP!MovePcs \cup {"move_event"} => loop = "poll"
  /\ pc \in {"read_trylock"} \cup LinkP!ReadPcs => loop = "in_call"
  /\ pc \in SendPcs \cup {"send_unlock"} => loop = "out_call"
  /\ loop = "in_call" => result = "OK"
  /\ pc \in {"read_trylock", "read_copy"} => p_data = NULL

(* What the master sent stays on its way in, what the layers above send on *)
(* its way out.                                                            *)
ContentInv ==
  /\ \A b \in Link!Buffers : inBuf[b] \notin OutPacket
  /\ p_data \notin OutPacket
  /\ rx_fifo \in Seq(InPacket)

(* The packet data_out_process has taken is the one the link is given.     *)
HandInv ==
  /\ loop \in {"out_flag", "out_send", "out_call"} => spi_packet \in OutPacket
  /\ loop = "out_call" /\ pc \in SendPcs \ {"send_available"} =>
       sending = spi_packet
  /\ pc = "send_available" => outBuf[p_buffer_out] = spi_packet

(* The link has a packet for the master: left by spils_data_send, or armed *)
(* and not yet known to be clocked out.                                    *)
Pending == data_out_available \/ state = "DATA_SENDING"

(* A master that asks only after DATA_READY finds a packet: it is never    *)
(* armed a dummy, and there is one packet at a time.                       *)
FetchInv ==
  /\ outBuf[tx] = "DATA_READY" => data_out_available
  /\ mayFetch => data_out_available
  /\ state = "DATA_SENDING" =>
       ~data_out_available /\ outBuf[p_buffer_out_cache] \in Payload \cup OutPacket

(* spils_data_out_sending against the link, at every place of the loop.    *)
SendingInv ==
  /\ loop \notin {"out_send", "out_call"} =>
       (spils_data_out_sending <=> Pending)
  /\ loop = "out_flag" => ~Pending
  /\ loop = "out_send" => spils_data_out_sending /\ ~Pending
  /\ loop = "out_call" => result = "OK"
  /\ loop = "out_call" /\ pc \in SendPcs =>
       spils_data_out_sending /\ ~Pending
  /\ loop = "out_call" /\ pc \notin SendPcs =>
       (spils_data_out_sending <=> Pending)

BlindInv == ~MasterAsksBlindly => FetchInv /\ SendingInv

IInv == TypeOK /\ LinkP!IInv /\ PlaceInv /\ ContentInv /\ HandInv /\ BlindInv

-----------------------------------------------------------------------------
(***************************************************************************)
(* The link as SpiSlave and as the proofs about it name it.                *)
(***************************************************************************)

LEMMA LinkNames ==
  LinkP!PayloadAssumption
BY LinkAssumption DEF LinkP!PayloadAssumption, Link!Reserved, LinkP!Reserved

LEMMA LinkStart == Link!Init => LinkP!Init
BY DEF Link!Init, LinkP!Init, Link!Buffers, LinkP!Buffers, Link!NULL,
       LinkP!NULL

LEMMA LinkTypes == Link!TypeOK <=> LinkP!TypeOK
BY DEF Link!TypeOK, LinkP!TypeOK, Link!States, LinkP!States, Link!Buffers,
       LinkP!Buffers, Link!InContents, LinkP!InContents, Link!OutMessages,
       LinkP!OutMessages, Link!Results, LinkP!Results, Link!NULL, LinkP!NULL,
       Link!Pcs, LinkP!Pcs, Link!InitPcs, LinkP!InitPcs, Link!MovePcs,
       LinkP!MovePcs, Link!ReadPcs, LinkP!ReadPcs, Link!SendPcs, LinkP!SendPcs

LEMMA LinkTransfer ==
  ASSUME NEW m, NEW ev, Link!TransferDone(m, ev)
  PROVE  LinkP!TransferDone(m, ev)
<1> USE DEF Link!InputClosed, LinkP!InputClosed, Link!inVars, LinkP!inVars,
  Link!mainVars, LinkP!mainVars, Link!Listen, LinkP!Listen, Link!Reply,
  LinkP!Reply, Link!Arm, LinkP!Arm, Link!DataInPrepare, LinkP!DataInPrepare,
  Link!DataOutPrepare, LinkP!DataOutPrepare, Link!Loaded, LinkP!Loaded,
  Link!NULL, LinkP!NULL, Link!SentEvent, LinkP!SentEvent,
  Link!RecycleInCache, LinkP!RecycleInCache, Link!KeepInPointers,
  LinkP!KeepInPointers, Link!KeepInFlags, LinkP!KeepInFlags,
  Link!MutexInTrylock, LinkP!MutexInTrylock, Link!MutexOutTrylock,
  LinkP!MutexOutTrylock, Link!MoveBlocked, LinkP!MoveBlocked,
  Link!BufferOutCacheDataMove, LinkP!BufferOutCacheDataMove
<1>1. Link!TransferSaturated(ev) => LinkP!TransferSaturated(ev)
  BY DEF Link!TransferSaturated, LinkP!TransferSaturated
<1>2. Link!TransferBroken(m, ev) => LinkP!TransferBroken(m, ev)
  BY DEF Link!TransferBroken, LinkP!TransferBroken
<1>3. Link!ReceiveDataStart(m, ev) => LinkP!ReceiveDataStart(m, ev)
  BY DEF Link!ReceiveDataStart, LinkP!ReceiveDataStart
<1>4. Link!SendDataStart(m, ev) => LinkP!SendDataStart(m, ev)
  BY DEF Link!SendDataStart, LinkP!SendDataStart
<1>5. Link!ReceiveDataRefused(m, ev) => LinkP!ReceiveDataRefused(m, ev)
  BY DEF Link!ReceiveDataRefused, LinkP!ReceiveDataRefused
<1>6. Link!ReceiveDataBusy(m, ev) => LinkP!ReceiveDataBusy(m, ev)
  BY DEF Link!ReceiveDataBusy, LinkP!ReceiveDataBusy
<1>7. Link!ReceiveDataMoved(m, ev) => LinkP!ReceiveDataMoved(m, ev)
  BY DEF Link!ReceiveDataMoved, LinkP!ReceiveDataMoved
<1>8. Link!ReceiveDataVoid(m, ev) => LinkP!ReceiveDataVoid(m, ev)
  BY DEF Link!ReceiveDataVoid, LinkP!ReceiveDataVoid
<1>9. Link!TransferOther(m, ev) => LinkP!TransferOther(m, ev)
  BY DEF Link!TransferOther, LinkP!TransferOther
<1> QED BY <1>1, <1>2, <1>3, <1>4, <1>5, <1>6, <1>7, <1>8, <1>9
        DEF Link!TransferDone, LinkP!TransferDone

LEMMA LinkCall ==
  ASSUME NEW ev, Link!CallStep(ev) PROVE LinkP!CallStep(ev)
BY DEF Link!CallStep, LinkP!CallStep, Link!InitStep, LinkP!InitStep,
  Link!InitLook, LinkP!InitLook, Link!InitStore, LinkP!InitStore,
  Link!MoveStep, LinkP!MoveStep, Link!MoveEvent, LinkP!MoveEvent,
  Link!ReadStep, LinkP!ReadStep, Link!SendStep, LinkP!SendStep, Link!Goto,
  LinkP!Goto, Link!inVars, LinkP!inVars, Link!outVars, LinkP!outVars,
  Link!armVars, LinkP!armVars, Link!MoveTrylock, LinkP!MoveTrylock,
  Link!MoveCheckCache, LinkP!MoveCheckCache, Link!Loaded, LinkP!Loaded,
  Link!MoveNothing, LinkP!MoveNothing, Link!MoveCheckIn, LinkP!MoveCheckIn,
  Link!MoveFailUnlock, LinkP!MoveFailUnlock, Link!MoveSwapIn,
  LinkP!MoveSwapIn, Link!MoveSwapCache, LinkP!MoveSwapCache, Link!NULL,
  LinkP!NULL, Link!MoveAvailable, LinkP!MoveAvailable, Link!MoveNotBusy,
  LinkP!MoveNotBusy, Link!MoveUnlock, LinkP!MoveUnlock, Link!ReadTrylock,
  LinkP!ReadTrylock, Link!ReadCopy, LinkP!ReadCopy, Link!ReadRecycle,
  LinkP!ReadRecycle, Link!ReadNotAvailable, LinkP!ReadNotAvailable,
  Link!ReadUnlock, LinkP!ReadUnlock, Link!SendTrylock, LinkP!SendTrylock,
  Link!SendHeader, LinkP!SendHeader, Link!SendPayload, LinkP!SendPayload,
  Link!SendAvailable, LinkP!SendAvailable, Link!SendUnlock, LinkP!SendUnlock

LEMMA LinkPoll == ASSUME Link!Poll({}) PROVE LinkP!Poll({})
BY DEF Link!Poll, LinkP!Poll, Link!inVars, LinkP!inVars, Link!outVars,
  LinkP!outVars, Link!armVars, LinkP!armVars, Link!NULL, LinkP!NULL

LEMMA LinkRead == ASSUME Link!Read({}) PROVE LinkP!Read({})
BY DEF Link!Read, LinkP!Read, Link!inVars, LinkP!inVars, Link!outVars,
  LinkP!outVars, Link!armVars, LinkP!armVars, Link!NULL, LinkP!NULL

LEMMA LinkSend == ASSUME NEW d, Link!Send(d, {}) PROVE LinkP!Send(d, {})
BY DEF Link!Send, LinkP!Send, Link!inVars, LinkP!inVars, Link!outVars,
  LinkP!outVars, Link!armVars, LinkP!armVars, Link!NULL, LinkP!NULL

-----------------------------------------------------------------------------
(***************************************************************************)
(* What a step of the link does to the variables the slave looks at.       *)
(***************************************************************************)

LinkStep(ev) ==
  \/ \E m \in Link!Messages \ OutPacket : LinkP!TransferDone(m, ev)
  \/ LinkP!CallStep(ev)
  \/ LinkP!Poll(ev)
  \/ LinkP!Read(ev)
  \/ \E d \in OutPacket : LinkP!Send(d, ev)

LEMMA LinkStepNext ==
  ASSUME NEW ev \in SUBSET Link!Events, LinkStep(ev) PROVE LinkP!Next
BY DEF LinkStep, LinkP!Next, Link!Messages, LinkP!Messages, Link!Events,
       LinkP!Events

LEMMA LinkKept ==
  LinkP!IInv /\ (LinkP!Next \/ UNCHANGED linkVars) => LinkP!IInv'
<1>1. ASSUME LinkP!IInv, [LinkP!Next]_LinkP!vars PROVE LinkP!IInv'
  BY <1>1, LinkP!NextInv, LinkNames
<1>2. ASSUME UNCHANGED linkVars PROVE UNCHANGED LinkP!vars
  BY <1>2 DEF linkVars, LinkP!vars, LinkP!inVars, LinkP!outVars,
              LinkP!armVars, LinkP!mainVars
<1> QED BY <1>1, <1>2

(* The part every transfer leaves alone, and what it writes to the input.  *)
LEMMA TransferInput ==
  ASSUME LinkP!IInv, NEW m, NEW ev, LinkP!TransferDone(m, ev)
  PROVE  /\ UNCHANGED LinkP!mainVars
         /\ \A b \in LinkP!Buffers :
              inBuf'[b] \in {inBuf[b], "EMPTY", "CONSUMED", m}
         /\ data_in_available' => data_in_available \/ "DATA_IN_READY" \in ev
         /\ data_in_available => data_in_available'
<1> USE DEF LinkP!IInv, LinkP!TypeOK, LinkP!inVars, LinkP!RecycleInCache,
            LinkP!KeepInFlags
<1>1. UNCHANGED LinkP!mainVars
  BY DEF LinkP!TransferDone, LinkP!TransferSaturated, LinkP!TransferBroken,
         LinkP!ReceiveDataStart, LinkP!SendDataStart,
         LinkP!ReceiveDataRefused, LinkP!ReceiveDataBusy,
         LinkP!ReceiveDataMoved, LinkP!ReceiveDataVoid, LinkP!TransferOther
<1>2. CASE LinkP!TransferSaturated(ev) \/ LinkP!TransferBroken(m, ev)
  BY <1>1, <1>2 DEF LinkP!TransferSaturated, LinkP!TransferBroken
<1>3. CASE \/ LinkP!ReceiveDataStart(m, ev) \/ LinkP!SendDataStart(m, ev)
           \/ LinkP!ReceiveDataRefused(m, ev) \/ LinkP!TransferOther(m, ev)
           \/ LinkP!ReceiveDataVoid(m, ev)
  BY <1>1, <1>3
     DEF LinkP!ReceiveDataStart, LinkP!SendDataStart,
         LinkP!ReceiveDataRefused, LinkP!TransferOther, LinkP!ReceiveDataVoid
<1>4. CASE LinkP!ReceiveDataBusy(m, ev)
  BY <1>1, <1>4 DEF LinkP!ReceiveDataBusy
<1>5. CASE LinkP!ReceiveDataMoved(m, ev)
  BY <1>1, <1>5 DEF LinkP!ReceiveDataMoved
<1> QED BY <1>2, <1>3, <1>4, <1>5 DEF LinkP!TransferDone

LEMMA TransferSent ==
  ASSUME NEW m, NEW ev, LinkP!TransferDone(m, ev)
  PROVE  "DATA_OUT_SENT" \in ev <=> state = "DATA_SENDING"
BY DEF LinkP!TransferDone, LinkP!TransferSaturated, LinkP!TransferBroken,
       LinkP!ReceiveDataStart, LinkP!SendDataStart,
       LinkP!ReceiveDataRefused, LinkP!ReceiveDataBusy,
       LinkP!ReceiveDataMoved, LinkP!ReceiveDataVoid, LinkP!TransferOther,
       LinkP!SentEvent

(* Either a result is composed and the output kept, or the master has      *)
(* asked for it and gets what there is.                                    *)
Replied ==
  /\ state' # "DATA_SENDING"
  /\ UNCHANGED <<p_buffer_out, data_out_available>>
  /\ outBuf'[p_buffer_out] = outBuf[p_buffer_out]
  /\ outBuf'[tx'] = "DATA_READY" => data_out_available

Fetched(m) ==
  /\ m = "RECV_START" /\ ~mutex_out
  /\ state' = "DATA_SENDING" /\ data_out_available' = FALSE
  /\ data_out_available =>
       outBuf'[p_buffer_out_cache'] \in Payload \cup OutPacket

LEMMA TransferOutput ==
  ASSUME LinkP!IInv, NEW m, NEW ev, LinkP!TransferDone(m, ev)
  PROVE  Replied \/ Fetched(m)
<1> USE DEF LinkP!IInv, LinkP!OutputInv
<1>1. ASSUME NEW mess, LinkP!Reply(mess), NEW s, LinkP!Arm(s),
             s # "DATA_SENDING", mess = "DATA_READY" => data_out_available
      PROVE  Replied
  BY <1>1 DEF Replied, LinkP!Reply, LinkP!Arm, LinkP!DataOutPrepare,
              LinkP!TypeOK
<1>2. CASE LinkP!TransferSaturated(ev) \/ LinkP!TransferBroken(m, ev)
           \/ LinkP!ReceiveDataRefused(m, ev)
           \/ LinkP!ReceiveDataBusy(m, ev) \/ LinkP!ReceiveDataMoved(m, ev)
           \/ LinkP!ReceiveDataVoid(m, ev)
  BY <1>1, <1>2
     DEF LinkP!TransferSaturated, LinkP!TransferBroken,
         LinkP!ReceiveDataRefused, LinkP!ReceiveDataBusy,
         LinkP!ReceiveDataMoved, LinkP!ReceiveDataVoid, LinkP!Listen
<1>3. CASE LinkP!ReceiveDataStart(m, ev)
  BY <1>1, <1>3 DEF LinkP!ReceiveDataStart, LinkP!Listen
<1>4. CASE LinkP!TransferOther(m, ev)
  BY <1>1, <1>4 DEF LinkP!TransferOther, LinkP!Listen
<1>5. CASE LinkP!SendDataStart(m, ev)
  <2>1. CASE LinkP!Listen("ERR") \/ LinkP!Listen("BUSY")
    BY <1>1, <2>1 DEF LinkP!Listen
  <2>2. CASE /\ m = "RECV_START" /\ LinkP!MutexOutTrylock
             /\ LinkP!BufferOutCacheDataMove /\ LinkP!Arm("DATA_SENDING")
    <3>1. /\ m = "RECV_START" /\ ~mutex_out /\ state' = "DATA_SENDING"
          /\ data_out_available' = FALSE
      BY <2>2 DEF LinkP!MutexOutTrylock, LinkP!BufferOutCacheDataMove,
                  LinkP!Arm
    <3>2. ASSUME data_out_available
          PROVE  outBuf'[p_buffer_out_cache'] \in Payload \cup OutPacket
      <4>1. pc \notin {"send_payload", "send_available"}
        BY <3>1 DEF LinkP!MutexInv, LinkP!SendPcs
      <4>2. outBuf[p_buffer_out] \in Payload \cup OutPacket
        BY <3>2, <4>1
      <4>3. LinkP!Loaded(outBuf[p_buffer_out])
        BY <4>2, LinkNames
           DEF LinkP!PayloadAssumption, LinkP!Reserved, LinkP!Loaded
      <4> QED BY <2>2, <4>2, <4>3
              DEF LinkP!BufferOutCacheDataMove, LinkP!TypeOK
    <3> QED BY <3>1, <3>2 DEF Fetched
  <2> QED BY <1>5, <2>1, <2>2 DEF LinkP!SendDataStart
<1> QED BY <1>2, <1>3, <1>4, <1>5 DEF LinkP!TransferDone

-----------------------------------------------------------------------------
(***************************************************************************)
(* The invariant by its parts.                                             *)
(***************************************************************************)

OwnTypes ==
  /\ loop \in Loops
  /\ spils_data_in_received \in BOOLEAN /\ spils_data_out_sending \in BOOLEAN
  /\ Len(rx_fifo) <= FifoSize /\ Len(tx_fifo) <= FifoSize
  /\ tx_fifo \in Seq(OutPacket)
  /\ spi_packet \in OutPacket \cup {NULL}
  /\ read_available \in BOOLEAN
  /\ mayFetch \in BOOLEAN

LEMMA Parts ==
  /\ IInv <=> /\ OwnTypes /\ LinkP!IInv /\ PlaceInv /\ ContentInv /\ HandInv
              /\ BlindInv
  /\ IInv' <=> /\ OwnTypes' /\ LinkP!IInv' /\ PlaceInv' /\ ContentInv'
               /\ HandInv' /\ BlindInv'
<1>1. IInv <=> /\ OwnTypes /\ LinkP!IInv /\ PlaceInv /\ ContentInv /\ HandInv
               /\ BlindInv
  BY LinkTypes DEF IInv, TypeOK, OwnTypes, LinkP!IInv
<1> QED BY <1>1, PTL

(* A FIFO takes what there is room for, in order.                          *)
LEMMA PutIsBounded ==
  ASSUME NEW S, NEW fifo \in Seq(S), NEW packets \in Seq(S),
         Len(fifo) <= FifoSize
  PROVE  Put(fifo, packets) \in Seq(S) /\ Len(Put(fifo, packets)) <= FifoSize
<1> DEFINE room == FifoSize - Len(fifo)
           n == IF Len(packets) < room THEN Len(packets) ELSE room
<1>1. n \in Nat /\ n <= room /\ n <= Len(packets)
  BY SlaveAssumption
<1>2. SubSeq(packets, 1, n) \in Seq(S) /\ Len(SubSeq(packets, 1, n)) = n
  <2> HIDE DEF n
  <2>1. CASE n = 0
    BY <2>1, SubSeqProperties
  <2>2. CASE n # 0
    BY <1>1, <2>2, SubSeqProperties
  <2> QED BY <2>1, <2>2
<1>3. /\ fifo \o SubSeq(packets, 1, n) \in Seq(S)
      /\ Len(fifo \o SubSeq(packets, 1, n)) = Len(fifo) + n
  <2> HIDE DEF n
  <2> QED BY <1>2, ConcatProperties
<1>4. Put(fifo, packets) = fifo \o SubSeq(packets, 1, n)
  BY DEF Put
<1>5. Len(fifo) + n <= FifoSize
  <2> HIDE DEF n
  <2> QED BY <1>1, SlaveAssumption
<1> QED BY <1>3, <1>4, <1>5

(* An empty FIFO fits, and so does one with a packet less.                 *)
LEMMA ShorterIsBounded ==
  /\ \A S : <<>> \in Seq(S) /\ Len(<<>>) <= FifoSize
  /\ \A S : \A fifo \in Seq(S) :
       fifo # <<>> /\ Len(fifo) <= FifoSize =>
         /\ Head(fifo) \in S /\ Tail(fifo) \in Seq(S)
         /\ Len(Tail(fifo)) <= FifoSize
<1>1. \A S : <<>> \in Seq(S)
  OBVIOUS
<1>2. Len(<<>>) = 0 /\ FifoSize \in Nat
  BY SlaveAssumption
<1>3. ASSUME NEW S, NEW fifo \in Seq(S), fifo # <<>>, Len(fifo) <= FifoSize
      PROVE  /\ Head(fifo) \in S /\ Tail(fifo) \in Seq(S)
             /\ Len(Tail(fifo)) <= FifoSize
  <2>1. /\ Head(fifo) \in S /\ Tail(fifo) \in Seq(S)
        /\ Len(Tail(fifo)) = Len(fifo) - 1
    BY <1>3, HeadTailProperties
  <2>2. Len(fifo) \in Nat
    BY LenProperties
  <2> QED BY <1>2, <1>3, <2>1, <2>2
<1> QED BY <1>1, <1>2, <1>3

LEMMA PacketsTyped ==
  ASSUME IInv PROVE Packets \in Seq(InPacket)
<1>1. p_data \in Payload \cup {NULL}
  BY Parts DEF LinkP!IInv, LinkP!TypeOK, ContentInv, NULL, Link!NULL,
               LinkP!NULL
<1> QED BY <1>1, SlaveAssumption DEF Packets

LEMMA HandlerEffect ==
  ASSUME NEW ev, spils_event_handler(ev),
         spils_data_in_received \in BOOLEAN,
         spils_data_out_sending \in BOOLEAN
  PROVE  /\ spils_data_in_received' \in BOOLEAN
         /\ spils_data_out_sending' \in BOOLEAN
         /\ spils_data_in_received' <=>
              ("DATA_IN_READY" \in ev \/ spils_data_in_received)
         /\ spils_data_out_sending' <=>
              ("DATA_OUT_SENT" \notin ev /\ spils_data_out_sending)
BY DEF spils_event_handler

-----------------------------------------------------------------------------
(***************************************************************************)
(* The interrupt.                                                          *)
(***************************************************************************)

LEMMA TransferInv ==
  ASSUME IInv, NEW m \in Link!Messages \ OutPacket, Transfer(m) PROVE IInv'
<1>1. PICK ev \in SUBSET Link!Events :
        LinkP!TransferDone(m, ev) /\ spils_event_handler(ev)
  BY LinkTransfer DEF Transfer
<1>2. LinkP!IInv /\ LinkP!IInv'
  BY <1>1, Parts, LinkStepNext, LinkKept DEF LinkStep
<1>3. /\ UNCHANGED LinkP!mainVars
      /\ \A b \in LinkP!Buffers :
           inBuf'[b] \in {inBuf[b], "EMPTY", "CONSUMED", m}
  BY <1>1, <1>2, TransferInput
<1>4. Replied \/ Fetched(m)
  BY <1>1, <1>2, TransferOutput
<1>5. /\ spils_data_in_received' \in BOOLEAN
      /\ spils_data_out_sending' \in BOOLEAN
      /\ spils_data_out_sending' <=>
           (state # "DATA_SENDING" /\ spils_data_out_sending)
  BY <1>1, Parts, HandlerEffect, TransferSent DEF OwnTypes
<1>6. /\ UNCHANGED <<loop, fifoVars, ownVars>>
      /\ mayFetch' \in BOOLEAN
      /\ mayFetch' <=> (outBuf[tx] = "DATA_READY" /\ m # "RECV_START")
      /\ m = "RECV_START" => mayFetch \/ MasterAsksBlindly
  BY DEF Transfer
<1>7. OwnTypes'
  BY <1>5, <1>6, Parts DEF OwnTypes, fifoVars, ownVars
<1>8. PlaceInv'
  BY <1>3, <1>6, Parts DEF PlaceInv, LinkP!mainVars
<1>9. ContentInv'
  <2>1. "EMPTY" \notin OutPacket /\ "CONSUMED" \notin OutPacket
    BY LinkAssumption DEF Link!Reserved
  <2> QED BY <1>3, <1>6, <2>1, Parts
          DEF ContentInv, LinkP!mainVars, fifoVars, Link!Buffers,
              LinkP!Buffers
<1>10. HandInv'
  <2>1. pc = "send_available" =>
          p_buffer_out' = p_buffer_out /\ outBuf'[p_buffer_out] = outBuf[p_buffer_out]
    BY <1>2, <1>4
       DEF Replied, Fetched, LinkP!IInv, LinkP!MutexInv, LinkP!SendPcs
  <2> QED BY <1>3, <1>6, <2>1, Parts DEF HandInv, LinkP!mainVars, ownVars
<1>11. ASSUME ~MasterAsksBlindly PROVE FetchInv' /\ SendingInv'
  <2>1. FetchInv /\ SendingInv
    BY <1>11, Parts DEF BlindInv
  <2>2. CASE Replied
    <3>1. FetchInv'
      BY <1>6, <2>1, <2>2 DEF FetchInv, Replied
    <3>2. /\ state = "DATA_SENDING" => ~Pending' /\ ~spils_data_out_sending'
          /\ state # "DATA_SENDING" =>
               /\ Pending' <=> Pending
               /\ spils_data_out_sending' <=> spils_data_out_sending
      BY <1>5, <2>1, <2>2 DEF Pending, FetchInv, Replied
    <3>3. state = "DATA_SENDING" => Pending
      BY DEF Pending
    <3>4. SendingInv'
      BY <1>3, <1>6, <2>1, <3>2, <3>3
         DEF SendingInv, LinkP!mainVars, ownVars
    <3> QED BY <3>1, <3>4
  <2>3. CASE Fetched(m)
    <3>1. data_out_available /\ state # "DATA_SENDING" /\ ~mayFetch'
      BY <1>6, <1>11, <2>1, <2>3 DEF FetchInv, Fetched
    <3>2. tx' = p_buffer_out_cache'
      BY <1>2 DEF LinkP!IInv, LinkP!ArmedInv
    <3>3. outBuf'[tx'] # "DATA_READY"
      BY <2>3, <3>1, <3>2, LinkAssumption DEF Fetched, Link!Reserved
    <3>4. FetchInv'
      BY <2>3, <3>1, <3>3 DEF FetchInv, Fetched
    <3>5. Pending /\ Pending'
      BY <2>3, <3>1 DEF Pending, Fetched
    <3>6. spils_data_out_sending' <=> spils_data_out_sending
      BY <1>5, <3>1
    <3>7. SendingInv'
      BY <1>3, <1>6, <2>1, <3>5, <3>6
         DEF SendingInv, LinkP!mainVars, ownVars
    <3> QED BY <3>4, <3>7
  <2> QED BY <1>4, <2>2, <2>3
<1> QED BY <1>2, <1>7, <1>8, <1>9, <1>10, <1>11, Parts DEF BlindInv

-----------------------------------------------------------------------------
(***************************************************************************)
(* The main loop.                                                          *)
(***************************************************************************)

(* A step of the call in progress.                                         *)
LEMMA CallInv ==
  ASSUME IInv, Call PROVE IInv'
<1>1. PICK ev \in SUBSET Link!Events :
        LinkP!CallStep(ev) /\ spils_event_handler(ev)
  BY LinkCall DEF Call
<1>2. LinkP!IInv /\ LinkP!IInv'
  BY <1>1, Parts, LinkStepNext, LinkKept DEF LinkStep
<1>3. UNCHANGED <<loop, fifoVars, ownVars, mayFetch>>
  BY DEF Call
<1>4. "DATA_OUT_SENT" \notin ev
  BY <1>1 DEF LinkP!CallStep, LinkP!InitStep, LinkP!MoveStep,
              LinkP!MoveEvent, LinkP!ReadStep, LinkP!SendStep
<1>5. /\ spils_data_in_received' \in BOOLEAN
      /\ spils_data_out_sending' \in BOOLEAN
      /\ spils_data_out_sending' <=> spils_data_out_sending
  BY <1>1, <1>4, Parts, HandlerEffect DEF OwnTypes
<1>6. OwnTypes'
  BY <1>3, <1>5, Parts DEF OwnTypes, fifoVars, ownVars
<1> USE DEF LinkP!Goto, LinkP!IInv, LinkP!TypeOK, LinkP!MutexInv,
            LinkP!OutputInv, LinkP!ArmedInv, LinkP!inVars, LinkP!outVars,
            LinkP!armVars, LinkP!InitPcs, LinkP!MovePcs, LinkP!ReadPcs,
            LinkP!SendPcs
<1> USE DEF PlaceInv, ContentInv, HandInv, SendPcs, FetchInv, SendingInv,
            Pending, BlindInv, fifoVars, ownVars
<1>7. PlaceInv /\ ContentInv /\ HandInv /\ BlindInv
  BY Parts
<1>8. "EMPTY" \notin OutPacket /\ "CONSUMED" \notin OutPacket
      /\ NULL \notin OutPacket
  BY LinkAssumption DEF Link!Reserved, NULL, Link!NULL
<1>9. CASE LinkP!InitStep(ev)
  <2>1. /\ UNCHANGED <<inBuf, outBuf, p_data, result, data_out_available,
                       sending, tx, p_buffer_out, p_buffer_out_cache>>
        /\ pc \in LinkP!InitPcs /\ pc' \in {"init_store", "idle"}
        /\ state' \in {state, "LISTENING"}
    BY <1>9 DEF LinkP!InitStep, LinkP!InitLook, LinkP!InitStore
  <2>2. PlaceInv' /\ ContentInv' /\ HandInv'
    BY <1>3, <1>7, <2>1
  <2>3. ~MasterAsksBlindly => state # "DATA_SENDING" /\ loop = "app"
    BY <1>2, <1>7, <2>1
  <2>4. BlindInv'
    BY <1>3, <1>5, <1>7, <2>1, <2>3
  <2> QED BY <1>2, <1>6, <2>2, <2>4, Parts
<1>10. CASE LinkP!MoveEvent(ev)
  BY <1>2, <1>3, <1>5, <1>6, <1>7, <1>10, Parts DEF LinkP!MoveEvent
<1>11. CASE LinkP!MoveStep(ev)
  <2>1. /\ UNCHANGED <<inBuf, outBuf, p_data, result, data_out_available, state,
                       sending, tx, p_buffer_out, p_buffer_out_cache>>
        /\ pc \in LinkP!MovePcs \cup {"move_trylock"}
        /\ pc' \in LinkP!MovePcs \cup {"move_event", "idle"}
    BY <1>11
       DEF LinkP!MoveStep, LinkP!MoveTrylock, LinkP!MoveCheckCache,
           LinkP!MoveNothing, LinkP!MoveCheckIn, LinkP!MoveFailUnlock,
           LinkP!MoveSwapIn, LinkP!MoveSwapCache, LinkP!MoveAvailable,
           LinkP!MoveNotBusy, LinkP!MoveUnlock
  <2>2. PlaceInv' /\ ContentInv' /\ HandInv'
    BY <1>3, <1>7, <2>1
  <2>3. BlindInv'
    BY <1>3, <1>5, <1>7, <2>1
  <2> QED BY <1>2, <1>6, <2>2, <2>3, Parts
<1>12. CASE LinkP!ReadStep(ev)
  <2>1. /\ UNCHANGED <<outBuf, data_out_available, state, sending, tx,
                       p_buffer_out, p_buffer_out_cache>>
        /\ pc \in LinkP!ReadPcs \cup {"read_trylock"}
        /\ pc' \in LinkP!ReadPcs \cup {"idle"}
        /\ result' = result
        /\ \A b \in Link!Buffers : inBuf'[b] \in {inBuf[b], "EMPTY", "CONSUMED"}
        /\ pc' = "read_copy" => pc = "read_trylock" /\ p_data' = p_data
        /\ pc' # "read_trylock"
        /\ p_data' \in {p_data, inBuf[p_buffer_in]}
    BY <1>2, <1>7, <1>12
       DEF LinkP!ReadStep, LinkP!ReadTrylock, LinkP!ReadCopy,
           LinkP!ReadRecycle, LinkP!ReadNotAvailable, LinkP!ReadUnlock,
           Link!Buffers, LinkP!Buffers
  <2>2. PlaceInv' /\ HandInv'
    BY <1>3, <1>7, <2>1
  <2>3. ContentInv'
    BY <1>2, <1>3, <1>7, <1>8, <2>1 DEF Link!Buffers, LinkP!Buffers
  <2>4. BlindInv'
    BY <1>3, <1>5, <1>7, <2>1
  <2> QED BY <1>2, <1>6, <2>2, <2>3, <2>4, Parts
<1>13. CASE LinkP!SendStep(ev)
  <2>1. /\ UNCHANGED <<inBuf, p_data, state, tx, p_buffer_out,
                       p_buffer_out_cache, mutex_in>>
        /\ pc \in SendPcs \cup {"send_unlock"}
        /\ result' \in {result, "OK"}
        /\ outBuf'[p_buffer_out_cache] = outBuf[p_buffer_out_cache]
        /\ \/ pc \in SendPcs \ {"send_available"} /\ pc' \in SendPcs
              /\ UNCHANGED data_out_available
           \/ pc = "send_available" /\ pc' = "send_unlock"
              /\ data_out_available' = TRUE
           \/ pc = "send_unlock" /\ pc' = "idle"
              /\ UNCHANGED data_out_available
    BY <1>2, <1>13
       DEF LinkP!SendStep, LinkP!SendTrylock, LinkP!SendHeader,
           LinkP!SendPayload, LinkP!SendAvailable, LinkP!SendUnlock
  <2>2. PlaceInv' /\ ContentInv'
    BY <1>3, <1>7, <2>1
  <2>3. HandInv'
    BY <1>2, <1>3, <1>7, <1>13
       DEF LinkP!SendStep, LinkP!SendTrylock, LinkP!SendHeader,
           LinkP!SendPayload, LinkP!SendAvailable, LinkP!SendUnlock
  <2>4. BlindInv'
    BY <1>2, <1>3, <1>5, <1>7, <2>1
  <2> QED BY <1>2, <1>6, <2>2, <2>3, <2>4, Parts
<1> QED BY <1>1, <1>9, <1>10, <1>11, <1>12, <1>13 DEF LinkP!CallStep

(* The calls of run( ): each starts with the link idle.                    *)
LEMMA StartInv ==
  ASSUME IInv, run \/ DataInRead \/ DataOutSend PROVE IInv'
<1> USE DEF PlaceInv, ContentInv, HandInv, SendPcs, FetchInv, SendingInv,
            Pending, BlindInv, OwnTypes, Loops, Goto, Returned,
            LinkP!inVars, LinkP!outVars, LinkP!armVars, LinkP!InitPcs,
            LinkP!MovePcs, LinkP!ReadPcs, flagVars, fifoVars, ownVars
<1>1. OwnTypes /\ PlaceInv /\ ContentInv /\ HandInv /\ BlindInv
  BY Parts
<1>2. NULL \notin OutPacket /\ LinkP!NULL = NULL
  BY LinkAssumption DEF Link!Reserved, NULL, Link!NULL, LinkP!NULL
<1>3. {} \in SUBSET Link!Events
  OBVIOUS
<1>4. CASE run
  <2>1. LinkP!Poll({})
    BY <1>4, LinkPoll DEF run
  <2>2. LinkP!IInv'
    BY <1>3, <2>1, Parts, LinkStepNext, LinkKept DEF LinkStep
  <2>3. OwnTypes' /\ PlaceInv' /\ ContentInv' /\ HandInv'
    BY <1>1, <1>2, <1>4, <2>1 DEF run, LinkP!Poll
  <2>4. BlindInv'
    BY <1>1, <1>4, <2>1 DEF run, LinkP!Poll
  <2> QED BY <2>2, <2>3, <2>4, Parts
<1>5. CASE DataInRead
  <2>1. LinkP!Read({})
    BY <1>5, LinkRead DEF DataInRead
  <2>2. LinkP!IInv'
    BY <1>3, <2>1, Parts, LinkStepNext, LinkKept DEF LinkStep
  <2>3. OwnTypes' /\ PlaceInv' /\ ContentInv' /\ HandInv'
    BY <1>1, <1>2, <1>5, <2>1 DEF DataInRead, LinkP!Read
  <2>4. BlindInv'
    BY <1>1, <1>5, <2>1 DEF DataInRead, LinkP!Read
  <2> QED BY <2>2, <2>3, <2>4, Parts
<1>6. CASE DataOutSend
  <2>1. LinkP!Send(spi_packet, {}) /\ spi_packet \in OutPacket
    BY <1>1, <1>6, LinkSend DEF DataOutSend
  <2>2. LinkP!IInv'
    BY <1>3, <2>1, Parts, LinkStepNext, LinkKept DEF LinkStep
  <2>3. OwnTypes' /\ PlaceInv' /\ ContentInv' /\ HandInv'
    BY <1>1, <1>2, <1>6, <2>1 DEF DataOutSend, LinkP!Send
  <2>4. BlindInv'
    BY <1>1, <1>6, <2>1 DEF DataOutSend, LinkP!Send
  <2> QED BY <2>2, <2>3, <2>4, Parts
<1> QED BY <1>4, <1>5, <1>6

(* The steps between the calls, which touch the flags and the FIFOs only.  *)
LEMMA LoopInv ==
  ASSUME IInv,
         DataInCheck \/ DataInReadAvailable \/ DataInStore \/ DataOutCheck
           \/ DataOutFlag \/ DataOutReturned
  PROVE  IInv'
<1>1. OwnTypes /\ PlaceInv /\ ContentInv /\ HandInv /\ BlindInv
  BY Parts
<1>2. UNCHANGED linkVars
  BY DEF DataInCheck, DataInReadAvailable, DataInStore, DataOutCheck,
         DataOutFlag, DataOutReturned
<1>3. LinkP!IInv'
  BY <1>2, Parts, LinkKept
<1> USE DEF PlaceInv, ContentInv, HandInv, SendPcs, FetchInv, SendingInv,
            Pending, BlindInv, OwnTypes, Loops, Goto, Returned, linkVars,
            LinkP!MovePcs, LinkP!ReadPcs, flagVars, fifoVars, ownVars
<1>4. CASE DataInCheck
  BY <1>1, <1>2, <1>3, <1>4, Parts DEF DataInCheck
<1>5. CASE DataInReadAvailable
  <2>1. read_available' \in BOOLEAN
    BY <1>5 DEF DataInReadAvailable
  <2>2. OwnTypes' /\ PlaceInv' /\ ContentInv' /\ HandInv'
    BY <1>1, <1>2, <1>5, <2>1 DEF DataInReadAvailable
  <2>3. BlindInv'
    BY <1>1, <1>2, <1>5 DEF DataInReadAvailable
  <2> QED BY <1>3, <2>2, <2>3, Parts
<1>6. CASE DataInStore
  <2>1. /\ read_available' \in BOOLEAN
        /\ spils_data_in_received' \in BOOLEAN
    BY <1>1, <1>6 DEF DataInStore
  <2>2. rx_fifo' \in Seq(InPacket) /\ Len(rx_fifo') <= FifoSize
    BY <1>1, <1>6, PacketsTyped, PutIsBounded DEF DataInStore
  <2>3. OwnTypes' /\ PlaceInv' /\ ContentInv' /\ HandInv'
    BY <1>1, <1>2, <1>6, <2>1, <2>2 DEF DataInStore
  <2>4. BlindInv'
    BY <1>1, <1>2, <1>6 DEF DataInStore
  <2> QED BY <1>3, <2>3, <2>4, Parts
<1>7. CASE DataOutCheck
  <2>1. CASE spils_data_out_sending \/ tx_fifo = <<>>
    BY <1>1, <1>2, <1>3, <1>7, <2>1, Parts DEF DataOutCheck
  <2>2. CASE ~(spils_data_out_sending \/ tx_fifo = <<>>)
    <3>1. /\ Head(tx_fifo) \in OutPacket
          /\ Tail(tx_fifo) \in Seq(OutPacket)
          /\ Len(Tail(tx_fifo)) <= FifoSize
      BY <1>1, <2>2, ShorterIsBounded
    <3>2. Len(tx_fifo') <= FifoSize /\ tx_fifo' \in Seq(OutPacket)
      BY <1>1, <1>7, <2>2, <3>1 DEF DataOutCheck
    <3>3. spi_packet' \in OutPacket
      BY <1>7, <2>2, <3>1 DEF DataOutCheck
    <3>4. OwnTypes' /\ PlaceInv' /\ ContentInv' /\ HandInv'
      BY <1>1, <1>2, <1>7, <2>2, <3>2, <3>3 DEF DataOutCheck
    <3>5. BlindInv'
      BY <1>1, <1>2, <1>7, <2>2 DEF DataOutCheck
    <3> QED BY <1>3, <3>4, <3>5, Parts
  <2> QED BY <2>1, <2>2
<1>8. CASE DataOutFlag
  <2>1. spils_data_out_sending' \in BOOLEAN
    BY <1>8 DEF DataOutFlag
  <2>2. OwnTypes' /\ PlaceInv' /\ ContentInv' /\ HandInv'
    BY <1>1, <1>2, <1>8, <2>1 DEF DataOutFlag
  <2>3. BlindInv'
    BY <1>1, <1>2, <1>8 DEF DataOutFlag
  <2> QED BY <1>3, <2>2, <2>3, Parts
<1>9. CASE DataOutReturned
  <2>1. spils_data_out_sending' \in BOOLEAN
        /\ spils_data_out_sending' <=> (result = "OK" /\ spils_data_out_sending)
    BY <1>9 DEF DataOutReturned
  <2>2. OwnTypes' /\ PlaceInv' /\ ContentInv' /\ HandInv'
    BY <1>1, <1>2, <1>9, <2>1 DEF DataOutReturned
  <2>3. BlindInv'
    BY <1>1, <1>2, <1>9, <2>1 DEF DataOutReturned
  <2> QED BY <1>3, <2>2, <2>3, Parts
<1> QED BY <1>4, <1>5, <1>6, <1>7, <1>8, <1>9

(* The layers above.                                                       *)
LEMMA AppInv ==
  ASSUME IInv, App PROVE IInv'
<1>1. OwnTypes /\ PlaceInv /\ ContentInv /\ HandInv /\ BlindInv
  BY Parts
<1>2. UNCHANGED <<linkVars, loop, flagVars, ownVars, mayFetch>>
  BY DEF App, sendPacket, readPacket, clearSend, clearRead, AppRest
<1>3. LinkP!IInv'
  BY <1>2, Parts, LinkKept
<1>4. tx_fifo' \in Seq(OutPacket) /\ Len(tx_fifo') <= FifoSize
  <2>1. ASSUME NEW k \in OutPacket, sendPacket(k)
        PROVE  tx_fifo' \in Seq(OutPacket) /\ Len(tx_fifo') <= FifoSize
    <3>1. <<k>> \in Seq(OutPacket)
      OBVIOUS
    <3> QED BY <1>1, <2>1, <3>1, PutIsBounded DEF sendPacket, OwnTypes
  <2> QED BY <1>1, <2>1, ShorterIsBounded
          DEF App, readPacket, clearRead, clearSend, OwnTypes
<1>5. rx_fifo' \in Seq(InPacket) /\ Len(rx_fifo') <= FifoSize
  BY <1>1, ShorterIsBounded
     DEF App, sendPacket, readPacket, clearRead, clearSend, ContentInv, OwnTypes
<1>6. OwnTypes'
  BY <1>1, <1>2, <1>4, <1>5 DEF OwnTypes, flagVars, ownVars
<1>7. PlaceInv' /\ ContentInv' /\ HandInv'
  BY <1>1, <1>2, <1>5
     DEF PlaceInv, ContentInv, HandInv, linkVars, ownVars
<1>8. BlindInv'
  BY <1>1, <1>2
     DEF BlindInv, FetchInv, SendingInv, Pending, linkVars, flagVars
<1> QED BY <1>3, <1>6, <1>7, <1>8, Parts

LEMMA InitInv == Init => IInv
<1> SUFFICES ASSUME Init PROVE IInv
  OBVIOUS
<1>1. LinkP!Init /\ LinkP!IInv
  BY LinkStart, LinkP!InitInv, LinkNames DEF Init
<1>2. NULL \notin OutPacket /\ LinkP!NULL = NULL
      /\ "EMPTY" \notin OutPacket
  BY LinkAssumption DEF Link!Reserved, NULL, Link!NULL, LinkP!NULL
<1>3. OwnTypes
  BY ShorterIsBounded DEF Init, OwnTypes, Loops
<1>4. PlaceInv /\ ContentInv /\ HandInv
  BY <1>1, <1>2
     DEF Init, LinkP!Init, PlaceInv, ContentInv, HandInv, SendPcs,
         LinkP!MovePcs, LinkP!ReadPcs, Link!Buffers, LinkP!Buffers
<1>5. BlindInv
  BY <1>1
     DEF Init, LinkP!Init, BlindInv, FetchInv, SendingInv, Pending,
         LinkP!Buffers
<1> QED BY <1>1, <1>3, <1>4, <1>5, Parts

LEMMA NextInv == IInv /\ [Next]_vars => IInv'
<1> SUFFICES ASSUME IInv, [Next]_vars PROVE IInv'
  OBVIOUS
<1>1. CASE UNCHANGED vars
  <2>1. LinkP!IInv'
    BY <1>1, Parts, LinkKept DEF vars
  <2> QED BY <1>1, <2>1, Parts
          DEF vars, linkVars, flagVars, fifoVars, ownVars, OwnTypes, PlaceInv,
              ContentInv, HandInv, BlindInv, FetchInv, SendingInv, Pending
<1>2. CASE LoopStep
  BY <1>2, CallInv, StartInv, LoopInv DEF LoopStep
<1> QED BY <1>1, <1>2, TransferInv, AppInv DEF Next

(* IInv holds in every reachable state, of a blind master too.             *)
THEOREM Invariance == Spec => []IInv
BY InitInv, NextInv, PTL DEF Spec

-----------------------------------------------------------------------------
(***************************************************************************)
(* What the inductive invariant means for the class.                       *)
(***************************************************************************)

(* The variables keep their ranges, the FIFOs their size, and only packets *)
(* of the layers above are queued for the master.                          *)
THEOREM TypeCorrect == Spec => []TypeOK
<1>1. IInv => TypeOK
  BY DEF IInv
<1> QED BY <1>1, Invariance, PTL

(* The assertion in data_out_process can not fail: the link is free when a *)
(* packet has left the FIFO, for a master that asks only after DATA_READY. *)
THEOREM SendingSucceeds ==
  ~MasterAsksBlindly => (Spec => []SendNeverFails)
<1> SUFFICES ASSUME ~MasterAsksBlindly PROVE Spec => []SendNeverFails
  OBVIOUS
<1>1. IInv => SendNeverFails
  BY DEF IInv, BlindInv, SendingInv, SendNeverFails
<1> QED BY <1>1, Invariance, PTL

(* The flag that stops the next packet is set exactly while there is one   *)
(* for the master: this side neither overruns the link nor falls silent.   *)
THEOREM SendingIsPending ==
  ~MasterAsksBlindly => (Spec => []SendingMeansPending)
<1> SUFFICES ASSUME ~MasterAsksBlindly PROVE Spec => []SendingMeansPending
  OBVIOUS
<1>1. IInv => SendingMeansPending
  <2> SUFFICES ASSUME IInv, loop \notin {"out_send", "out_call"}
               PROVE  spils_data_out_sending <=> Link!ToMaster # <<>>
    BY DEF SendingMeansPending
  <2>1. FetchInv /\ (spils_data_out_sending <=> Pending)
    BY DEF IInv, BlindInv, SendingInv
  <2>2. Link!ToMaster = LinkP!ToMaster
    BY DEF Link!ToMaster, LinkP!ToMaster
  <2>3. LinkP!MasterContent
    BY LinkP!MasterIs, LinkNames
  <2>4. state # "DATA_SENDING" =>
          outBuf[p_buffer_out_cache] \notin Payload \cup OutPacket
    BY LinkAssumption
       DEF IInv, LinkP!IInv, LinkP!OutputInv, LinkP!Results, Link!Reserved
  <2>5. state # "DATA_SENDING" => (LinkP!ToMaster # <<>> <=> data_out_available)
    BY <2>3, <2>4 DEF LinkP!MasterContent
  <2>6. state = "DATA_SENDING" => LinkP!ToMaster # <<>>
    BY <2>1, <2>3 DEF LinkP!MasterContent, FetchInv
  <2> QED BY <2>1, <2>2, <2>5, <2>6 DEF Pending
<1> QED BY <1>1, Invariance, PTL

(* The interrupt and the end of a move say it through the event handler,   *)
(* and no step but the store of an older flag value takes the flag back.   *)
LEMMA NoticedNext ==
  ASSUME IInv, [Next]_vars, InputNoticed, ~InputNoticed'
  PROVE  loop = "in_store" /\ loop' = "out_check" /\ ~read_available
<1>1. LinkP!IInv /\ OwnTypes
  BY Parts
<1>2. ASSUME NEW m \in Link!Messages \ OutPacket, Transfer(m) PROVE FALSE
  <2>1. PICK ev \in SUBSET Link!Events :
          LinkP!TransferDone(m, ev) /\ spils_event_handler(ev)
    BY <1>2, LinkTransfer DEF Transfer
  <2>2. /\ pc' = pc
        /\ data_in_available' => data_in_available \/ "DATA_IN_READY" \in ev
    BY <1>1, <2>1, TransferInput DEF LinkP!mainVars
  <2>3. spils_data_in_received' <=>
          ("DATA_IN_READY" \in ev \/ spils_data_in_received)
    BY <1>1, <2>1, HandlerEffect DEF OwnTypes
  <2> QED BY <2>2, <2>3 DEF InputNoticed
<1>3. ASSUME Call PROVE FALSE
  <2>1. PICK ev \in SUBSET Link!Events :
          LinkP!CallStep(ev) /\ spils_event_handler(ev)
    BY <1>3, LinkCall DEF Call
  <2>2. spils_data_in_received' <=>
          ("DATA_IN_READY" \in ev \/ spils_data_in_received)
    BY <1>1, <2>1, HandlerEffect DEF OwnTypes
  <2> USE DEF InputNoticed, LinkP!Goto, LinkP!inVars
  <2>3. CASE LinkP!InitStep(ev)
    BY <2>2, <2>3 DEF LinkP!InitStep, LinkP!InitLook, LinkP!InitStore
  <2>4. CASE LinkP!MoveEvent(ev)
    BY <2>2, <2>4 DEF LinkP!MoveEvent
  <2>5. CASE LinkP!MoveStep(ev)
    <3>1. \/ UNCHANGED data_in_available
             /\ pc \notin {"move_not_busy", "move_unlock", "move_event"}
          \/ pc' \in {"move_not_busy", "move_unlock", "move_event"}
      BY <2>5
         DEF LinkP!MoveStep, LinkP!MoveTrylock, LinkP!MoveCheckCache,
             LinkP!MoveNothing, LinkP!MoveCheckIn, LinkP!MoveFailUnlock,
             LinkP!MoveSwapIn, LinkP!MoveSwapCache, LinkP!MoveAvailable,
             LinkP!MoveNotBusy, LinkP!MoveUnlock
    <3> QED BY <2>2, <3>1
  <2>6. CASE LinkP!ReadStep(ev)
    BY <2>2, <2>6
       DEF LinkP!ReadStep, LinkP!ReadTrylock, LinkP!ReadCopy,
           LinkP!ReadRecycle, LinkP!ReadNotAvailable, LinkP!ReadUnlock
  <2>7. CASE LinkP!SendStep(ev)
    BY <2>2, <2>7
       DEF LinkP!SendStep, LinkP!SendTrylock, LinkP!SendHeader,
           LinkP!SendPayload, LinkP!SendAvailable, LinkP!SendUnlock
  <2> QED BY <2>1, <2>3, <2>4, <2>5, <2>6, <2>7 DEF LinkP!CallStep
<1>4. ASSUME run \/ DataInRead \/ DataOutSend PROVE FALSE
  <2>1. LinkP!Poll({}) \/ LinkP!Read({}) \/ LinkP!Send(spi_packet, {})
    BY <1>4, LinkPoll, LinkRead, LinkSend DEF run, DataInRead, DataOutSend
  <2>2. pc = "idle" /\ UNCHANGED data_in_available
    BY <2>1 DEF LinkP!Poll, LinkP!Read, LinkP!Send, LinkP!inVars
  <2>3. UNCHANGED spils_data_in_received
    BY <1>4 DEF run, DataInRead, DataOutSend, flagVars
  <2> QED BY <2>2, <2>3 DEF InputNoticed
<1>5. ASSUME DataInStore
      PROVE  loop = "in_store" /\ loop' = "out_check" /\ ~read_available
  BY <1>5 DEF DataInStore, Goto, InputNoticed, linkVars
<1>6. ASSUME \/ DataInCheck \/ DataInReadAvailable \/ DataOutCheck
             \/ DataOutFlag \/ DataOutReturned \/ App \/ UNCHANGED vars
      PROVE  FALSE
  <2>1. UNCHANGED <<data_in_available, spils_data_in_received, pc>>
    BY <1>6
       DEF DataInCheck, DataInReadAvailable, DataOutCheck, DataOutFlag,
           DataOutReturned, App, sendPacket, readPacket, clearSend,
           clearRead, AppRest, vars, linkVars, flagVars
  <2> QED BY <2>1 DEF InputNoticed
<1> QED BY <1>2, <1>3, <1>4, <1>5, <1>6 DEF Next, LoopStep

(* Input the link has announced is only ever overlooked through the store  *)
(* of a flag that is older than the interrupt that announced it.           *)
THEOREM OnlyTheStaleStore == Spec => OnlyStaleStoreLosesInput
<1>1. IInv /\ [Next]_vars =>
        [(InputNoticed /\ ~InputNoticed') =>
           (loop = "in_store" /\ loop' = "out_check" /\ ~read_available)]_vars
  BY NoticedNext
<1> QED BY <1>1, Invariance, PTL DEF Spec, OnlyStaleStoreLosesInput

-----------------------------------------------------------------------------
(***************************************************************************)
(* The two queues: facts about sequences.                                  *)
(***************************************************************************)

LEMMA PrefixOfConcat ==
  ASSUME NEW S, NEW a \in Seq(S), NEW b \in Seq(S)
  PROVE  SubSeq(a \o b, 1, Len(a)) = a
<1>1. Len(a) \in Nat
  BY LenProperties
<1>2. CASE Len(a) = 0
  <2>1. a = <<>>
    BY <1>2, EmptySeq
  <2>2. SubSeq(a \o b, 1, 0) = <<>>
    BY SubSeqEmpty
  <2> QED BY <1>2, <2>1, <2>2
<1>3. CASE Len(a) # 0
  <2>1. 1 \in 1..Len(a) /\ Len(a) \in 1..Len(a)
    BY <1>1, <1>3
  <2> QED BY <2>1, SubSeqOfConcat1, SubSeqFull
<1> QED BY <1>2, <1>3

LEMMA SuffixOfConcat ==
  ASSUME NEW S, NEW a \in Seq(S), NEW b \in Seq(S)
  PROVE  SubSeq(a \o b, Len(a) + 1, Len(a \o b)) = b
<1>1. Len(a) \in Nat /\ Len(b) \in Nat /\ Len(a \o b) = Len(a) + Len(b)
  BY LenProperties, ConcatProperties
<1>2. CASE Len(b) = 0
  <2>1. b = <<>>
    BY <1>2, EmptySeq
  <2>2. SubSeq(a \o b, Len(a) + 1, Len(a)) = <<>>
    BY <1>1, SubSeqEmpty
  <2> QED BY <1>1, <1>2, <2>1, <2>2
<1>3. CASE Len(b) # 0
  <2>1. /\ Len(a) + 1 \in Len(a)+1 .. Len(a)+Len(b)
        /\ Len(a) + Len(b) \in Len(a)+1 .. Len(a)+Len(b)
    BY <1>1, <1>3
  <2>2. SubSeq(a \o b, Len(a) + 1, Len(a) + Len(b))
          = SubSeq(b, (Len(a) + 1) - Len(a), (Len(a) + Len(b)) - Len(a))
    BY <2>1, SubSeqOfConcat2
  <2>3. (Len(a) + 1) - Len(a) = 1 /\ (Len(a) + Len(b)) - Len(a) = Len(b)
    BY <1>1
  <2> QED BY <1>1, <2>2, <2>3, SubSeqFull
<1> QED BY <1>2, <1>3

LEMMA HeadAndTail ==
  ASSUME NEW S, NEW a \in Seq(S), a # <<>>
  PROVE  a = <<Head(a)>> \o Tail(a)
<1>1. Len(a) \in Nat \ {0}
  BY EmptySeq
<1>2. 1 \in 1..Len(a) /\ Len(a) \in 1..Len(a)
  BY <1>1
<1>3. SubSeq(a, 1, Len(a)) = <<a[1]>> \o SubSeq(a, 1 + 1, Len(a))
  BY <1>2, SubSeqRecursiveFirst
<1>4. a[1] = Head(a)
  OBVIOUS
<1> QED BY <1>3, <1>4, SubSeqFull, TailIsSubSeq

LEMMA TailOfConcat ==
  ASSUME NEW S, NEW a \in Seq(S), NEW b \in Seq(S), a # <<>>
  PROVE  /\ Tail(a \o b) = Tail(a) \o b
         /\ a \o b # <<>>
<1>1. /\ Head(a) \in S /\ Tail(a) \in Seq(S)
      /\ Len(a) \in Nat \ {0} /\ Len(b) \in Nat
  BY HeadTailProperties, LenProperties, EmptySeq
<1>2. a \o b \in Seq(S) /\ Len(a \o b) = Len(a) + Len(b)
  BY ConcatProperties
<1>3. a \o b # <<>>
  BY <1>1, <1>2, EmptySeq
<1>4. a = <<Head(a)>> \o Tail(a)
  BY HeadAndTail
<1>5. a \o b = <<Head(a)>> \o (Tail(a) \o b)
  <2>1. <<Head(a)>> \in Seq(S)
    BY <1>1
  <2> QED BY <1>1, <1>4, <2>1, ConcatAssociative
<1>6. \A c \in Seq(S) : Tail(<<Head(a)>> \o c) = c
  <2> SUFFICES ASSUME NEW c \in Seq(S) PROVE Tail(<<Head(a)>> \o c) = c
    OBVIOUS
  <2>1. <<Head(a)>> \in Seq(S) /\ Len(<<Head(a)>>) = 1
    BY <1>1
  <2>2. /\ <<Head(a)>> \o c \in Seq(S)
        /\ Len(<<Head(a)>> \o c) = 1 + Len(c)
    BY <2>1, ConcatProperties
  <2>3. <<Head(a)>> \o c # <<>>
    BY <2>2, LenProperties, EmptySeq
  <2>4. Tail(<<Head(a)>> \o c) = SubSeq(<<Head(a)>> \o c, 1 + 1, Len(<<Head(a)>> \o c))
    BY <2>2, <2>3, TailIsSubSeq
  <2> QED BY <2>1, <2>4, SuffixOfConcat
<1>7. Tail(a) \o b \in Seq(S)
  BY <1>1, ConcatProperties
<1> QED BY <1>3, <1>5, <1>6, <1>7

LEMMA Regroup ==
  ASSUME NEW S, NEW a \in Seq(S), NEW b \in Seq(S), NEW c \in Seq(S),
         NEW d \in Seq(S)
  PROVE  (a \o (b \o c)) \o d = (a \o b) \o (c \o d)
<1> DEFINE e == a \o b
<1>1. e \in Seq(S)
  BY ConcatProperties
<1>2. a \o (b \o c) = e \o c
  BY ConcatAssociative, SMTT(60)
<1> HIDE DEF e
<1>3. (e \o c) \o d = e \o (c \o d)
  BY <1>1, ConcatAssociative, SMTT(60)
<1> QED BY <1>2, <1>3 DEF e

(* What a full FIFO has no room for is cut out of the queue behind it.     *)
CutOut(x, y) ==
  \/ y = x
  \/ \E n \in 1..(Len(x) - FifoSize) :
       y = SubSeq(x, 1, FifoSize) \o SubSeq(x, FifoSize + n + 1, Len(x))

LEMMA StoreCutsOut ==
  ASSUME NEW S, NEW r \in Seq(S), NEW p \in Seq(S), NEW u \in Seq(S),
         Len(r) <= FifoSize
  PROVE  CutOut((r \o p) \o u, Put(r, p) \o u)
<1> DEFINE room == FifoSize - Len(r)
           x == (r \o p) \o u
<1>1. Len(r) \in Nat /\ Len(p) \in Nat /\ Len(u) \in Nat /\ FifoSize \in Nat
  BY LenProperties, SlaveAssumption
<1>2. CASE Len(p) <= room
  <2>1. (IF Len(p) < room THEN Len(p) ELSE room) = Len(p)
    BY <1>1, <1>2
  <2>2. Put(r, p) = r \o SubSeq(p, 1, Len(p))
    BY <2>1 DEF Put
  <2> QED BY <2>2, SubSeqFull DEF CutOut
<1>3. CASE Len(p) > room
  <2> DEFINE p1 == SubSeq(p, 1, room)
             p2 == SubSeq(p, room + 1, Len(p))
             n == Len(p) - room
  <2>1. Put(r, p) = r \o p1
    BY <1>1, <1>3 DEF Put
  <2>2. room \in Nat /\ room <= Len(p) /\ n \in Nat \ {0}
    BY <1>1, <1>3
  <2>3. /\ p1 \in Seq(S) /\ Len(p1) = room
        /\ p2 \in Seq(S)
    <3> HIDE DEF room
    <3>1. /\ \A i \in 1..room : p[i] \in S
          /\ \A i \in room + 1..Len(p) : p[i] \in S
      BY <1>1, <2>2, ElementOfSeq
    <3> QED BY <1>1, <2>2, <3>1, SubSeqProperties
  <2>4. p = p1 \o p2
    <3>1. 1 \in 1..Len(p)+1 /\ room \in (1 - 1)..Len(p) /\ Len(p) \in room..Len(p)
      BY <1>1, <2>2
    <3> HIDE DEF room
    <3> QED BY <3>1, ConcatAdjacentSubSeq, SubSeqFull
  <2> HIDE DEF p1, p2
  <2>5. /\ r \o p1 \in Seq(S) /\ Len(r \o p1) = FifoSize
        /\ p2 \o u \in Seq(S)
        /\ r \o p \in Seq(S) /\ Len(r \o p) = Len(r) + Len(p)
    BY <1>1, <2>3, ConcatProperties
  <2>6. x = (r \o p1) \o (p2 \o u)
    <3>1. (r \o (p1 \o p2)) \o u = (r \o p1) \o (p2 \o u)
      BY <2>3, Regroup, SMTT(60)
    <3> QED BY <2>4, <3>1
  <2>7. SubSeq(x, 1, FifoSize) = r \o p1
    BY <2>5, <2>6, PrefixOfConcat
  <2>8. FifoSize + n + 1 = Len(r \o p) + 1
    BY <1>1, <2>5
  <2>9. SubSeq(x, FifoSize + n + 1, Len(x)) = u
    BY <2>5, <2>8, SuffixOfConcat
  <2>10. Len(x) = Len(r) + Len(p) + Len(u)
    BY <2>5, ConcatProperties
  <2>11. n \in 1..(Len(x) - FifoSize)
    BY <1>1, <2>2, <2>10
  <2>12. Put(r, p) \o u = SubSeq(x, 1, FifoSize)
                            \o SubSeq(x, FifoSize + n + 1, Len(x))
    BY <2>1, <2>7, <2>9
  <2> HIDE DEF x, n
  <2>13. CutOut(x, Put(r, p) \o u)
    BY <2>11, <2>12, Zenon DEF CutOut
  <2> QED BY <2>13 DEF x
<1>4. Len(p) <= room \/ Len(p) > room
  BY <1>1
<1> QED BY <1>2, <1>3, <1>4

(* A queue of three parts, as Inbound and Outbound are: behind a FIFO, the *)
(* main loop and the link.                                                 *)
Joined(a, b, c) == (a \o b) \o c
Cat(a, b) == a \o b

LEMMA JoinedIsSeq ==
  ASSUME NEW S, NEW a \in Seq(S), NEW b \in Seq(S), NEW c \in Seq(S)
  PROVE  /\ Joined(a, b, c) \in Seq(S)
         /\ Len(Joined(a, b, c)) = Len(a) + Len(b) + Len(c)
<1>1. a \o b \in Seq(S) /\ Len(a \o b) = Len(a) + Len(b)
  BY ConcatProperties
<1> QED BY <1>1, ConcatProperties DEF Joined

LEMMA JoinedBehind ==
  ASSUME NEW S, NEW a \in Seq(S), NEW b \in Seq(S), NEW c \in Seq(S),
         NEW d \in Seq(S)
  PROVE  Joined(a, b, Cat(c, d)) = Cat(Joined(a, b, c), d)
<1> DEFINE e == a \o b
<1>1. e \in Seq(S)
  BY ConcatProperties
<1> HIDE DEF e
<1>2. e \o (c \o d) = (e \o c) \o d
  BY <1>1, ConcatAssociative, SMTT(60)
<1> QED BY <1>2 DEF Joined, Cat, e

LEMMA JoinedNothing ==
  ASSUME NEW S, NEW a \in Seq(S), NEW c \in Seq(S)
  PROVE  /\ Joined(a, <<>>, c) = a \o c
         /\ Joined(<<>>, <<>>, c) = c
         /\ Joined(a, <<>>, <<>>) = a
<1>1. a \o <<>> = a /\ <<>> \o c = c
  BY ConcatEmptySeq
<1>2. <<>> \o <<>> = <<>>
  OBVIOUS
<1> QED BY <1>1, <1>2 DEF Joined

LEMMA JoinedTakenOver ==
  ASSUME NEW S, NEW a \in Seq(S), NEW c \in Seq(S), NEW d \in Seq(S)
  PROVE  Joined(a, <<>>, Cat(d, c)) = Joined(a, d, c)
<1>1. a \o <<>> = a
  BY ConcatEmptySeq
<1>2. a \o (d \o c) = (a \o d) \o c
  BY ConcatAssociative, SMTT(60)
<1> QED BY <1>1, <1>2 DEF Joined, Cat

LEMMA JoinedTail ==
  ASSUME NEW S, NEW a \in Seq(S), NEW b \in Seq(S), NEW c \in Seq(S), a # <<>>
  PROVE  /\ Joined(a, b, c) # <<>>
         /\ Tail(Joined(a, b, c)) = Joined(Tail(a), b, c)
<1> DEFINE e == a \o b
<1>1. e \in Seq(S) /\ e # <<>> /\ Tail(e) = Tail(a) \o b
  BY ConcatProperties, TailOfConcat
<1> HIDE DEF e
<1>2. e \o c # <<>> /\ Tail(e \o c) = Tail(e) \o c
  BY <1>1, TailOfConcat
<1> QED BY <1>1, <1>2 DEF Joined, e

LEMMA JoinedCut ==
  ASSUME NEW S, NEW a \in Seq(S), NEW c \in Seq(S)
  PROVE  LET x == Joined(a, <<>>, c)
         IN  /\ Len(a) <= Len(x)
             /\ SubSeq(x, Len(a) + 1, Len(x)) = Joined(<<>>, <<>>, c)
             /\ SubSeq(x, 1, Len(a)) = Joined(a, <<>>, <<>>)
<1>1. Len(a) \in Nat /\ Len(c) \in Nat /\ Len(a \o c) = Len(a) + Len(c)
  BY LenProperties, ConcatProperties
<1>2. /\ SubSeq(a \o c, Len(a) + 1, Len(a \o c)) = c
      /\ SubSeq(a \o c, 1, Len(a)) = a
  BY PrefixOfConcat, SuffixOfConcat
<1>3. Len(a) <= Len(a \o c)
  BY <1>1
<1> QED BY <1>2, <1>3, JoinedNothing

LEMMA JoinedAppend ==
  ASSUME NEW S, NEW a \in Seq(S), NEW b \in Seq(S), NEW c \in Seq(S), NEW k \in S
  PROVE  Joined(a, b, Cat(c, <<k>>)) = Append(Joined(a, b, c), k)
<1> DEFINE e == a \o b
           d == <<k>>
<1>1. e \in Seq(S) /\ d \in Seq(S)
  BY ConcatProperties
<1> HIDE DEF e, d
<1>2. e \o (c \o d) = (e \o c) \o d
  BY <1>1, ConcatAssociative, SMTT(60)
<1>3. e \o c \in Seq(S)
  BY <1>1, ConcatProperties
<1>4. Append(e \o c, k) = (e \o c) \o d
  BY <1>3, AppendIsConcat DEF d
<1> QED BY <1>2, <1>4 DEF Joined, Cat, e, d

LEMMA JoinedGiven ==
  ASSUME NEW S, NEW a \in Seq(S), NEW c \in Seq(S), NEW k \in S
  PROVE  Joined(a, <<k>>, c) = Joined(Append(a, k), <<>>, c)
<1>1. Append(a, k) = a \o <<k>> /\ Append(a, k) \in Seq(S)
  BY AppendIsConcat, AppendProperties
<1>2. Append(a, k) \o <<>> = Append(a, k)
  BY <1>1, ConcatEmptySeq
<1> QED BY <1>1, <1>2 DEF Joined

LEMMA StoreCuts ==
  ASSUME NEW S, NEW r \in Seq(S), NEW p \in Seq(S), NEW u \in Seq(S),
         Len(r) <= FifoSize, Put(r, p) \in Seq(S)
  PROVE  CutOut(Joined(r, p, u), Joined(Put(r, p), <<>>, u))
<1>1. Joined(Put(r, p), <<>>, u) = Put(r, p) \o u
  <2> DEFINE f == Put(r, p)
  <2> HIDE DEF f
  <2>1. Joined(f, <<>>, u) = f \o u
    BY JoinedNothing DEF f
  <2> QED BY <2>1 DEF f
<1>2. Joined(r, p, u) = (r \o p) \o u
  BY DEF Joined
<1>3. CutOut((r \o p) \o u, Put(r, p) \o u)
  BY StoreCutsOut
<1> QED BY <1>1, <1>2, <1>3

-----------------------------------------------------------------------------
(***************************************************************************)
(* The two queues in a state of the invariant.                             *)
(***************************************************************************)

Anything == Payload \cup OutPacket

(* The link holds no, one or two payloads for each side.                   *)
Short(s, S) ==
  \/ s = <<>>
  \/ \E x \in S : s = <<x>>
  \/ \E x, y \in S : s = <<x, y>>

LEMMA ToHostShort == ASSUME IInv PROVE Short(LinkP!ToHost, Payload)
<1>1. LinkP!IInv /\ ContentInv
  BY Parts
<1>2. LinkP!HostContent
  BY <1>1, LinkP!HostIs, LinkNames
<1>3. \A b \in LinkP!Buffers : inBuf[b] \in Anything => inBuf[b] \in Payload
  BY <1>1 DEF ContentInv, Anything, Link!Buffers, LinkP!Buffers
<1>4. p_buffer_in \in LinkP!Buffers /\ p_buffer_in_cache \in LinkP!Buffers
  BY <1>1 DEF LinkP!IInv, LinkP!TypeOK
<1>5. CASE pc = "move_swap_cache"
  <2>1. inBuf[p_buffer_in] \in Anything
    BY <1>1, <1>5 DEF LinkP!IInv, LinkP!InputInv, LinkP!PointerInv, Anything
  <2> QED BY <1>2, <1>3, <1>4, <1>5, <2>1 DEF LinkP!HostContent, Short
<1>6. CASE pc # "move_swap_cache"
  BY <1>2, <1>3, <1>4, <1>6 DEF LinkP!HostContent, Short, Anything
<1> QED BY <1>5, <1>6

LEMMA ToMasterShort == ASSUME IInv PROVE Short(LinkP!ToMaster, Anything)
<1>1. LinkP!IInv /\ HandInv
  BY Parts
<1>2. LinkP!MasterContent
  BY LinkP!MasterIs, LinkNames
<1>3. data_out_available => outBuf[p_buffer_out] \in Anything
  BY <1>1 DEF LinkP!IInv, LinkP!OutputInv, Anything
<1> QED BY <1>2, <1>3 DEF LinkP!MasterContent, Short, Anything

LEMMA UnpackIs ==
  /\ Unpack(<<>>) = <<>>
  /\ \A x : Unpack(<<x>>) = PacketsOf[x]
  /\ \A x, y : Unpack(<<x, y>>) = PacketsOf[x] \o PacketsOf[y]
<1>1. Unpack(<<>>) = <<>>
  <2>1. Len(<<>>) = 0
    OBVIOUS
  <2> QED BY <2>1 DEF Unpack
<1>2. ASSUME NEW x PROVE Unpack(<<x>>) = PacketsOf[x]
  <2>1. Len(<<x>>) = 1 /\ <<x>>[1] = x
    OBVIOUS
  <2> QED BY <2>1 DEF Unpack
<1>3. ASSUME NEW x, NEW y
      PROVE  Unpack(<<x, y>>) = PacketsOf[x] \o PacketsOf[y]
  <2> DEFINE s == <<x, y>>
  <2>1. Len(s) = 2 /\ s[1] = x /\ s[2] = y
    OBVIOUS
  <2>2. Len(s) # 0 /\ Len(s) # 1
    BY <2>1
  <2> HIDE DEF s
  <2>3. Unpack(s) = PacketsOf[s[1]] \o PacketsOf[s[2]]
    BY <2>1, <2>2, Zenon DEF Unpack
  <2> QED BY <2>1, <2>3 DEF s
<1> QED BY <1>1, <1>2, <1>3

LEMMA UnpackIsSeq ==
  ASSUME NEW s, Short(s, Payload) PROVE Unpack(s) \in Seq(InPacket)
<1>1. \A d \in Payload : PacketsOf[d] \in Seq(InPacket)
  BY SlaveAssumption
<1>2. \A p, q \in Seq(InPacket) : p \o q \in Seq(InPacket)
  BY ConcatProperties
<1>3. <<>> \in Seq(InPacket)
  OBVIOUS
<1> QED BY <1>1, <1>2, <1>3, UnpackIs DEF Short

LEMMA UnpackAppend ==
  ASSUME NEW s, Short(s, Payload), Len(s) < 2, NEW d \in Payload
  PROVE  Unpack(Append(s, d)) = Cat(Unpack(s), PacketsOf[d])
<1>1. PacketsOf[d] \in Seq(InPacket)
  BY SlaveAssumption
<1>2. CASE s = <<>>
  <2>1. Append(<<>>, d) = <<d>>
    BY LinkP!ShortSequences, LinkNames
  <2>2. <<>> \o PacketsOf[d] = PacketsOf[d]
    BY <1>1, ConcatEmptySeq
  <2> QED BY <1>2, <2>1, <2>2, UnpackIs DEF Cat
<1>3. ASSUME NEW x \in Payload, s = <<x>>
      PROVE  Unpack(Append(s, d)) = Cat(Unpack(s), PacketsOf[d])
  <2>1. Append(<<x>>, d) = <<x, d>>
    BY LinkP!ShortSequences, LinkNames
  <2> QED BY <1>3, <2>1, UnpackIs DEF Cat
<1>4. ~(\E x, y \in Payload : s = <<x, y>>)
  <2>1. \A x, y : Len(<<x, y>>) = 2
    OBVIOUS
  <2> QED BY <2>1
<1> QED BY <1>2, <1>3, <1>4 DEF Short

LEMMA UnpackHead ==
  ASSUME NEW s, Short(s, Payload), s # <<>>
  PROVE  /\ Head(s) \in Payload
         /\ Unpack(s) = Cat(PacketsOf[Head(s)], Unpack(Tail(s)))
         /\ Short(Tail(s), Payload)
<1>1. ASSUME NEW x \in Payload, s = <<x>>
      PROVE  /\ Head(s) \in Payload
             /\ Unpack(s) = Cat(PacketsOf[Head(s)], Unpack(Tail(s)))
             /\ Short(Tail(s), Payload)
  <2>1. Head(<<x>>) = x /\ Tail(<<x>>) = <<>>
    BY LinkP!ShortSequences, LinkNames
  <2>2. PacketsOf[x] \o <<>> = PacketsOf[x]
    BY SlaveAssumption, ConcatEmptySeq
  <2> QED BY <1>1, <2>1, <2>2, UnpackIs DEF Short, Cat
<1>2. ASSUME NEW x \in Payload, NEW y \in Payload, s = <<x, y>>
      PROVE  /\ Head(s) \in Payload
             /\ Unpack(s) = Cat(PacketsOf[Head(s)], Unpack(Tail(s)))
             /\ Short(Tail(s), Payload)
  <2>1. Head(<<x, y>>) = x /\ Tail(<<x, y>>) = <<y>>
    BY LinkP!ShortSequences, LinkNames
  <2> QED BY <1>2, <2>1, UnpackIs DEF Short, Cat
<1> QED BY <1>1, <1>2 DEF Short

LEMMA ShortIsSeq ==
  ASSUME NEW S, NEW s, Short(s, S) PROVE s \in Seq(S) /\ Len(s) \in 0..2
<1>1. <<>> \in Seq(S) /\ Len(<<>>) = 0
  OBVIOUS
<1>2. \A x \in S : <<x>> \in Seq(S) /\ Len(<<x>>) = 1
  OBVIOUS
<1>3. \A x, y \in S : <<x, y>> \in Seq(S) /\ Len(<<x, y>>) = 2
  OBVIOUS
<1>4. 0 \in 0..2 /\ 1 \in 0..2 /\ 2 \in 0..2
  OBVIOUS
<1>5. CASE s = <<>>
  BY <1>1, <1>4, <1>5
<1>6. CASE \E x \in S : s = <<x>>
  BY <1>2, <1>4, <1>6
<1>7. CASE \E x, y \in S : s = <<x, y>>
  BY <1>3, <1>4, <1>7
<1> QED BY <1>5, <1>6, <1>7 DEF Short

(* Both queues, and their parts as sequences of packets.                   *)
InLink  == Unpack(LinkP!ToHost)
OutLink == LinkP!ToMaster

Queues ==
  /\ Inbound = Joined(rx_fifo, InHand, InLink)
  /\ Outbound = Joined(OutLink, OutHand, tx_fifo)
  /\ rx_fifo \in Seq(InPacket) /\ InHand \in Seq(InPacket)
  /\ InLink \in Seq(InPacket)
  /\ OutLink \in Seq(Anything) /\ OutHand \in Seq(Anything)
  /\ tx_fifo \in Seq(Anything)
  /\ Len(OutLink) \in 0..2

LEMMA QueuesAre == IInv => Queues
<1> SUFFICES ASSUME IInv PROVE Queues
  OBVIOUS
<1>1. Link!ToHost = LinkP!ToHost /\ Link!ToMaster = LinkP!ToMaster
  BY DEF Link!ToHost, LinkP!ToHost, Link!ToMaster, LinkP!ToMaster,
         Link!Loaded, LinkP!Loaded
<1>2. /\ Inbound = Joined(rx_fifo, InHand, InLink)
      /\ Outbound = Joined(OutLink, OutHand, tx_fifo)
  BY <1>1 DEF Inbound, Outbound, Joined, InLink, OutLink
<1>3. rx_fifo \in Seq(InPacket) /\ InLink \in Seq(InPacket)
  BY Parts, ToHostShort, UnpackIsSeq DEF ContentInv, InLink
<1>4. InHand \in Seq(InPacket)
  <2>1. <<>> \in Seq(InPacket)
    OBVIOUS
  <2> QED BY <2>1, PacketsTyped DEF InHand
<1>5. OutLink \in Seq(Anything) /\ Len(OutLink) \in 0..2
  BY ToMasterShort, ShortIsSeq DEF OutLink
<1>6. OutHand \in Seq(Anything)
  <2>1. <<>> \in Seq(Anything) /\ \A k \in OutPacket : <<k>> \in Seq(Anything)
    BY DEF Anything
  <2>2. \/ loop \in {"out_flag", "out_send"}
        \/ pc \in SendPcs => loop \in {"out_flag", "out_send", "out_call"}
    BY Parts DEF PlaceInv
  <2> QED BY <2>1, <2>2, Parts DEF OutHand, HandInv, SendPcs
<1>7. tx_fifo \in Seq(Anything)
  <2>1. tx_fifo \in Seq(OutPacket) /\ OutPacket \subseteq Anything
    BY Parts DEF OwnTypes, Anything
  <2> QED BY <2>1, SeqMonotonic
<1> QED BY <1>2, <1>3, <1>4, <1>5, <1>6, <1>7 DEF Queues

LEMMA QueuesNext == IInv' => Queues'
BY QueuesAre, PTL

-----------------------------------------------------------------------------
(***************************************************************************)
(* Every step is one of the queues or leaves both alone.                   *)
(***************************************************************************)

(* A transfer appends what it delivers, and takes what was clocked out.    *)
LEMMA TransferPipes ==
  ASSUME IInv, IInv', NEW m \in Link!Messages \ OutPacket, Transfer(m)
  PROVE  Pipe!Next \/ UNCHANGED Pipe!vars
<1> USE DEF Queues
<1>1. PICK ev \in SUBSET Link!Events : LinkP!TransferDone(m, ev)
  BY LinkTransfer DEF Transfer
<1>2. LinkP!IInv /\ LinkP!IInv' /\ m \in LinkP!Messages
  BY Parts DEF Link!Messages, LinkP!Messages
<1>3. LinkP!MasterStep(m)
  BY <1>1, <1>2, LinkP!TransferImplements, LinkNames
<1>4. UNCHANGED <<loop, pc, p_data, spi_packet, fifoVars>>
  BY <1>1, <1>2, TransferInput DEF Transfer, LinkP!mainVars, ownVars
<1>5. UNCHANGED <<InHand, OutHand, rx_fifo, tx_fifo>>
  BY <1>4 DEF InHand, OutHand, Packets, fifoVars
<1>6. Queues /\ Queues'
  BY QueuesAre, QueuesNext
<1>7. CASE LinkP!ToHost' = LinkP!ToHost /\ OutLink' = OutLink
  <2>1. InLink' = InLink
    BY <1>7 DEF InLink, Unpack
  <2> QED BY <1>5, <1>6, <1>7, <2>1 DEF Pipe!vars
<1>8. CASE /\ LinkP!ToHost' = LinkP!ToHost
           /\ OutLink # <<>> /\ OutLink' = Tail(OutLink)
  <2>1. InLink' = InLink
    BY <1>8 DEF InLink, Unpack
  <2>2. Inbound' = Inbound
    BY <1>5, <1>6, <2>1
  <2>3. Outbound # <<>> /\ Tail(Outbound) = Joined(Tail(OutLink), OutHand, tx_fifo)
    <3> HIDE DEF Queues
    <3>1. /\ OutLink \in Seq(Anything) /\ OutHand \in Seq(Anything)
          /\ tx_fifo \in Seq(Anything)
      BY <1>6 DEF Queues
    <3>2. /\ Joined(OutLink, OutHand, tx_fifo) # <<>>
          /\ Tail(Joined(OutLink, OutHand, tx_fifo))
               = Joined(Tail(OutLink), OutHand, tx_fifo)
      BY <1>8, <3>1, JoinedTail
    <3> QED BY <1>6, <3>2 DEF Queues
  <2>4. Outbound' = Joined(Tail(OutLink), OutHand, tx_fifo)
    BY <1>5, <1>6, <1>8
  <2> QED BY <2>2, <2>3, <2>4 DEF Pipe!Sent, Pipe!Next
<1>9. CASE m \in Payload /\ LinkP!Channel!Accept(m)
  <2>1. /\ OutLink' = OutLink /\ LinkP!ToHost' = Append(LinkP!ToHost, m)
        /\ Len(LinkP!ToHost) < 2
    BY <1>9 DEF LinkP!Channel!Accept, LinkP!Channel!Capacity, OutLink
  <2>2. Unpack(Append(LinkP!ToHost, m)) = Cat(InLink, PacketsOf[m])
    BY <1>9, <2>1, ToHostShort, UnpackAppend DEF InLink
  <2>3. InLink' = Cat(InLink, PacketsOf[m])
    BY <2>1, <2>2 DEF InLink, Unpack
  <2>4. PacketsOf[m] \in Seq(InPacket)
    BY <1>9, SlaveAssumption
  <2>5. /\ rx_fifo \in Seq(InPacket) /\ InHand \in Seq(InPacket)
        /\ InLink \in Seq(InPacket)
    BY <1>6
  <2>6. Inbound' = Inbound \o PacketsOf[m]
    <3> HIDE DEF Queues
    <3>1. Joined(rx_fifo, InHand, Cat(InLink, PacketsOf[m]))
            = Cat(Joined(rx_fifo, InHand, InLink), PacketsOf[m])
      BY <2>4, <2>5, JoinedBehind
    <3>2. Inbound' = Cat(Inbound, PacketsOf[m])
      BY <1>5, <1>6, <2>3, <3>1 DEF Queues
    <3> QED BY <3>2 DEF Cat
  <2>7. Outbound' = Outbound
    BY <1>5, <1>6, <2>1
  <2> QED BY <1>9, <2>6, <2>7 DEF Pipe!Arrive, Pipe!Next
<1>10. \/ LinkP!Channel!StillToMaster = OutLink
       \/ OutLink # <<>> /\ LinkP!Channel!StillToMaster = Tail(OutLink)
  <2>1. CASE LinkP!Phase = "sending" /\ outBuf[tx] \in Anything
    <3>1. outBuf[p_buffer_out_cache] \in Anything
      BY <1>2, <2>1 DEF LinkP!IInv, LinkP!ArmedInv
    <3>2. LinkP!MasterContent
      BY LinkP!MasterIs, LinkNames
    <3>3. OutLink # <<>>
      BY <3>1, <3>2 DEF LinkP!MasterContent, OutLink, Anything
    <3> QED BY <2>1, <3>3 DEF LinkP!Channel!StillToMaster, OutLink, Anything
  <2>2. CASE ~(LinkP!Phase = "sending" /\ outBuf[tx] \in Anything)
    BY <2>2 DEF LinkP!Channel!StillToMaster, OutLink, Anything
  <2> QED BY <2>1, <2>2
<1>11. CASE LinkP!Channel!Refuse \/ LinkP!Channel!GoAhead
              \/ LinkP!Channel!Offer
  <2>1. /\ LinkP!ToHost' = LinkP!ToHost
        /\ OutLink' = LinkP!Channel!StillToMaster
    BY <1>11 DEF LinkP!Channel!Refuse, LinkP!Channel!GoAhead,
                 LinkP!Channel!Offer, OutLink
  <2> QED BY <1>7, <1>8, <1>10, <2>1
<1>12. CASE LinkP!Channel!AcceptVoid
  BY <1>7, <1>12 DEF LinkP!Channel!AcceptVoid, OutLink
<1>13. CASE m \in Anything /\ LinkP!Channel!Accept(m)
  <2>1. m \in Payload
    BY <1>13 DEF Anything
  <2> QED BY <1>9, <1>13, <2>1
<1> QED BY <1>3, <1>11, <1>12, <1>13 DEF LinkP!MasterStep, Anything

(* Steps that leave all the parts of both queues alone.                    *)
LEMMA PartsKept ==
  ASSUME IInv, IInv', UNCHANGED <<rx_fifo, InHand, OutHand, tx_fifo>>,
         UNCHANGED <<LinkP!ToHost, LinkP!ToMaster>>
  PROVE  UNCHANGED Pipe!vars
<1>1. UNCHANGED <<InLink, OutLink>>
  BY DEF InLink, OutLink, Unpack
<1>2. Queues /\ Queues'
  BY QueuesAre, QueuesNext
<1> QED BY <1>1, <1>2 DEF Queues, Pipe!vars

(* The copy of a payload moves it from the link into the hand of the loop, *)
(* the announcement of one from the hand into the link.                    *)
LEMMA CallPipes ==
  ASSUME IInv, IInv', Call PROVE UNCHANGED Pipe!vars
<1>1. PICK ev \in SUBSET Link!Events : LinkP!CallStep(ev)
  BY LinkCall DEF Call
<1>2. LinkP!IInv /\ LinkP!IInv' /\ PlaceInv /\ HandInv
  BY Parts
<1>3. UNCHANGED <<loop, spi_packet, rx_fifo, tx_fifo>>
  BY DEF Call, fifoVars, ownVars
<1>4. ASSUME UNCHANGED <<LinkP!ToHost, LinkP!ToMaster>>, UNCHANGED p_data,
             pc \in SendPcs <=> pc' \in SendPcs
      PROVE  UNCHANGED Pipe!vars
  <2>1. UNCHANGED <<InHand, OutHand>>
    BY <1>3, <1>4 DEF InHand, OutHand, Packets, SendPcs
  <2> QED BY <1>3, <1>4, <2>1, PartsKept
<1> USE DEF SendPcs, LinkP!Goto, LinkP!Channel!vars
<1>5. CASE LinkP!InitStep(ev) \/ LinkP!MoveEvent(ev)
  <2>1. CASE LinkP!InitStep(ev)
    <3>1. UNCHANGED <<LinkP!ToHost, LinkP!ToMaster>>
      BY <1>2, <2>1, LinkP!InitStepImplements, LinkNames
         DEF LinkP!Channel!Start
    <3>2. UNCHANGED p_data /\ pc \notin SendPcs /\ pc' \notin SendPcs
      BY <2>1 DEF LinkP!InitStep, LinkP!InitLook, LinkP!InitStore
    <3> QED BY <1>4, <3>1, <3>2
  <2>2. CASE LinkP!MoveEvent(ev)
    <3>1. UNCHANGED LinkP!Channel!vars
      BY <1>2, <2>2, LinkP!LoopImplements, LinkNames
    <3> QED BY <1>4, <2>2, <3>1 DEF LinkP!MoveEvent
  <2> QED BY <1>5, <2>1, <2>2
<1>6. CASE LinkP!MoveStep(ev)
  <2>1. UNCHANGED LinkP!Channel!vars
    BY <1>2, <1>6, LinkP!MoveImplements, LinkNames
  <2>2. UNCHANGED p_data /\ pc \notin SendPcs /\ pc' \notin SendPcs
    BY <1>6
       DEF LinkP!MoveStep, LinkP!MoveTrylock, LinkP!MoveCheckCache,
           LinkP!MoveNothing, LinkP!MoveCheckIn, LinkP!MoveFailUnlock,
           LinkP!MoveSwapIn, LinkP!MoveSwapCache, LinkP!MoveAvailable,
           LinkP!MoveNotBusy, LinkP!MoveUnlock
  <2> QED BY <1>4, <2>1, <2>2
<1>7. CASE LinkP!ReadStep(ev)
  <2>1. \/ /\ pc = "read_copy" /\ LinkP!Channel!Take
           /\ p_data' = Head(LinkP!ToHost)
        \/ pc # "read_copy" /\ UNCHANGED <<p_data, LinkP!Channel!vars>>
    BY <1>2, <1>7, LinkP!ReadImplements, LinkNames
  <2>2. /\ pc \in {"read_trylock"} \cup LinkP!ReadPcs
        /\ pc \notin SendPcs /\ pc' \notin SendPcs
    BY <1>7
       DEF LinkP!ReadStep, LinkP!ReadTrylock, LinkP!ReadCopy,
           LinkP!ReadRecycle, LinkP!ReadNotAvailable, LinkP!ReadUnlock,
           LinkP!ReadPcs
  <2>3. CASE pc # "read_copy"
    BY <1>4, <2>1, <2>2, <2>3
  <2>4. CASE pc = "read_copy"
    <3>1. /\ LinkP!ToHost # <<>> /\ LinkP!ToHost' = Tail(LinkP!ToHost)
          /\ UNCHANGED LinkP!ToMaster /\ p_data' = Head(LinkP!ToHost)
      BY <2>1, <2>4 DEF LinkP!Channel!Take
    <3>2. /\ p_data' \in Payload
          /\ InLink = Cat(PacketsOf[p_data'], Unpack(Tail(LinkP!ToHost)))
          /\ Short(Tail(LinkP!ToHost), Payload)
      BY <3>1, ToHostShort, UnpackHead DEF InLink
    <3>3. InLink' = Unpack(Tail(LinkP!ToHost))
      BY <3>1 DEF InLink, Unpack
    <3>4. loop = "in_call" /\ p_data = NULL
      BY <1>2, <2>2, <2>4 DEF PlaceInv
    <3>5. p_data' # NULL
      BY <3>2, LinkAssumption DEF NULL, Link!NULL, Link!Reserved
    <3>6. InHand = <<>> /\ InHand' = PacketsOf[p_data']
      BY <1>3, <3>4, <3>5 DEF InHand, Packets
    <3>7. UNCHANGED <<OutHand, OutLink>>
      BY <1>3, <2>2, <3>1 DEF OutHand, OutLink
    <3>8. /\ rx_fifo \in Seq(InPacket) /\ InLink' \in Seq(InPacket)
          /\ InHand' \in Seq(InPacket)
      BY <1>3, QueuesAre, QueuesNext DEF Queues
    <3>9. Joined(rx_fifo, <<>>, Cat(InHand', InLink'))
            = Joined(rx_fifo, InHand', InLink')
      BY <3>8, JoinedTakenOver
    <3>10. Inbound = Inbound'
      BY <1>3, <3>2, <3>3, <3>6, <3>9, QueuesAre, QueuesNext DEF Queues
    <3>11. Outbound = Outbound'
      BY <1>3, <3>7, QueuesAre, QueuesNext DEF Queues
    <3> QED BY <3>10, <3>11 DEF Pipe!vars
  <2> QED BY <2>3, <2>4
<1>8. CASE LinkP!SendStep(ev)
  <2>1. \/ /\ pc = "send_available"
           /\ LinkP!Channel!Put(outBuf[p_buffer_out])
        \/ pc # "send_available" /\ UNCHANGED LinkP!Channel!vars
    BY <1>2, <1>8, LinkP!SendImplements, LinkNames
  <2>2. ~(pc = "send_trylock" /\ mutex_out)
    BY <1>2 DEF LinkP!IInv, LinkP!MutexInv, LinkP!SendPcs
  <2>3. /\ UNCHANGED p_data
        /\ pc = "send_available" => pc' = "send_unlock"
        /\ pc # "send_available" => (pc \in SendPcs <=> pc' \in SendPcs)
    BY <1>8, <2>2
       DEF LinkP!SendStep, LinkP!SendTrylock, LinkP!SendHeader,
           LinkP!SendPayload, LinkP!SendAvailable, LinkP!SendUnlock
  <2>4. CASE pc # "send_available"
    BY <1>4, <2>1, <2>3, <2>4
  <2>5. CASE pc = "send_available"
    <3>1. /\ UNCHANGED LinkP!ToHost
          /\ OutLink' = Append(OutLink, spi_packet)
      BY <1>2, <2>1, <2>5 DEF LinkP!Channel!Put, HandInv, OutLink
    <3>2. loop = "out_call" /\ spi_packet \in OutPacket
      BY <1>2, <2>5 DEF PlaceInv, HandInv
    <3>3. OutHand = <<spi_packet>> /\ OutHand' = <<>>
      BY <1>3, <2>3, <2>5, <3>2 DEF OutHand
    <3>4. UNCHANGED <<InHand, InLink>>
      BY <1>3, <2>3, <3>1 DEF InHand, Packets, InLink, Unpack
    <3>5. /\ spi_packet \in Anything /\ OutLink \in Seq(Anything)
          /\ tx_fifo \in Seq(Anything)
      BY <3>2, QueuesAre DEF Queues, Anything
    <3>6. Joined(OutLink, <<spi_packet>>, tx_fifo)
            = Joined(Append(OutLink, spi_packet), <<>>, tx_fifo)
      BY <3>5, JoinedGiven
    <3>7. Outbound = Outbound'
      BY <1>3, <3>1, <3>3, <3>6, QueuesAre, QueuesNext DEF Queues
    <3>8. Inbound = Inbound'
      BY <1>3, <3>4, QueuesAre, QueuesNext DEF Queues
    <3> QED BY <3>7, <3>8 DEF Pipe!vars
  <2> QED BY <2>4, <2>5
<1> QED BY <1>1, <1>5, <1>6, <1>7, <1>8 DEF LinkP!CallStep

(* A call begins: with nothing in hand, or with the packet it is to send.  *)
LEMMA StartPipes ==
  ASSUME IInv, IInv', ~MasterAsksBlindly, run \/ DataInRead \/ DataOutSend
  PROVE  UNCHANGED Pipe!vars
<1>1. LinkP!IInv /\ LinkP!IInv' /\ SendingInv
  BY Parts DEF BlindInv
<1>2. LinkP!Poll({}) \/ LinkP!Read({}) \/ LinkP!Send(spi_packet, {})
  BY LinkPoll, LinkRead, LinkSend DEF run, DataInRead, DataOutSend
<1>3. UNCHANGED LinkP!Channel!vars
  BY <1>1, <1>2, LinkP!LoopImplements, LinkNames
<1>4. UNCHANGED <<LinkP!ToHost, LinkP!ToMaster>>
  BY <1>3 DEF LinkP!Channel!vars
<1>5. UNCHANGED <<rx_fifo, tx_fifo, spi_packet>>
  BY DEF run, DataInRead, DataOutSend, fifoVars, ownVars
<1>6. UNCHANGED InHand
  <2>1. CASE run \/ DataOutSend
    BY <2>1 DEF run, DataOutSend, Goto, InHand
  <2>2. CASE DataInRead
    <3>1. p_data' = NULL
      BY <2>2, LinkRead DEF DataInRead, LinkP!Read, NULL, Link!NULL, LinkP!NULL
    <3> QED BY <2>2, <3>1 DEF DataInRead, Goto, InHand, Packets
  <2> QED BY <2>1, <2>2
<1>7. UNCHANGED OutHand
  <2>1. CASE run
    BY <2>1, LinkPoll DEF run, Goto, Returned, OutHand, LinkP!Poll
  <2>2. CASE DataInRead
    BY <2>2, LinkRead DEF DataInRead, Goto, OutHand, LinkP!Read
  <2>3. CASE DataOutSend
    <3>1. ~data_out_available
      BY <1>1, <2>3 DEF DataOutSend, Goto, SendingInv, Pending
    <3>2. pc' = "send_trylock"
      BY <2>3, <3>1, LinkSend DEF DataOutSend, LinkP!Send
    <3> QED BY <1>5, <2>3, <3>2 DEF DataOutSend, Goto, OutHand
  <2> QED BY <2>1, <2>2, <2>3
<1> QED BY <1>4, <1>5, <1>6, <1>7, PartsKept

LEMMA ContentKept ==
  ASSUME UNCHANGED linkVars
  PROVE  UNCHANGED <<LinkP!ToHost, LinkP!ToMaster, InLink, OutLink, pc, p_data>>
<1>1. UNCHANGED <<LinkP!ToHost, LinkP!ToMaster, pc, p_data>>
  BY DEF linkVars, LinkP!ToHost, LinkP!ToMaster, LinkP!Loaded, LinkP!NULL
<1> QED BY <1>1 DEF InLink, OutLink, Unpack

(* The store puts what is in hand into the FIFO, as far as it has room.    *)
LEMMA StorePipes ==
  ASSUME IInv, IInv', DataInStore PROVE Pipe!Next \/ UNCHANGED Pipe!vars
<1>1. /\ UNCHANGED <<InLink, OutLink, pc, p_data, tx_fifo, spi_packet>>
      /\ rx_fifo' = Put(rx_fifo, Packets)
      /\ loop = "in_store" /\ loop' = "out_check"
  BY ContentKept DEF DataInStore, Goto
<1>2. InHand = Packets /\ InHand' = <<>> /\ UNCHANGED OutHand
  BY <1>1 DEF InHand, OutHand
<1>3. Queues /\ Queues'
  BY QueuesAre, QueuesNext
<1>4. Outbound' = Outbound
  BY <1>1, <1>2, <1>3 DEF Queues
<1>5. /\ rx_fifo \in Seq(InPacket) /\ Packets \in Seq(InPacket)
      /\ InLink \in Seq(InPacket) /\ rx_fifo' \in Seq(InPacket)
  BY <1>2, <1>3 DEF Queues
<1>6. Len(rx_fifo) <= FifoSize
  BY Parts DEF OwnTypes
<1>7. /\ Inbound = Joined(rx_fifo, Packets, InLink)
      /\ Inbound' = Joined(rx_fifo', <<>>, InLink)
  BY <1>1, <1>2, <1>3 DEF Queues
<1>8. CutOut(Joined(rx_fifo, Packets, InLink), Joined(rx_fifo', <<>>, InLink))
  BY <1>1, <1>5, <1>6, StoreCuts
<1>9. CutOut(Inbound, Inbound')
  BY <1>7, <1>8
<1> QED BY <1>4, <1>9 DEF CutOut, Pipe!Overflow, Pipe!Next, Pipe!vars

(* The packet that is taken from the FIFO stays ahead of the rest of it.   *)
LEMMA TakePipes ==
  ASSUME IInv, IInv', DataOutCheck PROVE UNCHANGED Pipe!vars
<1>1. /\ UNCHANGED <<InLink, OutLink, pc, p_data, rx_fifo>>
      /\ UNCHANGED <<LinkP!ToHost, LinkP!ToMaster>>
      /\ pc = "idle" /\ loop = "out_check" /\ loop' \in {"app", "out_flag"}
  BY ContentKept DEF DataOutCheck, Returned
<1>2. UNCHANGED InHand /\ OutHand = <<>>
  BY <1>1 DEF InHand, OutHand
<1>3. CASE loop' = "app"
  <2>1. UNCHANGED <<tx_fifo, OutHand>>
    BY <1>1, <1>2, <1>3 DEF DataOutCheck, OutHand
  <2> QED BY <1>1, <1>2, <2>1, PartsKept
<1>4. CASE loop' = "out_flag"
  <2>1. /\ tx_fifo # <<>>
        /\ spi_packet' = Head(tx_fifo) /\ tx_fifo' = Tail(tx_fifo)
    BY <1>4 DEF DataOutCheck
  <2>2. OutHand' = <<spi_packet'>>
    BY <1>4 DEF OutHand
  <2>3. Queues /\ Queues'
    BY QueuesAre, QueuesNext
  <2>4. /\ OutLink \in Seq(Anything) /\ tx_fifo \in Seq(Anything)
        /\ tx_fifo' \in Seq(Anything) /\ OutHand' \in Seq(Anything)
    BY <2>3 DEF Queues
  <2>5. tx_fifo = Cat(OutHand', tx_fifo')
    BY <2>1, <2>2, <2>4, HeadAndTail DEF Cat
  <2>6. Joined(OutLink, <<>>, Cat(OutHand', tx_fifo'))
          = Joined(OutLink, OutHand', tx_fifo')
    BY <2>4, JoinedTakenOver
  <2>7. Outbound' = Outbound
    BY <1>1, <1>2, <2>3, <2>5, <2>6 DEF Queues
  <2>8. Inbound' = Inbound
    BY <1>1, <1>2, <2>3 DEF Queues
  <2> QED BY <2>7, <2>8 DEF Pipe!vars
<1> QED BY <1>1, <1>3, <1>4

(* The other steps of the loop move nothing.                               *)
LEMMA LoopPipes ==
  ASSUME IInv, IInv',
         DataInCheck \/ DataInReadAvailable \/ DataOutFlag \/ DataOutReturned
  PROVE  UNCHANGED Pipe!vars
<1>1. UNCHANGED <<linkVars, rx_fifo, tx_fifo>>
  BY DEF DataInCheck, DataInReadAvailable, DataOutFlag, DataOutReturned,
         fifoVars
<1>2. UNCHANGED <<LinkP!ToHost, LinkP!ToMaster, pc, p_data>>
  BY <1>1, ContentKept
<1>3. CASE DataInCheck
  <2>1. UNCHANGED <<InHand, OutHand>>
    BY <1>2, <1>3 DEF DataInCheck, InHand, OutHand, ownVars, Returned
  <2> QED BY <1>1, <1>2, <2>1, PartsKept
<1>4. CASE DataInReadAvailable
  <2>1. result = "OK"
    BY <1>4, Parts DEF PlaceInv, DataInReadAvailable
  <2>2. UNCHANGED <<InHand, OutHand>>
    BY <1>2, <1>4, <2>1
       DEF DataInReadAvailable, InHand, OutHand, Packets, Returned
  <2> QED BY <1>1, <1>2, <2>2, PartsKept
<1>5. CASE DataOutFlag
  <2>1. UNCHANGED <<InHand, OutHand>>
    BY <1>2, <1>5 DEF DataOutFlag, Goto, InHand, OutHand, ownVars
  <2> QED BY <1>1, <1>2, <2>1, PartsKept
<1>6. CASE DataOutReturned
  <2>1. UNCHANGED <<InHand, OutHand>>
    BY <1>2, <1>6 DEF DataOutReturned, Goto, InHand, OutHand, Returned
  <2> QED BY <1>1, <1>2, <2>1, PartsKept
<1> QED BY <1>3, <1>4, <1>5, <1>6

(* The layers above work on the FIFOs' ends of the queues.                 *)
LEMMA AppPipes ==
  ASSUME IInv, IInv', App PROVE Pipe!Next \/ UNCHANGED Pipe!vars
<1>1. InApp /\ AppRest
  BY DEF App, sendPacket, readPacket, clearSend, clearRead
<1>2. /\ UNCHANGED <<InLink, OutLink>>
      /\ InHand = <<>> /\ InHand' = <<>> /\ OutHand = <<>> /\ OutHand' = <<>>
  <2>1. /\ UNCHANGED <<InLink, OutLink>>
        /\ loop = "app" /\ loop' = "app" /\ pc = "idle" /\ pc' = "idle"
    BY <1>1, ContentKept DEF InApp, AppRest, Returned
  <2> QED BY <2>1 DEF InHand, OutHand
<1>3. Queues /\ Queues'
  BY QueuesAre, QueuesNext
<1>4. /\ rx_fifo \in Seq(InPacket) /\ InLink \in Seq(InPacket)
      /\ OutLink \in Seq(Anything) /\ tx_fifo \in Seq(Anything)
      /\ InHand \in Seq(InPacket) /\ OutHand \in Seq(Anything)
      /\ Len(OutLink) \in 0..2
  BY <1>2, <1>3 DEF Queues
<1>5. Len(rx_fifo) <= FifoSize /\ Len(tx_fifo) <= FifoSize
  BY Parts DEF OwnTypes
<1>6. /\ Inbound = Joined(rx_fifo, <<>>, InLink)
      /\ Inbound' = Joined(rx_fifo', <<>>, InLink)
      /\ Outbound = Joined(OutLink, <<>>, tx_fifo)
      /\ Outbound' = Joined(OutLink, <<>>, tx_fifo')
  BY <1>2, <1>3 DEF Queues
<1>7. ASSUME NEW k \in OutPacket, sendPacket(k)
      PROVE  Pipe!Next \/ UNCHANGED Pipe!vars
  <2>1. UNCHANGED rx_fifo /\ tx_fifo' = Put(tx_fifo, <<k>>)
    BY <1>7 DEF sendPacket
  <2>2. Inbound' = Inbound
    BY <1>6, <2>1
  <2>3. CASE Len(tx_fifo) = FifoSize
    <3>1. Put(tx_fifo, <<k>>) = tx_fifo \o SubSeq(<<k>>, 1, 0)
      BY <2>3, SlaveAssumption DEF Put
    <3>2. SubSeq(<<k>>, 1, 0) = <<>>
      BY SlaveAssumption
    <3>3. tx_fifo' = tx_fifo
      BY <1>4, <2>1, <3>1, <3>2, ConcatEmptySeq
    <3> QED BY <1>6, <2>2, <3>3 DEF Pipe!vars
  <2>4. CASE Len(tx_fifo) # FifoSize
    <3>1. FifoSize - Len(tx_fifo) >= 1 /\ Len(tx_fifo) \in Nat
      BY <1>4, <1>5, <2>4, SlaveAssumption
    <3>2. k \in Anything /\ <<k>> \in Seq(Anything) /\ Len(<<k>>) = 1
      BY DEF Anything
    <3>3. (IF Len(<<k>>) < FifoSize - Len(tx_fifo)
             THEN Len(<<k>>) ELSE FifoSize - Len(tx_fifo)) = 1
      BY <3>1, <3>2, SlaveAssumption
    <3>4. SubSeq(<<k>>, 1, 1) = <<k>>
      BY <3>2, SubSeqFull
    <3>5. tx_fifo' = Cat(tx_fifo, <<k>>)
      BY <2>1, <3>3, <3>4 DEF Put, Cat
    <3>6. Joined(OutLink, OutHand, Cat(tx_fifo, <<k>>))
            = Append(Joined(OutLink, OutHand, tx_fifo), k)
      <4>1. /\ OutLink \in Seq(Anything) /\ OutHand \in Seq(Anything)
            /\ tx_fifo \in Seq(Anything) /\ k \in Anything
        BY <1>4, <3>2
      <4> QED BY ONLY <4>1, JoinedAppend
    <3>7. Outbound' = Append(Outbound, k)
      BY <1>2, <1>6, <3>5, <3>6
    <3> QED BY <2>2, <3>7 DEF Pipe!Queue, Pipe!Next
  <2> QED BY <2>3, <2>4
<1>8. CASE readPacket
  <2>1. UNCHANGED tx_fifo /\ rx_fifo # <<>> /\ rx_fifo' = Tail(rx_fifo)
    BY <1>8 DEF readPacket
  <2>2. /\ Joined(rx_fifo, InHand, InLink) # <<>>
        /\ Tail(Joined(rx_fifo, InHand, InLink))
             = Joined(Tail(rx_fifo), InHand, InLink)
    BY <1>4, <2>1, JoinedTail
  <2> QED BY <1>2, <1>6, <2>1, <2>2 DEF Pipe!Read, Pipe!Next
<1>9. CASE clearSend
  <2>1. UNCHANGED rx_fifo /\ tx_fifo' = <<>>
    BY <1>9 DEF clearSend
  <2> DEFINE c == OutLink
             n == Len(OutLink)
  <2>2. /\ n <= Len(Outbound)
        /\ SubSeq(Outbound, 1, n) = Outbound'
    BY <1>4, <1>6, <2>1, JoinedCut
  <2>3. n \in 0..Pipe!InLink
    BY <1>4 DEF Pipe!InLink
  <2>4. Inbound' = Inbound
    BY <1>6, <2>1
  <2> QED BY <2>2, <2>3, <2>4 DEF Pipe!ClearSend, Pipe!Next
<1>10. CASE clearRead
  <2>1. UNCHANGED tx_fifo /\ rx_fifo' = <<>>
    BY <1>10 DEF clearRead
  <2>2. Outbound' = Outbound
    BY <1>6, <2>1
  <2>3. CASE rx_fifo = <<>>
    BY <1>6, <2>1, <2>2, <2>3 DEF Pipe!vars
  <2>4. CASE rx_fifo # <<>>
    <3>1. Len(rx_fifo) \in 1..FifoSize
      BY <1>4, <1>5, <2>4, EmptySeq, LenProperties, SlaveAssumption
    <3>2. /\ Len(rx_fifo) <= Len(Inbound)
          /\ SubSeq(Inbound, Len(rx_fifo) + 1, Len(Inbound)) = Inbound'
      BY <1>4, <1>6, <2>1, JoinedCut
    <3> QED BY <2>2, <3>1, <3>2 DEF Pipe!ClearRead, Pipe!Next
  <2> QED BY <2>3, <2>4
<1> QED BY <1>7, <1>8, <1>9, <1>10 DEF App

LEMMA InitPipes == Init => Pipe!Init
<1> SUFFICES ASSUME Init PROVE Pipe!Init
  OBVIOUS
<1>1. IInv
  BY InitInv
<1>2. LinkP!ToHost = <<>> /\ LinkP!ToMaster = <<>>
  BY LinkStart, LinkP!InitImplements, LinkNames
     DEF Init, LinkP!Channel!Init
<1>3. InLink = <<>> /\ OutLink = <<>>
  BY <1>2, UnpackIs DEF InLink, OutLink
<1>4. rx_fifo = <<>> /\ tx_fifo = <<>> /\ InHand = <<>> /\ OutHand = <<>>
  BY LinkStart DEF Init, InHand, OutHand, LinkP!Init
<1>5. Joined(<<>>, <<>>, <<>>) = <<>>
  BY <1>4, JoinedNothing, QueuesAre, <1>1 DEF Queues
<1> QED BY <1>1, <1>3, <1>4, <1>5, QueuesAre DEF Queues, Pipe!Init

LEMMA NextPipes ==
  ~MasterAsksBlindly =>
    (IInv /\ IInv' /\ [Next]_vars => [Pipe!Next]_Pipe!vars)
<1> SUFFICES ASSUME ~MasterAsksBlindly, IInv, IInv', [Next]_vars
             PROVE  Pipe!Next \/ UNCHANGED Pipe!vars
  OBVIOUS
<1>1. ASSUME NEW m \in Link!Messages \ OutPacket, Transfer(m)
      PROVE  Pipe!Next \/ UNCHANGED Pipe!vars
  BY <1>1, TransferPipes
<1>2. CASE LoopStep
  BY <1>2, CallPipes, StartPipes, LoopPipes, StorePipes, TakePipes
     DEF LoopStep
<1>3. CASE App
  BY <1>3, AppPipes
<1>4. CASE UNCHANGED vars
  <2>1. UNCHANGED <<linkVars, loop, spi_packet, fifoVars>>
    BY <1>4 DEF vars, ownVars
  <2>2. UNCHANGED <<LinkP!ToHost, LinkP!ToMaster, pc, p_data>>
    BY <2>1, ContentKept
  <2>3. UNCHANGED <<InHand, OutHand, rx_fifo, tx_fifo>>
    BY <2>1, <2>2 DEF InHand, OutHand, Packets, fifoVars
  <2> QED BY <2>2, <2>3, PartsKept
<1> QED BY <1>1, <1>2, <1>3, <1>4 DEF Next

(* The side implements the two queues of PacketPipe, towards a master that *)
(* asks for data once per DATA_READY: a packet of sendPacket goes out once *)
(* and in its place, a packet of an acknowledged payload is read once and  *)
(* in its place, and the only others that are lost are those a full FIFO   *)
(* has no room for and those of the layer that clears a FIFO.              *)
THEOREM SlaveImplementsPipe ==
  ~MasterAsksBlindly => (Spec => ImplementsPipe)
<1>1. Init => Pipe!Init
  BY InitPipes
<1>2. ~MasterAsksBlindly =>
        (IInv /\ IInv' /\ [Next]_vars => [Pipe!Next]_Pipe!vars)
  BY NextPipes
<1>3. SUFFICES ASSUME ~MasterAsksBlindly PROVE Spec => ImplementsPipe
  OBVIOUS
<1>4. IInv /\ IInv' /\ [Next]_vars => [Pipe!Next]_Pipe!vars
  BY <1>2, <1>3
<1> QED BY <1>1, <1>4, Invariance, PTL DEF Spec, ImplementsPipe, Pipe!Spec

=============================================================================
