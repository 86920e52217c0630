-------------------------- MODULE SpiLinkRefinement -------------------------
(***************************************************************************)
(* The link implements the two channels of LinkChannel, for every set of   *)
(* payloads: each case of the interrupt and each access of the main loop   *)
(* is a step of the channels or leaves them alone.  The inductive          *)
(* invariant of SpiLinkProofs says what the buffers hold at each of them.  *)
(***************************************************************************)
EXTENDS SpiLinkProofs, SequenceTheorems

(* Sequences of at most two elements.                                      *)
LEMMA ShortSequences ==
  /\ <<>> \o <<>> = <<>>
  /\ \A x : /\ <<>> \o <<x>> = <<x>> /\ <<x>> \o <<>> = <<x>>
            /\ <<x>> # <<>> /\ Len(<<x>>) = 1
            /\ Head(<<x>>) = x /\ Tail(<<x>>) = <<>>
            /\ Append(<<>>, x) = <<x>>
  /\ \A x, y : /\ <<x>> \o <<y>> = <<x, y>> /\ <<x, y>> # <<>>
               /\ Head(<<x, y>>) = x /\ Tail(<<x, y>>) = <<y>>
               /\ Append(<<x>>, y) = <<x, y>>
  /\ Len(<<>>) = 0
<1>1. <<>> \o <<>> = <<>>
  OBVIOUS
<1>2. \A x : <<>> \o <<x>> = <<x>> /\ <<x>> \o <<>> = <<x>>
  OBVIOUS
<1>3. \A x : <<x>> # <<>> /\ Len(<<x>>) = 1 /\ Head(<<x>>) = x
  OBVIOUS
<1>4. \A x : Tail(<<x>>) = <<>>
  OBVIOUS
<1>5. \A x : Append(<<>>, x) = <<x>>
  OBVIOUS
<1>6. \A x, y : <<x>> \o <<y>> = <<x, y>>
  <2> SUFFICES ASSUME NEW x, NEW y PROVE <<x>> \o <<y>> = <<x, y>>
    OBVIOUS
  <2> DEFINE S == {x, y}
  <2>1. <<x>> \in Seq(S) /\ <<y>> \in Seq(S) /\ <<x, y>> \in Seq(S)
    OBVIOUS
  <2>2. Len(<<x>>) = 1 /\ Len(<<y>>) = 1 /\ Len(<<x, y>>) = 2
    OBVIOUS
  <2> HIDE DEF S
  <2>3. /\ <<x>> \o <<y>> \in Seq(S) /\ Len(<<x>> \o <<y>>) = 2
        /\ \A i \in 1..2 : (<<x>> \o <<y>>)[i] = IF i <= 1 THEN <<x>>[i] ELSE <<y>>[i - 1]
    BY <2>1, <2>2, ConcatProperties
  <2>4. \A i \in 1..2 : (<<x>> \o <<y>>)[i] = <<x, y>>[i]
    BY <2>3
  <2> QED BY <2>1, <2>2, <2>3, <2>4, SeqEqual
<1>7. \A x, y : <<x, y>> # <<>> /\ Head(<<x, y>>) = x
  OBVIOUS
<1>8. \A x, y : Tail(<<x, y>>) = <<y>>
  <2> SUFFICES ASSUME NEW x, NEW y PROVE Tail(<<x, y>>) = <<y>>
    OBVIOUS
  <2> DEFINE S == {x, y}
  <2>1. <<y>> \in Seq(S) /\ <<x, y>> \in Seq(S) /\ <<x, y>> # <<>>
    OBVIOUS
  <2>2. Len(<<y>>) = 1 /\ Len(<<x, y>>) = 2
    OBVIOUS
  <2> HIDE DEF S
  <2>3. /\ Tail(<<x, y>>) \in Seq(S) /\ Len(Tail(<<x, y>>)) = 1
        /\ \A i \in 1..1 : Tail(<<x, y>>)[i] = <<x, y>>[i + 1]
    BY <2>1, <2>2, HeadTailProperties
  <2>4. \A i \in 1..1 : Tail(<<x, y>>)[i] = <<y>>[i]
    BY <2>3
  <2> QED BY <2>1, <2>2, <2>3, <2>4, SeqEqual
<1>9. \A x, y : Append(<<x>>, y) = <<x, y>>
  <2> SUFFICES ASSUME NEW x, NEW y PROVE Append(<<x>>, y) = <<x, y>>
    OBVIOUS
  <2> DEFINE S == {x, y}
  <2>1. <<x>> \in Seq(S) /\ y \in S
    OBVIOUS
  <2> HIDE DEF S
  <2> QED BY <1>6, <2>1, AppendIsConcat
<1>10. Len(<<>>) = 0
  OBVIOUS
<1> QED BY <1>1, <1>2, <1>3, <1>4, <1>5, <1>6, <1>7, <1>8, <1>9, <1>10

-----------------------------------------------------------------------------
(***************************************************************************)
(* The channels' contents by what the buffers hold.                        *)
(***************************************************************************)

HostContent ==
  LET in == inBuf[p_buffer_in]
      cache == inBuf[p_buffer_in_cache]
  IN /\ pc = "move_swap_cache" => ToHost = <<in>>
     /\ pc # "move_swap_cache" =>
          ToHost = IF in \in Payload
                     THEN IF cache \in Payload THEN <<in, cache>> ELSE <<in>>
                     ELSE IF cache \in Payload THEN <<cache>> ELSE <<>>

LEMMA HostIs == IInv => HostContent
<1> SUFFICES ASSUME IInv PROVE HostContent
  OBVIOUS
<1>1. \A b \in Buffers : Loaded(inBuf[b]) <=> inBuf[b] \in Payload
  BY PayloadsDistinct DEF IInv, TypeOK
<1>2. p_buffer_in \in Buffers /\ p_buffer_in_cache \in Buffers
  BY DEF IInv, TypeOK
<1>3. CASE pc = "move_swap_cache"
  BY <1>1, <1>2, <1>3 DEF HostContent, ToHost, IInv, InputInv, PointerInv
<1>4. CASE pc # "move_swap_cache"
  BY <1>1, <1>2, <1>4, ShortSequences
     DEF HostContent, ToHost, IInv, InputInv, PointerInv
<1> QED BY <1>3, <1>4

MasterContent ==
  LET out == outBuf[p_buffer_out]
      cache == outBuf[p_buffer_out_cache]
  IN ToMaster = IF cache \in Payload
                  THEN IF data_out_available THEN <<cache, out>> ELSE <<cache>>
                  ELSE IF data_out_available THEN <<out>> ELSE <<>>

LEMMA MasterIs == MasterContent
BY ShortSequences DEF MasterContent, ToMaster

LEMMA ContentNext == (IInv' => HostContent') /\ MasterContent'
BY HostIs, MasterIs, PTL

(* What is left for the master once the armed reply is clocked out.        *)
LEMMA StillIs ==
  ASSUME IInv
  PROVE  Channel!StillToMaster =
           IF data_out_available THEN <<outBuf[p_buffer_out]>> ELSE <<>>
<1> USE DEF Channel!StillToMaster, Phase, IInv, ArmedInv, OutputInv
<1>1. \A r \in Results : r \notin Payload
  BY PayloadAssumption DEF Results, Reserved
<1>2. "DUMMY" \notin Payload
  BY PayloadAssumption DEF Reserved
<1>3. CASE state = "DATA_SENDING" /\ outBuf[p_buffer_out_cache] \in Payload
  BY <1>3, MasterIs, ShortSequences DEF MasterContent
<1>4. CASE state = "DATA_SENDING" /\ outBuf[p_buffer_out_cache] \notin Payload
  BY <1>4, MasterIs DEF MasterContent
<1>5. CASE state # "DATA_SENDING"
  BY <1>1, <1>2, <1>5, MasterIs DEF MasterContent
<1> QED BY <1>3, <1>4, <1>5

-----------------------------------------------------------------------------
(***************************************************************************)
(* The parts the cases of the interrupt share.                             *)
(***************************************************************************)

LEMMA HostUnchanged ==
  ASSUME IInv, IInv', UNCHANGED inVars, UNCHANGED pc PROVE ToHost' = ToHost
BY HostIs, ContentNext DEF HostContent, inVars

LEMMA HostRecycled ==
  ASSUME IInv, IInv', ~InputClosed, UNCHANGED mainVars, RecycleInCache,
         KeepInPointers
  PROVE  ToHost' = ToHost
<1>1. pc # "move_swap_cache" /\ inBuf[p_buffer_in_cache] \notin Payload
      /\ p_buffer_in # p_buffer_in_cache
  BY DEF IInv, InputInv, CacheInv, PointerInv, InputClosed
<1>2. inBuf'[p_buffer_in'] = inBuf[p_buffer_in] /\ pc' = pc
      /\ inBuf'[p_buffer_in_cache'] \notin Payload
  BY <1>1, PayloadsDistinct
     DEF IInv, TypeOK, RecycleInCache, KeepInPointers, mainVars, Reserved
<1> QED BY <1>1, <1>2, HostIs, ContentNext DEF HostContent

LEMMA Replied ==
  ASSUME IInv, NEW mess \in Results, Reply(mess), NEW s, Arm(s)
  PROVE  /\ ToMaster' = Channel!StillToMaster
         /\ outBuf'[tx'] = mess /\ state' = s
<1>1. outBuf'[tx'] = mess /\ state' = s /\ tx' = p_buffer_out_cache'
  BY DEF IInv, TypeOK, Reply, Arm, DataOutPrepare
<1>2. outBuf'[p_buffer_out'] = outBuf[p_buffer_out]
  BY DEF IInv, OutputInv, TypeOK, Reply
<1>3. mess \notin Payload
  BY PayloadAssumption DEF Results, Reserved
<1>4. data_out_available' = data_out_available
  BY DEF Reply
<1>5. ToMaster' = IF data_out_available THEN <<outBuf[p_buffer_out]>> ELSE <<>>
  BY <1>1, <1>2, <1>3, <1>4, ContentNext DEF MasterContent
<1> QED BY <1>1, <1>5, StillIs

(* A message that is turned down, or ignored, is a Refuse of the channels. *)
LEMMA Refused ==
  ASSUME IInv, ToHost' = ToHost, UNCHANGED mainVars,
         NEW mess \in {"ERR", "BUSY", "READY", "DATA_READY"}, Listen(mess),
         mess = "DATA_READY" => data_out_available
  PROVE  Channel!Refuse
<1>1. mess \in Results /\ Reply(mess) /\ Arm("LISTENING")
  BY DEF Results, Listen
<1>2. /\ ToMaster' = Channel!StillToMaster
      /\ outBuf'[tx'] = mess /\ Phase' = "listening"
  BY <1>1, Replied DEF Phase
<1>3. mess = "DATA_READY" => Channel!StillToMaster # <<>>
  BY StillIs, ShortSequences
<1> QED BY <1>2, <1>3 DEF Channel!Refuse, mainVars

(* There is room for a payload when the line is open.                      *)
LEMMA Room ==
  ASSUME IInv, ~InputClosed PROVE Len(ToHost) < 2
<1>1. pc # "move_swap_cache" /\ inBuf[p_buffer_in_cache] \notin Payload
  BY DEF IInv, InputInv, CacheInv, InputClosed
<1>2. ToHost = <<inBuf[p_buffer_in]>> \/ ToHost = <<>>
  BY <1>1, HostIs DEF HostContent
<1>3. Len(ToHost) = 1 \/ Len(ToHost) = 0
  BY <1>2, ShortSequences
<1> QED BY <1>3

LEMMA WentAhead ==
  ASSUME IInv, ~InputClosed, ToHost' = ToHost, UNCHANGED mainVars,
         Reply("OK"), Arm("DATA_RECEIVING")
  PROVE  Channel!GoAhead
<1>1. /\ ToMaster' = Channel!StillToMaster
      /\ outBuf'[tx'] = "OK" /\ Phase' = "receiving"
  BY Replied DEF Phase, Results
<1> QED BY <1>1, Room DEF Channel!GoAhead, Channel!Capacity, mainVars

-----------------------------------------------------------------------------
(***************************************************************************)
(* The interrupt.                                                          *)
(***************************************************************************)

(* What a transfer with message m may do to the channels.                  *)
MasterStep(m) ==
  \/ Channel!Refuse \/ Channel!GoAhead \/ Channel!AcceptVoid \/ Channel!Offer
  \/ m \in Payload /\ Channel!Accept(m)

(* The payload, or the dummy, that the master asked for.                   *)
LEMMA Offered ==
  ASSUME IInv, IInv', ToHost' = ToHost, MutexOutTrylock,
         BufferOutCacheDataMove, Arm("DATA_SENDING"), UNCHANGED mainVars
  PROVE  Channel!Offer
<1>1. pc \notin {"send_header", "send_payload", "send_available"}
  BY DEF IInv, MutexInv, SendPcs, MutexOutTrylock
<1>2. Loaded(outBuf[p_buffer_out]) <=> data_out_available
  BY <1>1, PayloadsDistinct DEF IInv, OutputInv, Loaded
<1>3. /\ Phase' = "sending" /\ tx' = p_buffer_out_cache'
      /\ ~data_out_available'
  BY DEF Phase, Arm, DataOutPrepare, BufferOutCacheDataMove
<1>4. "DUMMY" \notin Payload
  BY PayloadAssumption DEF Reserved
<1>5. CASE data_out_available
  <2>1. /\ outBuf'[p_buffer_out_cache'] = outBuf[p_buffer_out]
        /\ outBuf[p_buffer_out] \in Payload
    BY <1>1, <1>2, <1>5 DEF IInv, TypeOK, OutputInv, BufferOutCacheDataMove
  <2>2. ToMaster' = <<outBuf[p_buffer_out]>>
    BY <1>3, <2>1, ContentNext DEF MasterContent
  <2> QED BY <1>3, <1>5, <2>1, <2>2, StillIs, ShortSequences
          DEF Channel!Offer, mainVars
<1>6. CASE ~data_out_available
  <2>1. outBuf'[p_buffer_out_cache'] = "DUMMY"
    BY <1>2, <1>6 DEF IInv, TypeOK, BufferOutCacheDataMove
  <2>2. ToMaster' = <<>>
    BY <1>3, <1>4, <2>1, ContentNext DEF MasterContent
  <2> QED BY <1>3, <1>6, <2>1, <2>2, StillIs DEF Channel!Offer, mainVars
<1> QED BY <1>5, <1>6

(* The payload joins what was there, in the cache or at once.              *)
LEMMA TakenReply ==
  ASSUME IInv, state = "DATA_RECEIVING", NEW mess \in {"OK", "OK_BUSY"},
         Listen(mess)
  PROVE  /\ Phase = "receiving" /\ Phase' = "listening"
         /\ outBuf'[tx'] = mess /\ ToMaster' = ToMaster
<1>1. mess \in Results /\ Reply(mess) /\ Arm("LISTENING")
  BY DEF Results, Listen
<1>2. ToMaster = Channel!StillToMaster
  BY DEF Channel!StillToMaster, Phase
<1> QED BY <1>1, <1>2, Replied DEF Phase

LEMMA TakenBusy ==
  ASSUME IInv, IInv', NEW m \in Messages, NEW ev, ReceiveDataBusy(m, ev)
  PROVE  MasterStep(m)
<1>1. /\ ~InputClosed /\ state = "DATA_RECEIVING" /\ Listen("OK_BUSY")
      /\ p_buffer_in' = p_buffer_in /\ p_buffer_in_cache' = p_buffer_in_cache
      /\ pc' = pc
  BY DEF ReceiveDataBusy, KeepInPointers, mainVars
<1>2. /\ pc # "move_swap_cache" /\ inBuf[p_buffer_in_cache] \notin Payload
      /\ p_buffer_in # p_buffer_in_cache
  BY <1>1 DEF IInv, InputInv, CacheInv, PointerInv, InputClosed
<1>3. /\ Phase = "receiving" /\ Phase' = "listening"
      /\ outBuf'[tx'] = "OK_BUSY" /\ ToMaster' = ToMaster
  BY <1>1, TakenReply
<1>4. inBuf'[p_buffer_in] = inBuf[p_buffer_in]
  BY <1>2 DEF IInv, TypeOK, ReceiveDataBusy
<1>5. CASE m = "DATA_VOID"
  <2>1. inBuf'[p_buffer_in_cache] \notin Payload
    BY <1>5, PayloadAssumption DEF IInv, TypeOK, ReceiveDataBusy, Reserved
  <2>2. ToHost' = ToHost
    BY <1>1, <1>2, <1>4, <2>1, HostIs, ContentNext DEF HostContent
  <2> QED BY <1>1, <1>3, <2>2 DEF Channel!AcceptVoid, MasterStep
<1>6. CASE m # "DATA_VOID"
  <2>1. m \in Payload /\ inBuf'[p_buffer_in_cache] = m
    BY <1>6 DEF IInv, TypeOK, ReceiveDataBusy
  <2>2. ToHost' = Append(ToHost, m)
    <3>1. CASE inBuf[p_buffer_in] \in Payload
      <4>1. ToHost = <<inBuf[p_buffer_in]>>
        BY <1>2, <3>1, HostIs DEF HostContent
      <4>2. ToHost' = <<inBuf[p_buffer_in], m>>
        BY <1>1, <1>2, <1>4, <2>1, <3>1, ContentNext DEF HostContent
      <4> QED BY <4>1, <4>2, ShortSequences
    <3>2. CASE inBuf[p_buffer_in] \notin Payload
      <4>1. ToHost = <<>>
        BY <1>2, <3>2, HostIs DEF HostContent
      <4>2. ToHost' = <<m>>
        BY <1>1, <1>2, <1>4, <2>1, <3>2, ContentNext DEF HostContent
      <4> QED BY <4>1, <4>2, ShortSequences
    <3> QED BY <3>1, <3>2
  <2> QED BY <1>1, <1>3, <2>1, <2>2, Room
          DEF Channel!Accept, MasterStep, Channel!Capacity
<1> QED BY <1>5, <1>6

LEMMA TakenMoved ==
  ASSUME IInv, IInv', NEW m \in Messages, NEW ev, ReceiveDataMoved(m, ev)
  PROVE  MasterStep(m)
<1>1. /\ ~InputClosed /\ state = "DATA_RECEIVING" /\ Listen("OK")
      /\ p_buffer_in' = p_buffer_in_cache /\ p_buffer_in_cache' = p_buffer_in
      /\ pc' = pc /\ m \in Payload
  BY DEF ReceiveDataMoved, mainVars
<1>2. /\ pc # "move_swap_cache" /\ inBuf[p_buffer_in_cache] \notin Payload
      /\ p_buffer_in # p_buffer_in_cache
  BY <1>1 DEF IInv, InputInv, CacheInv, PointerInv, InputClosed
<1>3. /\ Phase = "receiving" /\ Phase' = "listening"
      /\ outBuf'[tx'] = "OK" /\ ToMaster' = ToMaster
  BY <1>1, TakenReply
<1>4. inBuf[p_buffer_in] \notin Payload
  BY PayloadsDistinct DEF ReceiveDataMoved, MoveBlocked
<1>5. inBuf'[p_buffer_in_cache] = m /\ inBuf'[p_buffer_in] = "EMPTY"
  BY <1>2 DEF IInv, TypeOK, ReceiveDataMoved
<1>6. ToHost = <<>>
  BY <1>2, <1>4, HostIs DEF HostContent
<1>7. ToHost' = <<m>>
  BY <1>1, <1>2, <1>5, PayloadsDistinct, ContentNext DEF HostContent, Reserved
<1> QED BY <1>1, <1>3, <1>6, <1>7, ShortSequences
        DEF Channel!Accept, MasterStep, Channel!Capacity

LEMMA TakenVoid ==
  ASSUME IInv, IInv', NEW m \in Messages, NEW ev, ReceiveDataVoid(m, ev)
  PROVE  MasterStep(m)
<1>1. ToHost' = ToHost
  BY HostRecycled DEF ReceiveDataVoid
<1> QED BY <1>1, TakenReply
        DEF ReceiveDataVoid, Channel!AcceptVoid, MasterStep, mainVars

LEMMA TransferImplements ==
  ASSUME IInv, IInv', NEW m \in Messages, NEW ev, TransferDone(m, ev)
  PROVE  MasterStep(m)
<1> USE DEF MasterStep
<1>1. CASE TransferSaturated(ev)
  <2>1. ToHost' = ToHost /\ Listen("BUSY") /\ UNCHANGED mainVars
    BY <1>1, HostUnchanged DEF TransferSaturated, mainVars
  <2> QED BY <2>1, Refused
<1>2. CASE TransferBroken(m, ev)
  <2>1. ToHost' = ToHost /\ Listen("ERR") /\ UNCHANGED mainVars
    BY <1>2, HostUnchanged DEF TransferBroken, mainVars
  <2> QED BY <2>1, Refused
<1>3. CASE ReceiveDataStart(m, ev)
  <2>1. ToHost' = ToHost /\ UNCHANGED mainVars
    BY <1>3, HostRecycled DEF ReceiveDataStart
  <2>2. CASE m = "SEND_START"
    BY <1>3, <2>1, <2>2, WentAhead DEF ReceiveDataStart
  <2>3. CASE m # "SEND_START"
    BY <1>3, <2>1, <2>3, Refused DEF ReceiveDataStart
  <2> QED BY <2>2, <2>3
<1>4. CASE SendDataStart(m, ev)
  <2>1. ToHost' = ToHost /\ UNCHANGED mainVars
    BY <1>4, HostRecycled DEF SendDataStart
  <2>2. CASE Listen("ERR") \/ Listen("BUSY")
    BY <2>1, <2>2, Refused
  <2>3. CASE /\ MutexOutTrylock /\ BufferOutCacheDataMove
             /\ Arm("DATA_SENDING") /\ UNCHANGED mainVars
    BY <2>1, <2>3, Offered
  <2> QED BY <1>4, <2>2, <2>3 DEF SendDataStart
<1>5. CASE ReceiveDataRefused(m, ev)
  <2>1. ToHost' = ToHost /\ Listen("ERR") /\ UNCHANGED mainVars
    BY <1>5, HostRecycled DEF ReceiveDataRefused
  <2> QED BY <2>1, Refused
<1>6. CASE ReceiveDataBusy(m, ev)
  BY <1>6, TakenBusy
<1>7. CASE ReceiveDataMoved(m, ev)
  BY <1>7, TakenMoved
<1>8. CASE ReceiveDataVoid(m, ev)
  BY <1>8, TakenVoid
<1>9. CASE TransferOther(m, ev)
  <2>1. ToHost' = ToHost /\ UNCHANGED mainVars
    BY <1>9, HostRecycled DEF TransferOther
  <2>2. CASE state = "DATA_RECEIVING"
    BY <1>9, <2>1, <2>2, WentAhead DEF TransferOther
  <2>3. CASE state # "DATA_RECEIVING" /\ data_out_available
    BY <1>9, <2>1, <2>3, Refused DEF TransferOther
  <2>4. CASE state # "DATA_RECEIVING" /\ ~data_out_available
    BY <1>9, <2>1, <2>4, Refused DEF TransferOther
  <2> QED BY <2>2, <2>3, <2>4
<1> QED BY <1>1, <1>2, <1>3, <1>4, <1>5, <1>6, <1>7, <1>8, <1>9
        DEF TransferDone

-----------------------------------------------------------------------------
(***************************************************************************)
(* The main loop.  Only the end of spils_init, the copy of a payload and   *)
(* the announcement of one are steps of the channels, whatever lies        *)
(* between them.                                                           *)
(***************************************************************************)

LEMMA OutputStutters ==
  ASSUME UNCHANGED <<outVars, armVars>>
  PROVE  UNCHANGED <<ToMaster, Phase, outBuf[tx]>>
BY DEF outVars, armVars, ToMaster, Phase

(* Neither assignment of the swap of the pointers shows in the channels.   *)
LEMMA MoveImplements ==
  ASSUME IInv, IInv', NEW ev, MoveStep(ev) PROVE UNCHANGED Channel!vars
<1> USE DEF HostContent
<1>1. UNCHANGED <<ToMaster, Phase, outBuf[tx]>>
  BY OutputStutters DEF MoveStep
<1>2. ToHost' = ToHost
  <2>1. CASE MoveSwapIn
    <3>1. /\ inBuf[p_buffer_in] \notin Payload
          /\ inBuf[p_buffer_in_cache] \in Payload
      BY <2>1, PayloadsDistinct
         DEF IInv, InputInv, BufferInInv, CacheInv, MoveSwapIn, Goto, Reserved
    <3>2. ToHost = <<inBuf[p_buffer_in_cache]>>
      BY <2>1, <3>1, HostIs DEF MoveSwapIn, Goto
    <3>3. ToHost' = <<inBuf[p_buffer_in_cache]>>
      BY <2>1, ContentNext DEF MoveSwapIn, Goto
    <3> QED BY <3>2, <3>3
  <2>2. CASE MoveSwapCache
    <3>1. /\ inBuf[p_buffer_in] \in Payload
          /\ inBuf[temp_buffer] \notin Payload
      BY <2>2, PayloadsDistinct
         DEF IInv, InputInv, PointerInv, MoveSwapCache, Goto, Reserved
    <3>2. ToHost = <<inBuf[p_buffer_in]>>
      BY <2>2, HostIs DEF MoveSwapCache, Goto
    <3>3. ToHost' = <<inBuf[p_buffer_in]>>
      BY <2>2, <3>1, ContentNext DEF MoveSwapCache, Goto
    <3> QED BY <3>2, <3>3
  <2>3. CASE MoveTrylock \/ MoveCheckCache \/ MoveNothing \/ MoveCheckIn
             \/ MoveFailUnlock \/ MoveAvailable \/ MoveNotBusy \/ MoveUnlock
    <3>1. /\ pc # "move_swap_cache" /\ pc' # "move_swap_cache"
          /\ inBuf' = inBuf /\ p_buffer_in' = p_buffer_in
          /\ p_buffer_in_cache' = p_buffer_in_cache
      BY <2>3 DEF MoveTrylock, MoveCheckCache, MoveNothing, MoveCheckIn,
                  MoveFailUnlock, MoveAvailable, MoveNotBusy, MoveUnlock,
                  Goto, inVars
    <3> QED BY <3>1, HostIs, ContentNext
  <2> QED BY <2>1, <2>2, <2>3 DEF MoveStep
<1>3. pc \notin InitPcs /\ pc' \notin InitPcs
  BY DEF MoveStep, MoveTrylock, MoveCheckCache, MoveNothing, MoveCheckIn,
         MoveFailUnlock, MoveSwapIn, MoveSwapCache, MoveAvailable,
         MoveNotBusy, MoveUnlock, Goto, InitPcs
<1> QED BY <1>1, <1>2, <1>3 DEF Channel!vars

LEMMA ReadImplements ==
  ASSUME IInv, IInv', NEW ev, ReadStep(ev)
  PROVE  \/ pc = "read_copy" /\ Channel!Take /\ p_data' = Head(ToHost)
         \/ pc # "read_copy" /\ UNCHANGED <<p_data, Channel!vars>>
<1>1. /\ UNCHANGED <<ToMaster, Phase, outBuf[tx]>>
      /\ pc \notin InitPcs /\ pc' \notin InitPcs
  BY OutputStutters DEF ReadStep, ReadTrylock, ReadCopy, ReadRecycle,
     ReadNotAvailable, ReadUnlock, Goto, InitPcs
<1>2. CASE ReadCopy
  <2>1. /\ inBuf[p_buffer_in] \in Payload
        /\ p_buffer_in # p_buffer_in_cache
    BY <1>2 DEF IInv, InputInv, BufferInInv, PointerInv, ReadCopy, Goto
  <2>2. /\ inBuf'[p_buffer_in] \notin Payload
        /\ inBuf'[p_buffer_in_cache] = inBuf[p_buffer_in_cache]
    BY <1>2, <2>1, PayloadsDistinct DEF IInv, TypeOK, ReadCopy, Reserved
  <2>3. CASE inBuf[p_buffer_in_cache] \in Payload
    <3>1. ToHost = <<inBuf[p_buffer_in], inBuf[p_buffer_in_cache]>>
      BY <1>2, <2>1, <2>3, HostIs DEF HostContent, ReadCopy, Goto
    <3>2. ToHost' = <<inBuf[p_buffer_in_cache]>>
      BY <1>2, <2>2, <2>3, ContentNext DEF HostContent, ReadCopy, Goto
    <3> QED BY <1>1, <1>2, <3>1, <3>2, ShortSequences
            DEF Channel!Take, ReadCopy, Goto
  <2>4. CASE inBuf[p_buffer_in_cache] \notin Payload
    <3>1. ToHost = <<inBuf[p_buffer_in]>>
      BY <1>2, <2>1, <2>4, HostIs DEF HostContent, ReadCopy, Goto
    <3>2. ToHost' = <<>>
      BY <1>2, <2>2, <2>4, ContentNext DEF HostContent, ReadCopy, Goto
    <3> QED BY <1>1, <1>2, <3>1, <3>2, ShortSequences
            DEF Channel!Take, ReadCopy, Goto
  <2> QED BY <2>3, <2>4
<1>3. CASE ReadRecycle
  <2>1. /\ inBuf[p_buffer_in] \notin Payload
        /\ p_buffer_in # p_buffer_in_cache
    BY <1>3, PayloadsDistinct
       DEF IInv, InputInv, BufferInInv, PointerInv, ReadRecycle, Goto,
           Reserved
  <2>2. /\ inBuf'[p_buffer_in] \notin Payload
        /\ inBuf'[p_buffer_in_cache] = inBuf[p_buffer_in_cache]
    BY <1>3, <2>1, PayloadsDistinct DEF IInv, TypeOK, ReadRecycle, Reserved
  <2>3. ToHost' = ToHost
    BY <1>3, <2>1, <2>2, HostIs, ContentNext
       DEF HostContent, ReadRecycle, Goto
  <2> QED BY <1>1, <1>3, <2>3 DEF Channel!vars, ReadRecycle, Goto
<1>4. CASE ReadTrylock \/ ReadNotAvailable \/ ReadUnlock
  <2>1. /\ pc # "move_swap_cache" /\ pc' # "move_swap_cache"
        /\ inBuf' = inBuf /\ p_buffer_in' = p_buffer_in
        /\ p_buffer_in_cache' = p_buffer_in_cache
    BY <1>4 DEF ReadTrylock, ReadNotAvailable, ReadUnlock, Goto, inVars
  <2>2. ToHost' = ToHost
    BY <2>1, HostIs, ContentNext DEF HostContent
  <2> QED BY <1>1, <1>4, <2>2
          DEF Channel!vars, ReadTrylock, ReadNotAvailable, ReadUnlock, Goto
<1> QED BY <1>2, <1>3, <1>4 DEF ReadStep

LEMMA SendImplements ==
  ASSUME IInv, IInv', NEW ev, SendStep(ev)
  PROVE  \/ /\ pc = "send_available" /\ outBuf[p_buffer_out] \in Payload
            /\ Channel!Put(outBuf[p_buffer_out])
         \/ pc # "send_available" /\ UNCHANGED Channel!vars
<1>1. /\ UNCHANGED <<inVars, p_buffer_out, p_buffer_out_cache, armVars>>
      /\ pc # "move_swap_cache" /\ pc' # "move_swap_cache"
      /\ pc \notin InitPcs /\ pc' \notin InitPcs
  BY DEF SendStep, SendTrylock, SendHeader, SendPayload, SendAvailable,
         SendUnlock, Goto, InitPcs
<1>2. /\ UNCHANGED <<ToHost, Phase>>
      /\ pc \notin InitPcs /\ pc' \notin InitPcs
  BY <1>1, HostIs, ContentNext DEF HostContent, inVars, armVars, Phase
<1>3. outBuf'[p_buffer_out_cache] = outBuf[p_buffer_out_cache]
  BY DEF IInv, TypeOK, OutputInv, SendStep, SendTrylock, SendHeader,
         SendPayload, SendAvailable, SendUnlock
<1>4. outBuf'[tx'] = outBuf[tx]
  BY <1>1, <1>3 DEF IInv, ArmedInv, armVars
<1>5. CASE SendAvailable
  <2>1. /\ outBuf[p_buffer_out] \in Payload /\ ~data_out_available
        /\ outBuf' = outBuf
    BY <1>5 DEF IInv, OutputInv, SendAvailable, Goto
  <2>2. data_out_available'
    BY <1>5 DEF SendAvailable
  <2>3. CASE outBuf[p_buffer_out_cache] \in Payload
    <3>1. ToMaster = <<outBuf[p_buffer_out_cache]>>
      BY <2>1, <2>3, MasterIs DEF MasterContent
    <3>2. ToMaster' = <<outBuf[p_buffer_out_cache], outBuf[p_buffer_out]>>
      BY <1>1, <2>1, <2>2, <2>3, ContentNext DEF MasterContent
    <3> QED BY <1>2, <1>4, <1>5, <2>1, <3>1, <3>2, ShortSequences
            DEF Channel!Put, Channel!Capacity, SendAvailable, Goto
  <2>4. CASE outBuf[p_buffer_out_cache] \notin Payload
    <3>1. ToMaster = <<>>
      BY <2>1, <2>4, MasterIs DEF MasterContent
    <3>2. ToMaster' = <<outBuf[p_buffer_out]>>
      BY <1>1, <2>1, <2>2, <2>4, ContentNext DEF MasterContent
    <3> QED BY <1>2, <1>4, <1>5, <2>1, <3>1, <3>2, ShortSequences
            DEF Channel!Put, Channel!Capacity, SendAvailable, Goto
  <2> QED BY <2>3, <2>4
<1>6. CASE SendHeader \/ SendPayload
  <2>1. ~data_out_available /\ ~data_out_available'
    BY <1>6 DEF IInv, OutputInv, SendHeader, SendPayload, Goto
  <2>2. ToMaster' = ToMaster
    BY <1>1, <1>3, <2>1, MasterIs, ContentNext DEF MasterContent
  <2> QED BY <1>2, <1>4, <1>6, <2>2
          DEF Channel!vars, SendHeader, SendPayload, Goto
<1>7. CASE SendTrylock \/ SendUnlock
  <2>1. UNCHANGED outVars
    BY <1>1, <1>7 DEF SendTrylock, SendUnlock, outVars
  <2>2. ToMaster' = ToMaster
    BY <2>1 DEF outVars, ToMaster
  <2> QED BY <1>2, <1>4, <1>7, <2>2
          DEF Channel!vars, SendTrylock, SendUnlock, Goto
<1> QED BY <1>5, <1>6, <1>7 DEF SendStep

(* The end of spils_init: the channels start, and the phase is kept or,    *)
(* when the interrupt has changed it since the state was read, forgotten.  *)
LEMMA InitStepImplements ==
  ASSUME IInv, IInv', NEW ev, InitStep(ev)
  PROVE  Channel!Start \/ UNCHANGED Channel!vars
<1>1. /\ UNCHANGED <<inVars, outVars, tx>> /\ pc \in InitPcs
      /\ pc # "move_swap_cache" /\ pc' # "move_swap_cache"
  BY DEF InitStep, InitLook, InitStore, InitPcs, Goto
<1>2. UNCHANGED <<ToHost, ToMaster, outBuf[tx]>>
  BY <1>1, HostIs, ContentNext DEF HostContent, inVars, outVars, ToMaster
<1>3. ToMaster = <<>>
  BY <1>1, MasterIs DEF MasterContent, IInv, OutputInv
<1>4. CASE pc' \in InitPcs
  <2>1. state' = state
    BY <1>4 DEF InitStep, InitLook, InitStore, InitPcs, Goto
  <2> QED BY <1>1, <1>2, <1>4, <2>1 DEF Phase, Channel!vars
<1>5. CASE pc' \notin InitPcs
  <2>1. Phase' \in {Phase, "listening"}
    BY DEF InitStep, InitLook, InitStore, Phase
  <2> QED BY <1>1, <1>2, <1>3, <1>5, <2>1 DEF Channel!Start
<1> QED BY <1>4, <1>5

(* The other steps move the main loop only.                                *)
LEMMA LoopImplements ==
  ASSUME IInv, IInv', NEW ev, NEW d,
         MoveEvent(ev) \/ Poll(ev) \/ Read(ev) \/ Send(d, ev)
  PROVE  UNCHANGED Channel!vars
<1>1. /\ UNCHANGED <<inVars, outVars, tx>>
      /\ pc # "move_swap_cache" /\ pc' # "move_swap_cache"
      /\ pc \notin InitPcs /\ pc' \notin InitPcs
  BY DEF MoveEvent, Poll, Read, Send, Goto, armVars, InitPcs
<1>2. Phase' = Phase
  BY DEF MoveEvent, Poll, Read, Send, armVars, Phase
<1>3. ToHost' = ToHost
  BY <1>1, HostIs, ContentNext DEF HostContent, inVars
<1> QED BY <1>1, <1>2, <1>3 DEF outVars, ToMaster, Channel!vars

-----------------------------------------------------------------------------
(***************************************************************************)
(* The refinement.                                                         *)
(***************************************************************************)

LEMMA InitImplements == Init => Channel!Init
<1> SUFFICES ASSUME Init PROVE Channel!Init
  OBVIOUS
<1>1. IInv /\ pc # "move_swap_cache"
  BY InitInv DEF Init
<1>2. \A b \in Buffers : inBuf[b] \notin Payload
  BY PayloadsDistinct DEF Init, Reserved
<1>3. ToHost = <<>>
  BY <1>1, <1>2, HostIs DEF HostContent, IInv, TypeOK
<1>4. outBuf[p_buffer_out_cache] = "READY" /\ ~data_out_available
  BY DEF Init, Buffers
<1>5. ToMaster = <<>>
  BY <1>4, PayloadsDistinct, MasterIs DEF MasterContent, Reserved
<1> QED BY <1>3, <1>4, <1>5 DEF Channel!Init, Phase, Init, InitPcs

LEMMA NextImplements ==
  IInv /\ IInv' /\ [Next]_vars => [Channel!Next]_Channel!vars
<1> SUFFICES ASSUME IInv, IInv', [Next]_vars
             PROVE  Channel!Next \/ UNCHANGED Channel!vars
  OBVIOUS
<1>1. ASSUME NEW ev \in SUBSET Events, CallStep(ev)
      PROVE  Channel!Next \/ UNCHANGED Channel!vars
  BY <1>1, InitStepImplements, MoveImplements, ReadImplements,
     SendImplements, LoopImplements DEF CallStep, Channel!Next, Channel!vars
<1>2. CASE UNCHANGED vars
  BY <1>2 DEF vars, inVars, outVars, armVars, mainVars, ToHost, ToMaster,
              Phase, Channel!vars
<1>3. ASSUME NEW m \in Messages, MasterStep(m) PROVE Channel!Next
  BY <1>3 DEF MasterStep, Channel!Next
<1> QED BY <1>1, <1>2, <1>3, TransferImplements, LoopImplements DEF Next

(* The buffers, flags, mutexes and pointers of the link, with the          *)
(* interrupt anywhere between two accesses of the main loop, are two       *)
(* bounded FIFO channels: nothing acknowledged is lost, doubled or         *)
(* overtaken, a go-ahead is only given with room behind it, and            *)
(* MASTER_DATA_READY and the dummy tell the master the truth.              *)
THEOREM LinkImplementsChannel == Spec => ImplementsChannel
<1>1. Init => Channel!Init
  BY InitImplements
<1>2. IInv /\ IInv' /\ [Next]_vars => [Channel!Next]_Channel!vars
  BY NextImplements
<1> QED BY <1>1, <1>2, Invariance, PTL DEF Spec, Channel!Spec,
           ImplementsChannel
=============================================================================
