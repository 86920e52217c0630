--------------------------- MODULE SpiLinkProofs ---------------------------
(***************************************************************************)
(* Proofs about SpiLink for every set of payloads: an inductive invariant  *)
(* that ties each buffer, flag and mutex to the place the main loop is at, *)
(* and from it the safety invariants of SpiLink.                           *)
(***************************************************************************)
EXTENDS SpiLink, TLAPS

(* The mutexes are held exactly inside the main loop's critical sections.  *)
MutexInv ==
  /\ mutex_in <=> pc \in MovePcs \cup ReadPcs
  /\ mutex_out <=> pc \in SendPcs

(* The two input pointers differ, except between the two assignments of    *)
(* the main loop's swap, when temp_buffer holds the other buffer.          *)
PointerInv ==
  /\ pc # "move_swap_cache" => p_buffer_in # p_buffer_in_cache
  /\ pc = "move_swap_cache" => /\ p_buffer_in = p_buffer_in_cache
                               /\ temp_buffer \in Buffers \ {p_buffer_in}
                               /\ inBuf[temp_buffer] = "EMPTY"
                               /\ inBuf[p_buffer_in] \in Payload

(* buffer_in against its flag, at every place of the main loop.            *)
BufferInInv ==
  /\ pc \notin {"move_swap_cache", "move_available", "read_recycle",
                "read_not_available"} =>
       \/ data_in_available /\ inBuf[p_buffer_in] \in Payload
       \/ ~data_in_available /\ inBuf[p_buffer_in] = "EMPTY"
  /\ pc = "move_swap_in" => ~data_in_available
  /\ pc \in {"move_swap_cache", "move_available"} =>
       ~data_in_available /\ inBuf[p_buffer_in] \in Payload
  /\ pc \in {"read_trylock", "read_copy"} => data_in_available
  /\ pc = "read_recycle" =>
       data_in_available /\ inBuf[p_buffer_in] = "CONSUMED"
  /\ pc = "read_not_available" =>
       data_in_available /\ inBuf[p_buffer_in] = "EMPTY"

(* The input cache against line_in_busy.                                   *)
CacheInv ==
  /\ inBuf[p_buffer_in_cache] \in Payload => line_in_busy
                                             \/ pc = "move_swap_cache"
  /\ pc \in {"move_trylock", "move_check_cache", "move_nothing",
             "move_check_in", "move_swap_in", "move_swap_cache",
             "move_available", "move_not_busy"} => line_in_busy
  /\ pc \in {"move_check_in", "move_swap_in"} =>
       inBuf[p_buffer_in_cache] \in Payload
  /\ pc \in {"move_nothing", "move_available", "move_not_busy"} =>
       inBuf[p_buffer_in_cache] \notin Payload

(* The armed transfer against the buffers.                                 *)
ArmedInv ==
  /\ tx = p_buffer_out_cache
  /\ line_in_is_saturated <=> rx = NULL
  /\ rx # NULL => /\ rx = p_buffer_in_cache
                  /\ inBuf[p_buffer_in_cache] \notin Payload

(* After a go-ahead the line stays open and the whole cache free.          *)
GoAheadInv ==
  state = "DATA_RECEIVING" => /\ ~line_in_busy /\ rx # NULL
                              /\ inBuf[p_buffer_in_cache] = "EMPTY"

(* The output buffers against their flag and the state.                    *)
OutputInv ==
  /\ p_buffer_out # p_buffer_out_cache
  /\ state = "DATA_SENDING" =>
       outBuf[p_buffer_out_cache] \in Payload \cup {"DUMMY"}
  /\ state # "DATA_SENDING" =>
       outBuf[p_buffer_out_cache] \in Results \cup {"DUMMY"}
  /\ pc \in InitPcs =>
       ~data_out_available /\ outBuf[p_buffer_out_cache] \notin Payload
  /\ pc \notin {"send_payload", "send_available"} =>
       \/ data_out_available /\ outBuf[p_buffer_out] \in Payload
       \/ ~data_out_available /\ outBuf[p_buffer_out] = "EMPTY"
  /\ pc \in {"send_trylock", "send_header", "send_payload",
             "send_available"} => ~data_out_available
  /\ pc \in {"send_trylock", "send_header", "send_payload"} =>
       sending \in Payload
  /\ pc = "send_payload" => outBuf[p_buffer_out] = "PARTIAL"
  /\ pc = "send_available" => outBuf[p_buffer_out] \in Payload

InputInv == PointerInv /\ BufferInInv /\ CacheInv

IInv == TypeOK /\ MutexInv /\ InputInv /\ ArmedInv /\ GoAheadInv /\ OutputInv

-----------------------------------------------------------------------------
(* TypeOK by the groups of variables the actions change together.          *)
InTypes ==
  /\ inBuf \in [Buffers -> InContents]
  /\ p_buffer_in \in Buffers /\ p_buffer_in_cache \in Buffers
  /\ data_in_available \in BOOLEAN /\ line_in_busy \in BOOLEAN

OutTypes ==
  /\ outBuf \in [Buffers -> OutMessages \cup {"EMPTY", "PARTIAL"}]
  /\ p_buffer_out \in Buffers /\ p_buffer_out_cache \in Buffers
  /\ data_out_available \in BOOLEAN

ArmTypes ==
  /\ state \in States
  /\ line_in_is_saturated \in BOOLEAN
  /\ rx \in Buffers \cup {NULL} /\ tx \in Buffers

MainTypes ==
  /\ mutex_in \in BOOLEAN /\ mutex_out \in BOOLEAN
  /\ pc \in Pcs
  /\ temp_buffer \in Buffers \cup {NULL}
  /\ sending \in Payload \cup {NULL}
  /\ p_data \in Payload \cup {NULL}
  /\ result \in {"OK", "BUSY"}

LEMMA Types ==
  /\ TypeOK <=> InTypes /\ OutTypes /\ ArmTypes /\ MainTypes
  /\ TypeOK' <=> InTypes' /\ OutTypes' /\ ArmTypes' /\ MainTypes'
BY DEF TypeOK, InTypes, OutTypes, ArmTypes, MainTypes

(* Payloads are none of the values the model reserves.                     *)
LEMMA PayloadsDistinct ==
  /\ \A d \in Payload : d \notin Reserved
  /\ \A d \in Payload : Loaded(d) = TRUE
  /\ \A c \in InContents : c \notin Payload => Loaded(c) = FALSE
BY PayloadAssumption DEF Reserved, Loaded, InContents

LEMMA InitInv == Init => IInv
BY PayloadAssumption
   DEF Init, IInv, InputInv, TypeOK, MutexInv, PointerInv, BufferInInv,
       CacheInv, ArmedInv, GoAheadInv, OutputInv, InitPcs, MovePcs, ReadPcs,
       SendPcs, Pcs, InContents, OutMessages, Results, Buffers, NULL, States,
       Reserved

-----------------------------------------------------------------------------
(***************************************************************************)
(* The interrupt: what arming, replying and recycling establish, whatever  *)
(* the message was.                                                        *)
(***************************************************************************)

LEMMA ArmEstablishes ==
  ASSUME NEW s \in States, Arm(s), InTypes', OutTypes'
  PROVE  /\ ArmTypes' /\ ArmedInv'
         /\ state' = s
         /\ rx' = NULL <=> inBuf'[p_buffer_in_cache'] \in Payload
<1> USE DEF Arm, DataInPrepare, DataOutPrepare, InTypes, OutTypes, ArmTypes,
            ArmedInv, Buffers, NULL
<1>1. CASE inBuf'[p_buffer_in_cache'] \in Payload
  <2>1. Loaded(inBuf'[p_buffer_in_cache']) = TRUE
    BY <1>1, PayloadsDistinct
  <2> QED BY <1>1, <2>1
<1>2. CASE inBuf'[p_buffer_in_cache'] \notin Payload
  <2>1. Loaded(inBuf'[p_buffer_in_cache']) = FALSE
    BY <1>2, PayloadsDistinct
  <2> QED BY <1>2, <2>1
<1> QED BY <1>1, <1>2

LEMMA ReplyEstablishes ==
  ASSUME TypeOK, OutputInv, NEW mess \in Results, Reply(mess),
         state' \in States \ {"DATA_SENDING"},
         UNCHANGED mainVars
  PROVE  OutTypes' /\ OutputInv'
<1>1. mess \notin Payload
  BY PayloadAssumption DEF Results, Reserved
<1> QED BY <1>1, Types
        DEF OutTypes, OutputInv, Reply, mainVars, OutMessages, Buffers

LEMMA MainUnchanged ==
  ASSUME TypeOK, MutexInv, UNCHANGED mainVars
  PROVE  MainTypes' /\ MutexInv'
BY Types DEF MainTypes, MutexInv, mainVars

LEMMA InputUnchanged ==
  ASSUME TypeOK, InputInv, UNCHANGED <<inVars, mainVars>>
  PROVE  InTypes' /\ InputInv'
BY Types DEF InTypes, InputInv, PointerInv, BufferInInv, CacheInv, inVars,
             mainVars

(* An open line: the main loop is not moving the cache, nothing waits in   *)
(* it, and recycling it disturbs nothing.                                  *)
LEMMA InputRecycled ==
  ASSUME TypeOK, InputInv, ~InputClosed, UNCHANGED mainVars,
         RecycleInCache, KeepInPointers, KeepInFlags
  PROVE  /\ InTypes' /\ InputInv'
         /\ inBuf'[p_buffer_in_cache'] = "EMPTY" /\ ~line_in_busy'
<1>1. InTypes'
  BY Types DEF InTypes, InContents, RecycleInCache, KeepInPointers,
               KeepInFlags
<1>2. InputInv' /\ inBuf'[p_buffer_in_cache'] = "EMPTY" /\ ~line_in_busy'
  BY Types, PayloadsDistinct
     DEF InTypes, InputInv, PointerInv, BufferInInv, CacheInv, InputClosed,
         RecycleInCache, KeepInPointers, KeepInFlags, mainVars, Reserved
<1> QED BY <1>1, <1>2

-----------------------------------------------------------------------------
(* Each case of the interrupt.                                             *)

LEMMA IgnoredInv ==
  ASSUME IInv, UNCHANGED <<inVars, mainVars>>,
         NEW mess \in Results, Listen(mess)
  PROVE  IInv'
<1>1. Reply(mess) /\ Arm("LISTENING") /\ "LISTENING" \in States
  BY DEF Listen, States
<1>2. TypeOK /\ MutexInv /\ InputInv /\ OutputInv /\ UNCHANGED mainVars
  BY DEF IInv
<1>3. state' = "LISTENING"
  BY <1>1 DEF Arm
<1>4. MainTypes' /\ MutexInv'
  BY <1>2, MainUnchanged
<1>5. InTypes' /\ InputInv'
  BY <1>2, InputUnchanged
<1>6. OutTypes' /\ OutputInv'
  BY <1>1, <1>2, <1>3, ReplyEstablishes DEF States
<1>7. ArmTypes' /\ ArmedInv'
  BY <1>1, <1>5, <1>6, ArmEstablishes
<1>8. GoAheadInv'
  BY <1>3 DEF GoAheadInv
<1> QED BY <1>4, <1>5, <1>6, <1>7, <1>8, Types DEF IInv

(* Any reply, or a repeated or new go-ahead, after recycling.              *)
LEMMA RecycledReplyInv ==
  ASSUME IInv, ~InputClosed, UNCHANGED mainVars,
         RecycleInCache, KeepInPointers, KeepInFlags,
         NEW mess \in Results, Reply(mess),
         NEW s \in {"LISTENING", "DATA_RECEIVING"}, Arm(s)
  PROVE  IInv'
<1>1. TypeOK /\ MutexInv /\ InputInv /\ OutputInv
  BY DEF IInv
<1>2. s \in States /\ state' = s /\ state' \in States \ {"DATA_SENDING"}
  BY DEF Arm, States
<1>3. MainTypes' /\ MutexInv'
  BY <1>1, MainUnchanged
<1>4. /\ InTypes' /\ InputInv'
      /\ inBuf'[p_buffer_in_cache'] = "EMPTY" /\ ~line_in_busy'
  BY <1>1, InputRecycled
<1>5. OutTypes' /\ OutputInv'
  BY <1>1, <1>2, ReplyEstablishes
<1>6. /\ ArmTypes' /\ ArmedInv'
      /\ rx' = NULL <=> inBuf'[p_buffer_in_cache'] \in Payload
  BY <1>2, <1>4, <1>5, ArmEstablishes
<1>7. GoAheadInv'
  BY <1>4, <1>6, PayloadsDistinct DEF GoAheadInv, Reserved
<1> QED BY <1>3, <1>4, <1>5, <1>6, <1>7, Types DEF IInv

LEMMA SaturatedInv ==
  ASSUME IInv, NEW ev, TransferSaturated(ev) PROVE IInv'
BY IgnoredInv DEF TransferSaturated, Results

LEMMA BrokenInv ==
  ASSUME IInv, NEW m, NEW ev, TransferBroken(m, ev) PROVE IInv'
BY IgnoredInv DEF TransferBroken, Results

LEMMA ReceiveDataStartInv ==
  ASSUME IInv, NEW m, NEW ev, ReceiveDataStart(m, ev) PROVE IInv'
<1>1. CASE m = "SEND_START"
  BY <1>1, RecycledReplyInv DEF ReceiveDataStart, Results
<1>2. CASE m # "SEND_START"
  BY <1>2, RecycledReplyInv DEF ReceiveDataStart, Listen, Results
<1> QED BY <1>1, <1>2

LEMMA RefusedInv ==
  ASSUME IInv, NEW m, NEW ev, ReceiveDataRefused(m, ev) PROVE IInv'
BY RecycledReplyInv DEF ReceiveDataRefused, Listen, Results

LEMMA VoidInv ==
  ASSUME IInv, NEW m, NEW ev, ReceiveDataVoid(m, ev) PROVE IInv'
<1>1. KeepInFlags
  BY DEF ReceiveDataVoid, KeepInFlags, InputClosed, IInv, TypeOK
<1> QED BY <1>1, RecycledReplyInv DEF ReceiveDataVoid, Listen, Results

LEMMA OtherInv ==
  ASSUME IInv, NEW m, NEW ev, TransferOther(m, ev) PROVE IInv'
<1>1. CASE state = "DATA_RECEIVING"
  BY <1>1, RecycledReplyInv DEF TransferOther, Results
<1>2. CASE state # "DATA_RECEIVING" /\ data_out_available
  BY <1>2, RecycledReplyInv DEF TransferOther, Listen, Results
<1>3. CASE state # "DATA_RECEIVING" /\ ~data_out_available
  BY <1>3, RecycledReplyInv DEF TransferOther, Listen, Results
<1> QED BY <1>1, <1>2, <1>3

(* The interrupt takes the output mutex: the main loop is not composing,   *)
(* so that what is swapped into the output cache is complete.              *)
LEMMA OfferInv ==
  ASSUME IInv, ~InputClosed, UNCHANGED mainVars,
         RecycleInCache, KeepInPointers, KeepInFlags,
         MutexOutTrylock, BufferOutCacheDataMove, Arm("DATA_SENDING")
  PROVE  IInv'
<1>1. TypeOK /\ MutexInv /\ InputInv /\ OutputInv
  BY DEF IInv
<1>2. "DATA_SENDING" \in States /\ state' = "DATA_SENDING"
  BY DEF Arm, States
<1>3. MainTypes' /\ MutexInv'
  BY <1>1, MainUnchanged
<1>4. InTypes' /\ InputInv'
  BY <1>1, InputRecycled
<1>5. pc \notin {"send_header", "send_payload", "send_available"}
  BY <1>1 DEF MutexInv, SendPcs, MutexOutTrylock
<1>6. OutTypes' /\ OutputInv'
  <2> USE DEF OutTypes, OutputInv, BufferOutCacheDataMove, mainVars, Buffers,
              OutMessages, Reserved
  <2>1. CASE data_out_available
    <3>1. Loaded(outBuf[p_buffer_out])
      BY <1>1, <1>5, <2>1, PayloadsDistinct DEF InContents, Loaded
    <3> QED BY <1>1, <1>2, <1>5, <2>1, <3>1, Types
  <2>2. CASE ~data_out_available
    <3>1. ~Loaded(outBuf[p_buffer_out])
      BY <1>1, <1>5, <2>2 DEF Loaded
    <3>2. "DUMMY" \notin Payload
      BY PayloadAssumption
    <3> QED BY <1>1, <1>2, <1>5, <2>2, <3>1, <3>2, Types
  <2> QED BY <1>1, <2>1, <2>2 DEF TypeOK
<1>7. ArmTypes' /\ ArmedInv'
  BY <1>2, <1>4, <1>6, ArmEstablishes
<1>8. GoAheadInv'
  BY <1>2 DEF GoAheadInv
<1> QED BY <1>3, <1>4, <1>6, <1>7, <1>8, Types DEF IInv

LEMMA SendDataStartInv ==
  ASSUME IInv, NEW m, NEW ev, SendDataStart(m, ev) PROVE IInv'
<1>1. CASE m = "RECV_START_BAD" /\ Listen("ERR")
  BY <1>1, RecycledReplyInv DEF SendDataStart, Listen, Results
<1>2. CASE m = "RECV_START" /\ ~MutexOutTrylock /\ Listen("BUSY")
  BY <1>2, RecycledReplyInv DEF SendDataStart, Listen, Results
<1>3. CASE m = "RECV_START" /\ MutexOutTrylock /\ BufferOutCacheDataMove
           /\ Arm("DATA_SENDING")
  BY <1>3, OfferInv DEF SendDataStart
<1> QED BY <1>1, <1>2, <1>3 DEF SendDataStart

(* The payload stays in the cache, which is no longer armed.               *)
LEMMA BusyInv ==
  ASSUME IInv, NEW m, NEW ev, ReceiveDataBusy(m, ev) PROVE IInv'
<1>1. TypeOK /\ MutexInv /\ InputInv /\ OutputInv
  BY DEF IInv
<1>2. /\ "LISTENING" \in States /\ state' = "LISTENING"
      /\ Arm("LISTENING") /\ Reply("OK_BUSY") /\ UNCHANGED mainVars
  BY DEF ReceiveDataBusy, Listen, Arm, States
<1>3. MainTypes' /\ MutexInv'
  BY <1>1, <1>2, MainUnchanged
<1>4. InTypes'
  BY <1>1, Types
     DEF InTypes, InContents, ReceiveDataBusy, KeepInPointers
<1>5. InputInv'
  BY <1>1, <1>2, Types, PayloadsDistinct
     DEF InTypes, InputInv, PointerInv, BufferInInv, CacheInv, InputClosed,
         ReceiveDataBusy, KeepInPointers, mainVars, Reserved
<1>6. OutTypes' /\ OutputInv'
  BY <1>1, <1>2, ReplyEstablishes DEF States, Results
<1>7. ArmTypes' /\ ArmedInv'
  BY <1>2, <1>4, <1>6, ArmEstablishes
<1>8. GoAheadInv'
  BY <1>2 DEF GoAheadInv
<1> QED BY <1>3, <1>4, <1>5, <1>6, <1>7, <1>8, Types DEF IInv

(* The buffers swap while the main loop is outside its critical section.   *)
LEMMA MovedInv ==
  ASSUME IInv, NEW m, NEW ev, ReceiveDataMoved(m, ev) PROVE IInv'
<1>1. TypeOK /\ MutexInv /\ InputInv /\ OutputInv
  BY DEF IInv
<1>2. /\ "LISTENING" \in States /\ state' = "LISTENING"
      /\ Arm("LISTENING") /\ Reply("OK") /\ UNCHANGED mainVars
  BY DEF ReceiveDataMoved, Listen, Arm, States
<1>3. MainTypes' /\ MutexInv'
  BY <1>1, <1>2, MainUnchanged
<1>4. InTypes'
  BY <1>1, Types
     DEF InTypes, InContents, ReceiveDataMoved
<1>5. pc \notin MovePcs \cup ReadPcs /\ inBuf[p_buffer_in] \notin Payload
  BY <1>1, Types, PayloadsDistinct
     DEF MutexInv, ReceiveDataMoved, MoveBlocked, MutexInTrylock, InTypes
<1>6. InputInv'
  BY <1>1, <1>2, <1>5, Types, PayloadsDistinct
     DEF InTypes, InputInv, PointerInv, BufferInInv, CacheInv, InputClosed,
         ReceiveDataMoved, mainVars, MovePcs, ReadPcs, Reserved
<1>7. OutTypes' /\ OutputInv'
  BY <1>1, <1>2, ReplyEstablishes DEF States, Results
<1>8. ArmTypes' /\ ArmedInv'
  BY <1>2, <1>4, <1>7, ArmEstablishes
<1>9. GoAheadInv'
  BY <1>2 DEF GoAheadInv
<1> QED BY <1>3, <1>4, <1>6, <1>7, <1>8, <1>9, Types DEF IInv

LEMMA TransferDoneInv ==
  ASSUME IInv, NEW m, NEW ev, TransferDone(m, ev) PROVE IInv'
BY SaturatedInv, BrokenInv, ReceiveDataStartInv, SendDataStartInv,
   RefusedInv, BusyInv, MovedInv, VoidInv, OtherInv DEF TransferDone

-----------------------------------------------------------------------------
(***************************************************************************)
(* The main loop: each step changes one thing.                             *)
(***************************************************************************)

(* Overwriting DATA_SENDING is safe since only a dummy can be armed yet.   *)
LEMMA InitStepInv ==
  ASSUME IInv, NEW ev, InitStep(ev) PROVE IInv'
<1> USE DEF IInv, InitStep, Goto, TypeOK, MutexInv, InputInv, PointerInv,
            BufferInInv, CacheInv, ArmedInv, GoAheadInv, OutputInv, inVars,
            outVars, Pcs, InitPcs, MovePcs, ReadPcs, SendPcs, States
<1>1. CASE InitLook
  BY <1>1 DEF InitLook
<1>2. CASE InitStore
  BY <1>2 DEF InitStore
<1> QED
  <2> HIDE DEF IInv
  <2> QED BY <1>1, <1>2 DEF InitStep

LEMMA PollInv ==
  ASSUME IInv, NEW ev, Poll(ev) PROVE IInv'
BY DEF IInv, Poll, TypeOK, MutexInv, InputInv, PointerInv,
       BufferInInv, CacheInv, ArmedInv, GoAheadInv, OutputInv, inVars,
       outVars, armVars, Pcs, InitPcs, MovePcs, ReadPcs, SendPcs

LEMMA MoveEventInv ==
  ASSUME IInv, NEW ev, MoveEvent(ev) PROVE IInv'
BY DEF IInv, MoveEvent, Goto, TypeOK, MutexInv, InputInv, PointerInv,
       BufferInInv, CacheInv, ArmedInv, GoAheadInv, OutputInv, inVars,
       outVars, armVars, Pcs, InitPcs, MovePcs, ReadPcs, SendPcs

LEMMA ReadInv ==
  ASSUME IInv, NEW ev, Read(ev) PROVE IInv'
BY DEF IInv, Read, TypeOK, MutexInv, InputInv, PointerInv,
       BufferInInv, CacheInv, ArmedInv, GoAheadInv, OutputInv, inVars,
       outVars, armVars, Pcs, InitPcs, MovePcs, ReadPcs, SendPcs

LEMMA SendInv ==
  ASSUME IInv, NEW ev, NEW d \in Payload, Send(d, ev) PROVE IInv'
BY DEF IInv, Send, TypeOK, MutexInv, InputInv, PointerInv,
       BufferInInv, CacheInv, ArmedInv, GoAheadInv, OutputInv, inVars,
       outVars, armVars, Pcs, InitPcs, MovePcs, ReadPcs, SendPcs

(* The steps of the main loop in _buffer_in_cache_data_move: the interrupt *)
(* has lost the mutex to it, the arming has not.                           *)
LEMMA MoveStepInv ==
  ASSUME IInv, NEW ev, MoveStep(ev) PROVE IInv'
<1> USE PayloadsDistinct
    DEF IInv, MoveStep, Goto, TypeOK, MutexInv, InputInv, PointerInv,
        BufferInInv, CacheInv, ArmedInv, GoAheadInv, OutputInv, inVars,
        outVars, armVars, Pcs, InitPcs, MovePcs, ReadPcs, SendPcs, Buffers,
        NULL, Reserved
<1>1. CASE MoveTrylock
  BY <1>1 DEF MoveTrylock
<1>2. CASE MoveCheckCache
  BY <1>2 DEF MoveCheckCache
<1>3. CASE MoveNothing
  <2>1. TypeOK'
    <3>1. line_in_busy' \in BOOLEAN
      BY <1>3 DEF MoveNothing
    <3> QED BY <1>3, <3>1 DEF MoveNothing
  <2>2. MutexInv'
    BY <1>3 DEF MoveNothing
  <2>3. PointerInv' /\ BufferInInv'
    BY <1>3 DEF MoveNothing
  <2>4. CacheInv'
    BY <1>3 DEF MoveNothing
  <2>5. ArmedInv' /\ GoAheadInv' /\ OutputInv'
    BY <1>3 DEF MoveNothing
  <2> QED BY <2>1, <2>2, <2>3, <2>4, <2>5
<1>4. CASE MoveCheckIn
  BY <1>4 DEF MoveCheckIn
<1>5. CASE MoveFailUnlock
  <2>1. TypeOK'
    <3>1. mutex_in' \in BOOLEAN
      BY <1>5 DEF MoveFailUnlock
    <3> QED BY <1>5, <3>1 DEF MoveFailUnlock
  <2>2. MutexInv'
    BY <1>5 DEF MoveFailUnlock
  <2>3. PointerInv' /\ BufferInInv'
    BY <1>5 DEF MoveFailUnlock
  <2>4. CacheInv'
    BY <1>5 DEF MoveFailUnlock
  <2>5. ArmedInv' /\ GoAheadInv' /\ OutputInv'
    BY <1>5 DEF MoveFailUnlock
  <2> QED BY <2>1, <2>2, <2>3, <2>4, <2>5
<1>6. CASE MoveSwapIn
  BY <1>6 DEF MoveSwapIn
<1>7. CASE MoveSwapCache
  BY <1>7 DEF MoveSwapCache
<1>8. CASE MoveAvailable
  BY <1>8 DEF MoveAvailable
<1>9. CASE MoveNotBusy
  <2>1. TypeOK'
    <3>1. line_in_busy' \in BOOLEAN
      BY <1>9 DEF MoveNotBusy
    <3> QED BY <1>9, <3>1 DEF MoveNotBusy
  <2>2. MutexInv'
    BY <1>9 DEF MoveNotBusy
  <2>3. PointerInv' /\ BufferInInv'
    BY <1>9 DEF MoveNotBusy
  <2>4. CacheInv'
    BY <1>9 DEF MoveNotBusy
  <2>5. ArmedInv' /\ GoAheadInv' /\ OutputInv'
    BY <1>9 DEF MoveNotBusy
  <2> QED BY <2>1, <2>2, <2>3, <2>4, <2>5
<1>10. CASE MoveUnlock
  <2>1. TypeOK'
    <3>1. mutex_in' \in BOOLEAN
      BY <1>10 DEF MoveUnlock
    <3> QED BY <1>10, <3>1 DEF MoveUnlock
  <2>2. MutexInv'
    BY <1>10 DEF MoveUnlock
  <2>3. PointerInv' /\ BufferInInv'
    BY <1>10 DEF MoveUnlock
  <2>4. CacheInv'
    BY <1>10 DEF MoveUnlock
  <2>5. ArmedInv' /\ GoAheadInv' /\ OutputInv'
    BY <1>10 DEF MoveUnlock
  <2> QED BY <2>1, <2>2, <2>3, <2>4, <2>5
<1> QED
  <2> HIDE DEF IInv
  <2> QED BY <1>1, <1>2, <1>3, <1>4, <1>5, <1>6, <1>7, <1>8, <1>9, <1>10

(* The steps of spils_data_read after it has seen data_in_available.       *)
LEMMA ReadStepInv ==
  ASSUME IInv, NEW ev, ReadStep(ev) PROVE IInv'
<1> USE PayloadsDistinct
    DEF IInv, ReadStep, Goto, TypeOK, MutexInv, InputInv, PointerInv,
        BufferInInv, CacheInv, ArmedInv, GoAheadInv, OutputInv, inVars,
        outVars, armVars, Pcs, InitPcs, MovePcs, ReadPcs, SendPcs, Buffers,
        InContents, Reserved
<1>1. CASE ReadTrylock
  BY <1>1 DEF ReadTrylock
<1>2. CASE ReadCopy
  BY <1>2 DEF ReadCopy
<1>3. CASE ReadRecycle
  BY <1>3 DEF ReadRecycle
<1>4. CASE ReadNotAvailable
  <2>1. TypeOK'
    <3>1. data_in_available' \in BOOLEAN
      BY <1>4 DEF ReadNotAvailable
    <3> QED BY <1>4, <3>1 DEF ReadNotAvailable
  <2>2. MutexInv'
    BY <1>4 DEF ReadNotAvailable
  <2>3. PointerInv' /\ BufferInInv'
    BY <1>4 DEF ReadNotAvailable
  <2>4. CacheInv'
    BY <1>4 DEF ReadNotAvailable
  <2>5. ArmedInv' /\ GoAheadInv' /\ OutputInv'
    BY <1>4 DEF ReadNotAvailable
  <2> QED BY <2>1, <2>2, <2>3, <2>4, <2>5
<1>5. CASE ReadUnlock
  <2>1. TypeOK'
    <3>1. mutex_in' \in BOOLEAN
      BY <1>5 DEF ReadUnlock
    <3> QED BY <1>5, <3>1 DEF ReadUnlock
  <2>2. MutexInv'
    BY <1>5 DEF ReadUnlock
  <2>3. PointerInv' /\ BufferInInv'
    BY <1>5 DEF ReadUnlock
  <2>4. CacheInv'
    BY <1>5 DEF ReadUnlock
  <2>5. ArmedInv' /\ GoAheadInv' /\ OutputInv'
    BY <1>5 DEF ReadUnlock
  <2> QED BY <2>1, <2>2, <2>3, <2>4, <2>5
<1> QED
  <2> HIDE DEF IInv
  <2> QED BY <1>1, <1>2, <1>3, <1>4, <1>5

(* The steps of spils_data_send after it has found the output free.        *)
LEMMA SendStepInv ==
  ASSUME IInv, NEW ev, SendStep(ev) PROVE IInv'
<1> USE PayloadsDistinct
    DEF IInv, SendStep, Goto, TypeOK, MutexInv, InputInv, PointerInv,
        BufferInInv, CacheInv, ArmedInv, GoAheadInv, OutputInv, inVars,
        armVars, Pcs, InitPcs, MovePcs, ReadPcs, SendPcs, Buffers, OutMessages,
        Reserved
<1>1. CASE SendTrylock
  BY <1>1 DEF SendTrylock
<1>2. CASE SendHeader
  BY <1>2 DEF SendHeader
<1>3. CASE SendPayload
  BY <1>3 DEF SendPayload
<1>4. CASE SendAvailable
  BY <1>4 DEF SendAvailable
<1>5. CASE SendUnlock
  <2>1. TypeOK'
    <3>1. mutex_out' \in BOOLEAN
      BY <1>5 DEF SendUnlock
    <3> QED BY <1>5, <3>1 DEF SendUnlock
  <2>2. MutexInv'
    BY <1>5 DEF SendUnlock
  <2>3. PointerInv' /\ BufferInInv'
    BY <1>5 DEF SendUnlock
  <2>4. CacheInv'
    BY <1>5 DEF SendUnlock
  <2>5. ArmedInv' /\ GoAheadInv' /\ OutputInv'
    BY <1>5 DEF SendUnlock
  <2> QED BY <2>1, <2>2, <2>3, <2>4, <2>5
<1> QED
  <2> HIDE DEF IInv
  <2> QED BY <1>1, <1>2, <1>3, <1>4, <1>5

LEMMA NextInv == IInv /\ [Next]_vars => IInv'
<1> SUFFICES ASSUME IInv, [Next]_vars PROVE IInv'
  OBVIOUS
<1>1. ASSUME NEW ev \in SUBSET Events, CallStep(ev) PROVE IInv'
  BY <1>1, InitStepInv, MoveStepInv, MoveEventInv, ReadStepInv, SendStepInv
     DEF CallStep
<1>2. CASE UNCHANGED vars
  BY <1>2 DEF vars, inVars, outVars, armVars, mainVars, IInv, TypeOK,
     MutexInv, InputInv, PointerInv, BufferInInv, CacheInv, ArmedInv,
     GoAheadInv, OutputInv
<1> QED BY <1>1, <1>2, TransferDoneInv, PollInv, ReadInv, SendInv DEF Next

(* IInv holds in every reachable state.                                    *)
THEOREM Invariance == Spec => []IInv
BY InitInv, NextInv, PTL DEF Spec

-----------------------------------------------------------------------------
(***************************************************************************)
(* What the inductive invariant means for the link.                        *)
(***************************************************************************)

(* Every variable of the link keeps its range, whatever the payloads are.  *)
THEOREM TypeCorrect == Spec => []TypeOK
<1>1. IInv => TypeOK
  BY DEF IInv
<1> QED BY <1>1, Invariance, PTL

(* No transfer armed by the interrupt writes over data that is still to be *)
(* read, wherever the interrupt hits the main loop's swap of the buffers.  *)
THEOREM InputDmaIsSafe == Spec => []InputDmaSafe
<1>1. IInv => InputDmaSafe
  BY PayloadsDistinct
     DEF IInv, InputDmaSafe, TypeOK, ArmedInv, InputInv, PointerInv
<1> QED BY <1>1, Invariance, PTL

(* The master never clocks out a message that is still being composed.     *)
THEOREM OutputDmaIsSafe == Spec => []OutputDmaSafe
<1>1. IInv => OutputDmaSafe
  BY DEF IInv, OutputDmaSafe, TypeOK, ArmedInv, OutputInv, OutMessages
<1> QED BY <1>1, Invariance, PTL

(* A go-ahead given to the master is honoured: the line is open and a      *)
(* whole buffer armed until the announced message comes.                   *)
THEOREM GoAheadIsHonoured == Spec => []GoAheadHonoured
<1>1. IInv => GoAheadHonoured
  BY DEF IInv, GoAheadHonoured, GoAheadInv, ArmedInv, InputClosed, TypeOK
<1> QED BY <1>1, Invariance, PTL

(* No payload the link has taken is out of reach of spils_data_read and    *)
(* spils_poll once the main loop has left its critical section.            *)
THEOREM NothingIsStranded == Spec => []NothingStranded
<1>1. IInv => NothingStranded
  BY PayloadsDistinct
     DEF IInv, NothingStranded, TypeOK, MutexInv, InputInv, PointerInv,
         BufferInInv, CacheInv, MovePcs, ReadPcs, Reserved, InContents
<1> QED BY <1>1, Invariance, PTL

(* A payload left for the master is there exactly while it is announced.   *)
THEOREM OutputIsAnnounced == Spec => []OutputAnnounced
<1>1. IInv => OutputAnnounced
  BY PayloadsDistinct
     DEF IInv, OutputAnnounced, TypeOK, MutexInv, OutputInv, SendPcs,
         Reserved
<1> QED BY <1>1, Invariance, PTL
=============================================================================
