------------------------------ MODULE SpiLink ------------------------------
(***************************************************************************)
(* The SPI link slave, src/lib/SPISlave/src/link/spi_link_slave.c.         *)
(*                                                                         *)
(* Two actors share the structure spils_t on one core:                     *)
(*  - the chip-select interrupt, which runs transfer_done_handler to its   *)
(*    end, so that each of its cases is one action;                        *)
(*  - the main loop, inside spils_poll, spils_data_read or                 *)
(*    spils_data_send.  The interrupt may come between any two of its      *)
(*    accesses to shared memory, so each access is an action and pc says   *)
(*    which one is next.                                                   *)
(*                                                                         *)
(* Buffers are kept as the code keeps them: two of each direction, reached *)
(* through pointers that are swapped.  A buffer's content is abstracted to *)
(* what loadsize, read_pos and write_pos tell apart:                       *)
(*    "EMPTY"     recycled: loadsize 0, positions 0                        *)
(*    "CONSUMED"  loadsize 0 but positions not reset                       *)
(*    "PARTIAL"   a DATA header whose payload is not there yet             *)
(*    "DUMMY"     a DATA message of length 0                               *)
(*    a result    a composed result message                                *)
(*    a payload   the payload of a DATA message                            *)
(*                                                                         *)
(* The connection machine and the flag connection_detected that feeds it   *)
(* share nothing else with the link and are in module SpiConnection.  The  *)
(* INT pin is never enabled (_gpio_init), so it is left out.               *)
(***************************************************************************)
EXTENDS Naturals, Sequences

CONSTANT Payload        \* the payloads a DATA message can carry

Reserved == {"EMPTY", "CONSUMED", "PARTIAL", "DUMMY",
             "OK", "ERR", "READY", "OK_BUSY", "BUSY", "DATA_READY",
             "BROKEN", "OTHER", "SEND_START", "SEND_START_BAD",
             "RECV_START", "RECV_START_BAD", "DATA_SHORT", "DATA_VOID",
             "NULL"}

ASSUME PayloadAssumption == Payload \cap Reserved = {}

Buffers == {"A", "B"}
NULL == "NULL"

(* spil_mess_type_t, the results a slave can answer.                       *)
Results == {"OK", "ERR", "READY", "OK_BUSY", "BUSY", "DATA_READY"}

(* The states a transfer can be armed in.  _transfer_start leaves the      *)
(* matching *_START state before it returns, except the very first one,    *)
(* which is interruptible.                                                 *)
States == {"LISTENING_START", "LISTENING", "DATA_RECEIVING", "DATA_SENDING"}

(* Events passed to the event handler of the layer above.                  *)
Events == {"DATA_IN_READY", "DATA_OUT_SENT"}

(* What a transfer of the master can bring, as the handlers tell it apart. *)
(* A member of Payload stands for a complete DATA message with it, and     *)
(* "OTHER" for any message the switch sends to its default case (a master  *)
(* that only clocks the reply out).  A DATA header that says less than its *)
(* own length is not among them: what it does is in module PacketBytes.    *)
Messages == {"BROKEN", "OTHER", "SEND_START", "SEND_START_BAD",
             "RECV_START", "RECV_START_BAD", "DATA_SHORT", "DATA_VOID"}
              \cup Payload

VARIABLES
  state,                  \* p_spils->state
  inBuf, outBuf,          \* content of the two buffers of each direction
  p_buffer_in, p_buffer_in_cache,
  p_buffer_out, p_buffer_out_cache,
  data_in_available, data_out_available,
  line_in_busy, line_in_is_saturated,
  mutex_in, mutex_out,    \* TRUE while the main loop holds it
  rx, tx,                 \* the buffers the armed DMA channels point at
  pc,                     \* the next access of the main loop
  temp_buffer,            \* _temp_buffer of a swap in progress
  sending,                \* the payload spils_data_send was called with
  p_data, result          \* what the last API call has copied out, returned

inVars  == <<inBuf, p_buffer_in, p_buffer_in_cache,
             data_in_available, line_in_busy>>
outVars == <<outBuf, p_buffer_out, p_buffer_out_cache, data_out_available>>
armVars == <<state, line_in_is_saturated, rx, tx>>
mainVars == <<mutex_in, mutex_out, pc, temp_buffer, sending, p_data, result>>
vars == <<inVars, outVars, armVars, mainVars>>

\* Fault: load judged by the positions, not by loadsize.
Loaded_ByPosition(content) == content # "EMPTY"

(* buffer_get_loadsize( ) != 0.                                            *)
Loaded(content) == content \notin {"EMPTY", "CONSUMED"}

(* spils_init as far as its _listening_start has armed the first transfer: *)
(* the interrupt can already come, buffers_set_done_handler is still due.  *)
Init ==
  /\ state = "LISTENING_START"
  /\ inBuf = [b \in Buffers |-> "EMPTY"]
  /\ outBuf = [b \in Buffers |-> IF b = "A" THEN "READY" ELSE "EMPTY"]
  /\ p_buffer_in_cache = "A" /\ p_buffer_in = "B"
  /\ p_buffer_out_cache = "A" /\ p_buffer_out = "B"
  /\ data_in_available = FALSE /\ data_out_available = FALSE
  /\ line_in_busy = FALSE /\ line_in_is_saturated = FALSE
  /\ mutex_in = FALSE /\ mutex_out = FALSE
  /\ rx = "A" /\ tx = "A"
  /\ pc = "init" /\ temp_buffer = NULL /\ sending = NULL
  /\ p_data = NULL /\ result = "OK"

-----------------------------------------------------------------------------
(***************************************************************************)
(* The interrupt.                                                          *)
(***************************************************************************)

\* Fault: the input is armed whatever the cache holds.
DataInPrepare_Unchecked ==
  line_in_is_saturated' = FALSE /\ rx' = p_buffer_in_cache'

(* _transfer_data_in_prepare: a loaded input cache disables the input.     *)
DataInPrepare ==
  /\ line_in_is_saturated' = Loaded(inBuf'[p_buffer_in_cache'])
  /\ rx' = IF Loaded(inBuf'[p_buffer_in_cache']) THEN NULL
                                                  ELSE p_buffer_in_cache'

(* _transfer_data_out_prepare: there is always a message in the cache.     *)
DataOutPrepare == tx' = p_buffer_out_cache'

(* _transfer_start and the buffers_set_done_handler the HAL calls from it. *)
Arm(newState) ==
  /\ DataInPrepare
  /\ DataOutPrepare
  /\ state' = newState

(* _mess_compose_result into the output cache.  The message that was there *)
(* has already been recycled by _transfer_data_out_process.                *)
Reply(mess) ==
  /\ outBuf' = [outBuf EXCEPT ![p_buffer_out_cache] = mess]
  /\ UNCHANGED <<p_buffer_out, p_buffer_out_cache, data_out_available>>

Listen(mess) == Reply(mess) /\ Arm("LISTENING")

\* Fault: the positions of the input cache are not reset.
RecycleInCache_Forgotten == UNCHANGED inBuf

RecycleInCache == inBuf' = [inBuf EXCEPT ![p_buffer_in_cache] = "EMPTY"]

KeepInPointers == UNCHANGED <<p_buffer_in, p_buffer_in_cache>>
KeepInFlags    == UNCHANGED <<data_in_available, line_in_busy>>

(* _mutex_in_trylock and _mutex_out_trylock as the interrupt sees them: it *)
(* runs to its end, so only the main loop can hold a mutex against it.     *)

\* Fault: the interrupt does not ask.
MutexInTrylock_Ignored == TRUE

MutexInTrylock == ~mutex_in

\* Fault: the interrupt does not ask.
MutexOutTrylock_Ignored == TRUE

MutexOutTrylock == ~mutex_out

\* Fault: buffer_in is taken to be free whenever the mutex is.
MoveBlocked_ByMutexOnly == ~MutexInTrylock

(* _buffer_in_cache_data_move returns RESULT_BUSY to the interrupt.        *)
MoveBlocked == ~MutexInTrylock \/ Loaded(inBuf[p_buffer_in])

(* _transfer_data_out_process: the armed output counts as clocked out.     *)
SentEvent == IF state = "DATA_SENDING" THEN {"DATA_OUT_SENT"} ELSE {}

InputClosed == line_in_busy \/ line_in_is_saturated

(* The input line is saturated: the message is lost and answered BUSY.     *)
TransferSaturated(ev) ==
  /\ InputClosed
  /\ UNCHANGED <<inVars, mainVars>>
  /\ Listen("BUSY")
  /\ ev = SentEvent

(* Fewer bytes than a header: ERR, the cache is reused as it is.           *)
TransferBroken(m, ev) ==
  /\ ~InputClosed
  /\ m = "BROKEN"
  /\ UNCHANGED <<inVars, mainVars>>
  /\ Listen("ERR")
  /\ ev = SentEvent

(* _transfer_receive_data_start.                                           *)
ReceiveDataStart(m, ev) ==
  /\ ~InputClosed
  /\ m \in {"SEND_START", "SEND_START_BAD"}
  /\ RecycleInCache /\ KeepInPointers /\ KeepInFlags
  /\ IF m = "SEND_START" THEN Reply("OK") /\ Arm("DATA_RECEIVING")
                         ELSE Listen("ERR")
  /\ ev = SentEvent
  /\ UNCHANGED mainVars

\* Fault: the flag survives the move.
BufferOutCacheDataMove_FlagKept ==
  /\ IF Loaded(outBuf[p_buffer_out])
       THEN /\ outBuf' = [outBuf EXCEPT ![p_buffer_out_cache] = "EMPTY"]
            /\ p_buffer_out' = p_buffer_out_cache
            /\ p_buffer_out_cache' = p_buffer_out
       ELSE /\ outBuf' = [outBuf EXCEPT ![p_buffer_out_cache] = "DUMMY"]
            /\ UNCHANGED <<p_buffer_out, p_buffer_out_cache>>
  /\ UNCHANGED data_out_available

(* _buffer_out_cache_data_move with the mutex free, and the dummy that is  *)
(* composed when the output cache is still empty after it.                 *)
BufferOutCacheDataMove ==
  /\ IF Loaded(outBuf[p_buffer_out])
       THEN /\ outBuf' = [outBuf EXCEPT ![p_buffer_out_cache] = "EMPTY"]
            /\ p_buffer_out' = p_buffer_out_cache
            /\ p_buffer_out_cache' = p_buffer_out
       ELSE /\ outBuf' = [outBuf EXCEPT ![p_buffer_out_cache] = "DUMMY"]
            /\ UNCHANGED <<p_buffer_out, p_buffer_out_cache>>
  /\ data_out_available' = FALSE

(* _transfer_send_data_start.  While the main loop holds the mutex the     *)
(* master is told to ask again.                                            *)
SendDataStart(m, ev) ==
  /\ ~InputClosed
  /\ m \in {"RECV_START", "RECV_START_BAD"}
  /\ RecycleInCache /\ KeepInPointers /\ KeepInFlags
  /\ \/ m = "RECV_START_BAD" /\ Listen("ERR")
     \/ m = "RECV_START" /\ ~MutexOutTrylock /\ Listen("BUSY")
     \/ m = "RECV_START" /\ MutexOutTrylock /\ BufferOutCacheDataMove
        /\ Arm("DATA_SENDING")
  /\ ev = SentEvent
  /\ UNCHANGED mainVars

(* _transfer_receive_data, refused: DATA that nobody announced, or DATA    *)
(* that is not complete.                                                   *)
ReceiveDataRefused(m, ev) ==
  /\ ~InputClosed
  /\ m \in Payload \cup {"DATA_SHORT", "DATA_VOID"}
  /\ state # "DATA_RECEIVING" \/ m = "DATA_SHORT"
  /\ RecycleInCache /\ KeepInPointers /\ KeepInFlags
  /\ Listen("ERR")
  /\ ev = SentEvent
  /\ UNCHANGED mainVars

(* _transfer_receive_data, taken, with _buffer_in_cache_data_move out of   *)
(* the way: the main loop holds the mutex or has not read buffer_in yet.   *)
(* The payload is kept in the cache (of a DATA message without payload     *)
(* only the moved positions are), which blocks the line.                   *)
ReceiveDataBusy(m, ev) ==
  /\ ~InputClosed
  /\ state = "DATA_RECEIVING"
  /\ \/ m \in Payload /\ MoveBlocked
     \/ m = "DATA_VOID" /\ ~MutexInTrylock
  /\ inBuf' = [inBuf EXCEPT ![p_buffer_in_cache] =
                  IF m = "DATA_VOID" THEN "CONSUMED" ELSE m]
  /\ line_in_busy' = TRUE
  /\ UNCHANGED data_in_available
  /\ KeepInPointers
  /\ Listen("OK_BUSY")
  /\ ev = SentEvent
  /\ UNCHANGED mainVars

(* _transfer_receive_data, taken and moved at once: the buffers swap, the  *)
(* new cache is recycled and the layer above is told.                      *)
ReceiveDataMoved(m, ev) ==
  /\ ~InputClosed
  /\ state = "DATA_RECEIVING"
  /\ m \in Payload
  /\ ~MoveBlocked
  /\ inBuf' = [inBuf EXCEPT ![p_buffer_in_cache] = m,
                            ![p_buffer_in] = "EMPTY"]
  /\ p_buffer_in' = p_buffer_in_cache
  /\ p_buffer_in_cache' = p_buffer_in
  /\ data_in_available' = TRUE
  /\ line_in_busy' = FALSE
  /\ Listen("OK")
  /\ ev = SentEvent \cup {"DATA_IN_READY"}
  /\ UNCHANGED mainVars

(* The same for a DATA message without payload: there is nothing to move   *)
(* (RESULT_ERR of _buffer_in_cache_data_move), yet it is acknowledged and  *)
(* announced.                                                              *)
ReceiveDataVoid(m, ev) ==
  /\ ~InputClosed
  /\ state = "DATA_RECEIVING"
  /\ m = "DATA_VOID"
  /\ MutexInTrylock
  /\ RecycleInCache /\ KeepInPointers
  /\ line_in_busy' = FALSE
  /\ UNCHANGED data_in_available
  /\ Listen("OK")
  /\ ev = SentEvent \cup {"DATA_IN_READY"}
  /\ UNCHANGED mainVars

(* The default case of _transfer_data_in_process: a transfer that only     *)
(* clocks the reply out.  A go-ahead is repeated, else the reply says      *)
(* whether there is data to fetch.                                         *)
TransferOther(m, ev) ==
  /\ ~InputClosed
  /\ m = "OTHER"
  /\ RecycleInCache /\ KeepInPointers /\ KeepInFlags
  /\ IF state = "DATA_RECEIVING"
       THEN Reply("OK") /\ Arm("DATA_RECEIVING")
       ELSE Listen(IF data_out_available THEN "DATA_READY" ELSE "READY")
  /\ ev = SentEvent
  /\ UNCHANGED mainVars

(* _spi_slave_transfer_done_handler: the chip select has risen after a     *)
(* valid transfer.  Invalid ones are armed again by the HAL unseen.        *)
TransferDone(m, ev) ==
  \/ TransferSaturated(ev)
  \/ TransferBroken(m, ev)
  \/ ReceiveDataStart(m, ev)
  \/ SendDataStart(m, ev)
  \/ ReceiveDataRefused(m, ev)
  \/ ReceiveDataBusy(m, ev)
  \/ ReceiveDataMoved(m, ev)
  \/ ReceiveDataVoid(m, ev)
  \/ TransferOther(m, ev)

-----------------------------------------------------------------------------
(***************************************************************************)
(* The main loop.  Nothing it does touches the armed transfer.             *)
(***************************************************************************)

Goto(from, to) == pc = from /\ pc' = to

(* The rest of spils_init: _spi_slave_buffers_set_done_handler.  It reads  *)
(* the state; if a transfer has come first that is no *_START state.       *)
InitLook ==
  /\ pc = "init"
  /\ pc' = IF state = "LISTENING_START" THEN "init_store" ELSE "idle"
  /\ UNCHANGED state

(* _set_state: whatever the interrupt has made of the state since then is  *)
(* overwritten, a go-ahead for a DATA message among it.                    *)
InitStore ==
  /\ Goto("init_store", "idle")
  /\ state' = "LISTENING"

InitStep(ev) ==
  /\ InitLook \/ InitStore
  /\ ev = {}
  /\ UNCHANGED <<inVars, outVars, line_in_is_saturated, rx, tx,
                 mutex_in, mutex_out, temp_buffer, sending, p_data, result>>

(* _line_in_busy_process, as far as the call of _buffer_in_cache_data_move. *)
Poll(ev) ==
  /\ pc = "idle"
  /\ pc' = IF line_in_busy THEN "move_trylock" ELSE "idle"
  /\ p_data' = NULL
  /\ result' = "OK"
  /\ ev = {}
  /\ UNCHANGED <<inVars, outVars, armVars, mutex_in, mutex_out, temp_buffer,
                 sending>>

(* _buffer_in_cache_data_move, called by the main loop.                    *)
MoveTrylock ==
  /\ pc = "move_trylock"
  /\ pc' = IF mutex_in THEN "idle" ELSE "move_check_cache"
  /\ mutex_in' = TRUE
  /\ UNCHANGED <<inVars, temp_buffer>>

MoveCheckCache ==
  /\ pc = "move_check_cache"
  /\ pc' = IF Loaded(inBuf[p_buffer_in_cache]) THEN "move_check_in"
                                               ELSE "move_nothing"
  /\ UNCHANGED <<inVars, mutex_in, temp_buffer>>

\* Fault: the line is left busy when there is nothing to move.
MoveNothing_StillBusy ==
  /\ Goto("move_nothing", "move_fail_unlock")
  /\ UNCHANGED <<inVars, mutex_in, temp_buffer>>

MoveNothing ==
  /\ Goto("move_nothing", "move_fail_unlock")
  /\ line_in_busy' = FALSE
  /\ UNCHANGED <<inBuf, p_buffer_in, p_buffer_in_cache, data_in_available,
                 mutex_in, temp_buffer>>

MoveCheckIn ==
  /\ pc = "move_check_in"
  /\ pc' = IF Loaded(inBuf[p_buffer_in]) THEN "move_fail_unlock"
                                         ELSE "move_swap_in"
  /\ UNCHANGED <<inVars, mutex_in, temp_buffer>>

MoveFailUnlock ==
  /\ Goto("move_fail_unlock", "idle")
  /\ mutex_in' = FALSE
  /\ UNCHANGED <<inVars, temp_buffer>>

(* _buffer_in_cache_swap, first assignment: for a moment both pointers     *)
(* name the same buffer.                                                   *)
MoveSwapIn ==
  /\ Goto("move_swap_in", "move_swap_cache")
  /\ temp_buffer' = p_buffer_in
  /\ p_buffer_in' = p_buffer_in_cache
  /\ UNCHANGED <<inBuf, p_buffer_in_cache, data_in_available, line_in_busy,
                 mutex_in>>

MoveSwapCache ==
  /\ Goto("move_swap_cache", "move_available")
  /\ p_buffer_in_cache' = temp_buffer
  /\ temp_buffer' = NULL
  /\ UNCHANGED <<inBuf, p_buffer_in, data_in_available, line_in_busy,
                 mutex_in>>

MoveAvailable ==
  /\ Goto("move_available", "move_not_busy")
  /\ data_in_available' = TRUE
  /\ UNCHANGED <<inBuf, p_buffer_in, p_buffer_in_cache, line_in_busy,
                 mutex_in, temp_buffer>>

MoveNotBusy ==
  /\ Goto("move_not_busy", "move_unlock")
  /\ line_in_busy' = FALSE
  /\ UNCHANGED <<inBuf, p_buffer_in, p_buffer_in_cache, data_in_available,
                 mutex_in, temp_buffer>>

MoveUnlock ==
  /\ Goto("move_unlock", "move_event")
  /\ mutex_in' = FALSE
  /\ UNCHANGED <<inVars, temp_buffer>>

MoveStep(ev) ==
  /\ \/ MoveTrylock \/ MoveCheckCache \/ MoveNothing \/ MoveCheckIn
     \/ MoveFailUnlock \/ MoveSwapIn \/ MoveSwapCache \/ MoveAvailable
     \/ MoveNotBusy \/ MoveUnlock
  /\ ev = {}
  /\ UNCHANGED <<outVars, armVars, mutex_out, sending, p_data, result>>

(* The end of _line_in_busy_process after a successful move.               *)
MoveEvent(ev) ==
  /\ Goto("move_event", "idle")
  /\ ev = {"DATA_IN_READY"}
  /\ UNCHANGED <<inVars, outVars, armVars, mutex_in, mutex_out, temp_buffer,
                 sending, p_data, result>>

(* spils_data_read: with nothing available it returns at once.             *)
Read(ev) ==
  /\ pc = "idle"
  /\ pc' = IF data_in_available THEN "read_trylock" ELSE "idle"
  /\ p_data' = NULL
  /\ result' = "OK"
  /\ ev = {}
  /\ UNCHANGED <<inVars, outVars, armVars, mutex_in, mutex_out, temp_buffer,
                 sending>>

ReadTrylock ==
  /\ pc = "read_trylock"
  /\ pc' = IF mutex_in THEN "idle" ELSE "read_copy"
  /\ result' = IF mutex_in THEN "BUSY" ELSE "OK"
  /\ mutex_in' = TRUE
  /\ UNCHANGED <<inVars, p_data>>

(* buffer_get_and_discard: from here on loadsize is 0, the positions are   *)
(* reset by the recycling.                                                 *)
ReadCopy ==
  /\ Goto("read_copy", "read_recycle")
  /\ p_data' = inBuf[p_buffer_in]
  /\ inBuf' = [inBuf EXCEPT ![p_buffer_in] = "CONSUMED"]
  /\ UNCHANGED <<p_buffer_in, p_buffer_in_cache, data_in_available,
                 line_in_busy, mutex_in, result>>

ReadRecycle ==
  /\ Goto("read_recycle", "read_not_available")
  /\ inBuf' = [inBuf EXCEPT ![p_buffer_in] = "EMPTY"]
  /\ UNCHANGED <<p_buffer_in, p_buffer_in_cache, data_in_available,
                 line_in_busy, mutex_in, p_data, result>>

ReadNotAvailable ==
  /\ Goto("read_not_available", "read_unlock")
  /\ data_in_available' = FALSE
  /\ UNCHANGED <<inBuf, p_buffer_in, p_buffer_in_cache, line_in_busy,
                 mutex_in, p_data, result>>

ReadUnlock ==
  /\ Goto("read_unlock", "idle")
  /\ mutex_in' = FALSE
  /\ UNCHANGED <<inVars, p_data, result>>

ReadStep(ev) ==
  /\ \/ ReadTrylock \/ ReadCopy \/ ReadRecycle \/ ReadNotAvailable
     \/ ReadUnlock
  /\ ev = {}
  /\ UNCHANGED <<outVars, armVars, mutex_out, temp_buffer, sending>>

(* spils_data_send(d): one message at a time.                              *)
Send(d, ev) ==
  /\ pc = "idle"
  /\ IF data_out_available
       THEN result' = "BUSY" /\ UNCHANGED <<pc, sending>>
       ELSE result' = "OK" /\ pc' = "send_trylock" /\ sending' = d
  /\ p_data' = NULL
  /\ ev = {}
  /\ UNCHANGED <<inVars, outVars, armVars, mutex_in, mutex_out,
                 temp_buffer>>

SendTrylock ==
  /\ pc = "send_trylock"
  /\ pc' = IF mutex_out THEN "idle" ELSE "send_header"
  /\ result' = IF mutex_out THEN "BUSY" ELSE "OK"
  /\ mutex_out' = TRUE
  /\ UNCHANGED <<outBuf, data_out_available, sending>>

(* _mess_compose_data: the recycling and the header, then the payload.     *)
SendHeader ==
  /\ Goto("send_header", "send_payload")
  /\ outBuf' = [outBuf EXCEPT ![p_buffer_out] = "PARTIAL"]
  /\ UNCHANGED <<data_out_available, mutex_out, sending, result>>

SendPayload ==
  /\ Goto("send_payload", "send_available")
  /\ outBuf' = [outBuf EXCEPT ![p_buffer_out] = sending]
  /\ sending' = NULL
  /\ UNCHANGED <<data_out_available, mutex_out, result>>

SendAvailable ==
  /\ Goto("send_available", "send_unlock")
  /\ data_out_available' = TRUE
  /\ UNCHANGED <<outBuf, mutex_out, sending, result>>

SendUnlock ==
  /\ Goto("send_unlock", "idle")
  /\ mutex_out' = FALSE
  /\ UNCHANGED <<outBuf, data_out_available, sending, result>>

SendStep(ev) ==
  /\ SendTrylock \/ SendHeader \/ SendPayload \/ SendAvailable \/ SendUnlock
  /\ ev = {}
  /\ UNCHANGED <<inVars, p_buffer_out, p_buffer_out_cache, armVars, mutex_in,
                 temp_buffer, p_data>>

(* The steps of a call in progress.                                        *)
CallStep(ev) == InitStep(ev) \/ MoveStep(ev) \/ MoveEvent(ev)
                  \/ ReadStep(ev) \/ SendStep(ev)

-----------------------------------------------------------------------------
(* The link alone: a master that sends anything in any order, and a layer  *)
(* above that calls the API in any order.                                  *)

Next == \E ev \in SUBSET Events :
  \/ \E m \in Messages : TransferDone(m, ev)
  \/ CallStep(ev)
  \/ Poll(ev)
  \/ Read(ev)
  \/ \E d \in Payload : Send(d, ev)

Spec == Init /\ [][Next]_vars

(* Fairness: the one thread of the firmware goes on with a call it is in   *)
(* however often it is interrupted, and the loop polls and reads again and *)
(* again.  No progress is assumed of the master.                           *)
Fairness ==
  /\ WF_vars(\E ev \in SUBSET Events : CallStep(ev))
  /\ SF_vars(\E ev \in SUBSET Events : Poll(ev))
  /\ SF_vars(\E ev \in SUBSET Events : Read(ev))

FairSpec == Spec /\ Fairness

-----------------------------------------------------------------------------
(***************************************************************************)
(* Properties.                                                             *)
(***************************************************************************)

MovePcs == {"move_check_cache", "move_nothing", "move_check_in",
            "move_fail_unlock", "move_swap_in", "move_swap_cache",
            "move_available", "move_not_busy", "move_unlock"}
ReadPcs == {"read_copy", "read_recycle", "read_not_available", "read_unlock"}
SendPcs == {"send_header", "send_payload", "send_available", "send_unlock"}
InitPcs == {"init", "init_store"}
Pcs == {"idle", "move_trylock", "move_event", "read_trylock", "send_trylock"}
         \cup InitPcs \cup MovePcs \cup ReadPcs \cup SendPcs

InContents  == {"EMPTY", "CONSUMED"} \cup Payload
OutMessages == Results \cup {"DUMMY"} \cup Payload

TypeOK ==
  /\ state \in States
  /\ inBuf \in [Buffers -> InContents]
  /\ outBuf \in [Buffers -> OutMessages \cup {"EMPTY", "PARTIAL"}]
  /\ p_buffer_in \in Buffers /\ p_buffer_in_cache \in Buffers
  /\ p_buffer_out \in Buffers /\ p_buffer_out_cache \in Buffers
  /\ data_in_available \in BOOLEAN /\ data_out_available \in BOOLEAN
  /\ line_in_busy \in BOOLEAN /\ line_in_is_saturated \in BOOLEAN
  /\ mutex_in \in BOOLEAN /\ mutex_out \in BOOLEAN
  /\ rx \in Buffers \cup {NULL} /\ tx \in Buffers
  /\ pc \in Pcs
  /\ temp_buffer \in Buffers \cup {NULL}
  /\ sending \in Payload \cup {NULL}
  /\ p_data \in Payload \cup {NULL}
  /\ result \in {"OK", "BUSY"}

(* The armed input DMA never writes into a buffer that holds unread data,  *)
(* nor into the one spils_data_read copies from - also in the middle of    *)
(* the main loop's swap of the two pointers, when a transfer is armed by   *)
(* an interrupt that takes no mutex to look at the cache.                  *)
InputDmaSafe ==
  rx # NULL => /\ rx = p_buffer_in_cache
               /\ rx # p_buffer_in
               /\ ~Loaded(inBuf[rx])

(* The armed output DMA reads a complete message, and from a buffer        *)
(* spils_data_send is not composing in.                                    *)
OutputDmaSafe == tx # p_buffer_out /\ outBuf[tx] \in OutMessages

(* Once MASTER_DATA_SEND_START has been answered OK, nothing the main loop *)
(* does meanwhile closes the line again: the DMA has a whole recycled      *)
(* buffer, so that the announced DATA message fits and is never answered   *)
(* BUSY.  (Only spils_init may forget that there was a go-ahead, see       *)
(* InitStore and Start of LinkChannel.)                                    *)
GoAheadHonoured ==
  state = "DATA_RECEIVING" => /\ ~InputClosed
                              /\ rx # NULL /\ inBuf[rx] = "EMPTY"

(* Outside the main loop's critical section no payload is out of reach:    *)
(* what is in buffer_in is announced by data_in_available, and what waits  *)
(* in the cache by line_in_busy, for which spils_poll looks.               *)
NothingStranded ==
  ~mutex_in => /\ data_in_available <=> Loaded(inBuf[p_buffer_in])
               /\ Loaded(inBuf[p_buffer_in_cache]) => line_in_busy

(* The same for the payload spils_data_send has left for the master: while *)
(* data_out_available is set it is there, and it is never overwritten by   *)
(* another one.                                                            *)
OutputAnnounced ==
  ~mutex_out => (data_out_available <=> outBuf[p_buffer_out] \in Payload)

(* A payload that had to stay in the cache is moved on once the layer      *)
(* above polls and reads, and the line opens again.                        *)
BusyLineIsWorkedOff == line_in_busy ~> ~line_in_busy

(* The link implements two FIFO channels: nothing lost, duplicated or      *)
(* reordered, and the replies tell the master the truth about them.        *)
ToHost ==
  LET content(b) == IF Loaded(inBuf[b]) THEN <<inBuf[b]>> ELSE <<>>
  IN  IF p_buffer_in = p_buffer_in_cache       \* in the middle of a swap
        THEN content(p_buffer_in)
        ELSE content(p_buffer_in) \o content(p_buffer_in_cache)

ToMaster ==
  (IF outBuf[p_buffer_out_cache] \in Payload
     THEN <<outBuf[p_buffer_out_cache]>> ELSE <<>>)
  \o (IF data_out_available THEN <<outBuf[p_buffer_out]>> ELSE <<>>)

Phase == CASE state = "DATA_RECEIVING" -> "receiving"
           [] state = "DATA_SENDING"   -> "sending"
           [] OTHER                    -> "listening"

Channel == INSTANCE LinkChannel
             WITH toHost <- ToHost, toMaster <- ToMaster,
                  phase <- Phase, reply <- outBuf[tx],
                  started <- pc \notin InitPcs

ImplementsChannel == Channel!Spec

=============================================================================
