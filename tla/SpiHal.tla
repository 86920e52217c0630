------------------------------- MODULE SpiHal -------------------------------
(***************************************************************************)
(* The SPI slave of the RP2040 HAL,                                        *)
(* src/lib/RP_platform/hal/mcu/rp20/hal_ll_rp20xx_spi.c, below the link.   *)
(*                                                                         *)
(* Three actors:                                                           *)
(*  - the master, which moves the chip select and clocks bytes whenever it *)
(*    likes; the hardware latches a rising edge;                           *)
(*  - the chip-select interrupt, which ends the transfer and arms the next *)
(*    one, while the master goes on;                                       *)
(*  - the main loop, which arms the first transfer in spils_init with the  *)
(*    interrupt already enabled: it can be interrupted at any step, and    *)
(*    the interrupt then arms a transfer in the middle of its arming one.  *)
(* Both processor contexts run _slave_transfer, so at says for each which  *)
(* step it is at.                                                          *)
(*                                                                         *)
(* A transfer is a number of bytes; the buffer has room for MaxCount, the  *)
(* rest is not received.  What the bytes say and which buffers they go to  *)
(* is the business of module SpiLink.                                      *)
(*                                                                         *)
(* The code never counts bytes: it remembers the size it configured the    *)
(* receiving channel for and subtracts what the channel has left.  The     *)
(* channel takes a new size only when it is triggered, and a channel that  *)
(* is moving bytes ignores the trigger (RP2040 datasheet, DMA).            *)
(***************************************************************************)
EXTENDS Integers

CONSTANTS
  MaxCount,             \* bytes the link's buffer has room for
  Prompt                \* nothing delays the interrupt: it is entered before
                        \* the master has clocked a byte

ASSUME CountAssumption == MaxCount \in Nat \ {0}
ASSUME PromptAssumption == Prompt \in BOOLEAN

VARIABLES
  cs_high, edge,        \* the chip select, and its latched rising edge
  spi,                  \* "reset", "ready" (configured), "on" (enabled),
                        \* "deaf" (enabled but not configured)
  dma,                  \* the channels have been triggered and not stopped
  size,                 \* transfer_buffer_size of the receiving channel
  left, reload,         \* its transfer count, and the one it starts with
  got,                  \* bytes moved to where it was last pointed at
  busy, resend_request, dummy_in_used,
  input,                \* data_in_len # 0 in the current configuration
  at,                   \* the next step of each context
  early, inTime, clocked, missed, reported
                        \* of the master's latest selection: it began before
                        \* spils_init and the transfers begun in it were
                        \* done; when the slave was ready for
                        \* it; it has clocked a byte; one the slave did not
                        \* get; transfer_done was called in it or after it

line == <<cs_high, edge>>
channel == <<dma, size, left, reload, got>>
flags == <<busy, resend_request, dummy_in_used>>
ghosts == <<early, inTime, clocked, missed, reported>>
vars == <<line, spi, channel, flags, input, at, ghosts>>

Contexts == {"main", "irq"}

(* The end of hal_ll_mcu_spi_init: the interrupt is enabled, spils_init is *)
(* about to start the first transfer.  The master may already be selecting *)
(* the slave.                                                              *)
Init ==
  /\ cs_high \in BOOLEAN /\ edge = FALSE
  /\ spi = "reset" /\ dma = FALSE
  /\ size = 0 /\ left = 0 /\ reload = 0 /\ got = 0
  /\ busy = FALSE /\ resend_request = FALSE /\ dummy_in_used = FALSE
  /\ input = FALSE
  /\ at = [main |-> "start", irq |-> "none"]
  /\ early = TRUE /\ inTime = FALSE
  /\ clocked = FALSE /\ missed = FALSE /\ reported = FALSE

-----------------------------------------------------------------------------
(***************************************************************************)
(* The master.                                                             *)
(***************************************************************************)

Listening == spi = "on" /\ dma

SlaveIsDone == at = [main |-> "done", irq |-> "none"] /\ ~edge

CsFall ==
  /\ cs_high
  /\ cs_high' = FALSE
  /\ early' = (at.main # "done" \/ (early /\ (edge \/ at.irq = "end")))
  /\ inTime' = (SlaveIsDone /\ Listening /\ ~resend_request)
  /\ clocked' = FALSE /\ missed' = FALSE /\ reported' = FALSE
  /\ UNCHANGED <<edge, spi, channel, flags, input, at>>

(* An edge is latched and no handler runs yet: the main loop is stopped,   *)
(* unless it has the interrupts disabled.                                  *)
IrqDue == edge /\ at.irq = "none"

(* A byte, moved into the buffer as long as it has room.  A byte takes two *)
(* microseconds (SPI_SPEED in src/src/common.h), longer than the few       *)
(* instructions between the look at the chip select and the enabling, and  *)
(* than entering the handler when no other interrupt is being served.      *)
Byte ==
  /\ ~cs_high
  /\ "set" \notin {at[c] : c \in Contexts}
  /\ Prompt => ~IrqDue
  /\ clocked' = TRUE
  /\ missed' = (missed \/ ~Listening)
  /\ IF Listening /\ left > 0 THEN left' = left - 1 /\ got' = got + 1
                              ELSE UNCHANGED <<left, got>>
  /\ UNCHANGED <<line, spi, dma, size, reload, flags, input, at, early,
                 inTime, reported>>

CsRise ==
  /\ ~cs_high
  /\ cs_high' = TRUE
  /\ edge' = TRUE
  /\ UNCHANGED <<spi, channel, flags, input, at, ghosts>>

-----------------------------------------------------------------------------
(***************************************************************************)
(* _slave_transfer_start and _slave_transfer, in either context.           *)
(***************************************************************************)

(* The main loop goes on when no handler runs and none is due; only from   *)
(* the look at the chip select to the enabling are interrupts disabled.    *)
Goto(c, from, to) ==
  /\ at[c] = from
  /\ at' = [at EXCEPT ![c] = to]
  /\ c = "main" => /\ at.irq = "none"
                   /\ from \in {"sample", "set"} \/ ~IrqDue

Finished(c) == IF c = "main" THEN "done" ELSE "return"

(* The link has prepared the buffers, its input enabled or not; the first  *)
(* time its input cache is empty.                                          *)
TransferStart(c) ==
  /\ Goto(c, "start", IF busy THEN Finished(c) ELSE "transfer")
  /\ IF busy THEN UNCHANGED input
             ELSE input' \in (IF c = "main" THEN {TRUE} ELSE BOOLEAN)
  /\ UNCHANGED <<line, spi, channel, flags, ghosts>>

\* Fault: the flag is left to whoever has set the configuration.
Transfer_DummyKept(c) ==
  /\ Goto(c, "transfer", "size")
  /\ busy' = TRUE
  /\ UNCHANGED <<line, spi, channel, resend_request, dummy_in_used, input,
                 ghosts>>

(* With no input a dummy byte is received.  Until busy is set the          *)
(* interrupt leaves everything alone, so that this is one step.            *)
Transfer(c) ==
  /\ Goto(c, "transfer", "size")
  /\ dummy_in_used' = ~input
  /\ busy' = TRUE
  /\ UNCHANGED <<line, spi, channel, resend_request, input, ghosts>>

\* Fault: the channel is given no length.
RxBufferSize_Unlimited(c) == MaxCount + 1

(* What this context configures the receiving channel for, from its own    *)
(* dma_transfer_config_rx: the link's buffer, or one dummy byte.           *)
RxBufferSize(c) == IF c = "irq" /\ dummy_in_used THEN 1 ELSE MaxCount

(* _channel_transfer_prepare: the size is remembered first ...             *)
DmaSize(c) ==
  /\ Goto(c, "size", "configure")
  /\ size' = RxBufferSize(c)
  /\ UNCHANGED <<line, spi, dma, left, reload, got, flags, input, ghosts>>

(* ... then the channel is configured, which points one that already runs  *)
(* to the new buffer: it loses what it has moved, but not its count.       *)
DmaConfigure(c) ==
  /\ Goto(c, "configure", "trigger")
  /\ reload' = RxBufferSize(c)
  /\ got' = 0
  /\ missed' = (missed \/ (dma /\ got > 0))
  /\ UNCHANGED <<line, spi, dma, size, left, flags, input, early, inTime,
                 clocked, reported>>

(* dma_start_channel_mask.                                                 *)
DmaTrigger(c) ==
  /\ Goto(c, "trigger", "enable")
  /\ IF dma /\ left > 0 THEN UNCHANGED <<dma, left, got>>
                        ELSE dma' = TRUE /\ left' = reload /\ got' = 0
  /\ UNCHANGED <<line, spi, size, reload, flags, input, ghosts>>

(* _slave_transfer_enable: RESULT_BUSY if the block is not out of reset.   *)
TransferEnable(c) ==
  /\ \/ spi = "reset" /\ Goto(c, "enable", "stop")
        /\ UNCHANGED spi
     \/ Goto(c, "enable", "sample")
        /\ spi' = IF spi = "reset" THEN "ready" ELSE spi
  /\ UNCHANGED <<line, channel, flags, input, ghosts>>

\* Fault: the chip select is not looked at.
SpiEnableSample_Unchecked(c) ==
  /\ Goto(c, "sample", "set")
  /\ UNCHANGED <<line, spi, channel, flags, input, ghosts>>

(* _slave_spi_enable, with the interrupts disabled: never while the master *)
(* is in the middle of a transfer.                                         *)
SpiEnableSample(c) ==
  /\ Goto(c, "sample", IF cs_high THEN "set" ELSE "disable")
  /\ UNCHANGED <<line, spi, channel, flags, input, ghosts>>

SpiEnableSet(c) ==
  /\ Goto(c, "set", Finished(c))
  /\ spi' = IF spi \in {"ready", "on"} THEN "on" ELSE "deaf"
  /\ UNCHANGED <<line, channel, flags, input, ghosts>>

SpiDisable(c) ==
  /\ Goto(c, "disable", "stop")
  /\ spi' = "reset"
  /\ UNCHANGED <<line, channel, flags, input, ghosts>>

(* What an aborted channel shows as its count is not defined by the code.  *)
DmaStop(c) ==
  /\ Goto(c, "stop", "resend")
  /\ dma' = FALSE
  /\ left' \in {left, 0}
  /\ UNCHANGED <<line, spi, size, reload, got, flags, input, ghosts>>

\* Fault: nothing remembers that the transfer was not enabled.
ResendRequest_Forgotten(c) ==
  /\ Goto(c, "resend", Finished(c))
  /\ UNCHANGED <<line, spi, channel, flags, input, ghosts>>

(* The transfer stays busy and is armed again at the next rising edge.     *)
ResendRequest(c) ==
  /\ Goto(c, "resend", Finished(c))
  /\ resend_request' = TRUE
  /\ UNCHANGED <<line, spi, channel, busy, dummy_in_used, input, ghosts>>

-----------------------------------------------------------------------------
(***************************************************************************)
(* The chip-select interrupt.                                              *)
(***************************************************************************)

(* The SDK acknowledges the edge before it calls the handler; an edge that *)
(* comes during the handler is served after it.                            *)
Interrupt ==
  /\ edge
  /\ at.main # "set"
  /\ at.irq = "none"
  /\ edge' = FALSE
  /\ at' = [at EXCEPT !.irq = IF busy THEN "end" ELSE "return"]
  /\ UNCHANGED <<cs_high, spi, channel, flags, input, ghosts>>

(* hal_ll_mcu_dma_get_transfer_count, an unsigned difference of which only *)
(* 0 and the values of a running transfer are told apart.                  *)
TransferCount == size - left

\* Fault: judged by the length that is reported.
Valid_ByLength == ~dummy_in_used /\ TransferCount # 0

Valid == TransferCount # 0

(* The length that is reported, 0 if the link had disabled its input,      *)
(* though a dummy byte was counted.                                        *)
Length == IF dummy_in_used THEN 0 ELSE TransferCount

(* The rest of _slave_cs_deselected_process: the transfer is ended, and    *)
(* either reported, so that the link starts the next one, or sent again.   *)
Deselected ==
  /\ Goto("irq", "end",
          IF Valid /\ ~resend_request THEN "start" ELSE "transfer")
  /\ spi' = "reset" /\ dma' = FALSE
  /\ left' \in {left, 0}
  /\ dummy_in_used' = FALSE
  /\ busy' = FALSE
  /\ resend_request' = FALSE
  /\ reported' = (reported \/ (Valid /\ ~resend_request))
  /\ UNCHANGED <<line, size, reload, got, input, early, inTime, clocked,
                 missed>>

(* From the last step of the arming back through the link and the SDK.     *)
Return ==
  /\ Goto("irq", "return", "none")
  /\ UNCHANGED <<line, spi, channel, flags, input, ghosts>>

-----------------------------------------------------------------------------

Arming(c) == \/ TransferStart(c) \/ Transfer(c)
             \/ DmaSize(c) \/ DmaConfigure(c) \/ DmaTrigger(c)
             \/ TransferEnable(c) \/ SpiEnableSample(c) \/ SpiEnableSet(c)
             \/ SpiDisable(c) \/ DmaStop(c) \/ ResendRequest(c)

Next == \/ CsFall \/ Byte \/ CsRise
        \/ Interrupt \/ Deselected \/ Return
        \/ \E c \in Contexts : Arming(c)

Spec == Init /\ [][Next]_vars

-----------------------------------------------------------------------------
(***************************************************************************)
(* Properties.                                                             *)
(***************************************************************************)

Steps == {"start", "transfer", "size", "configure", "trigger", "enable",
          "sample", "set", "disable", "stop", "resend"}

TypeOK ==
  /\ cs_high \in BOOLEAN /\ edge \in BOOLEAN
  /\ spi \in {"reset", "ready", "on", "deaf"}
  /\ dma \in BOOLEAN /\ size \in 0..MaxCount /\ reload \in 0..MaxCount
  /\ left \in 0..MaxCount /\ got \in 0..(MaxCount - left)
  /\ busy \in BOOLEAN /\ resend_request \in BOOLEAN
  /\ dummy_in_used \in BOOLEAN /\ input \in BOOLEAN
  /\ at.main \in Steps \cup {"done"}
  /\ at.irq \in Steps \cup {"none", "end", "return"}
  /\ early \in BOOLEAN /\ inTime \in BOOLEAN
  /\ clocked \in BOOLEAN /\ missed \in BOOLEAN /\ reported \in BOOLEAN

(* Outside the processor's steps a transfer is always armed, or going to   *)
(* be armed at the next rising edge: whatever the master did in the middle *)
(* of an arming, the slave never stops answering for good.                 *)
KeepsListening ==
  at = [main |-> "done", irq |-> "none"] =>
    busy /\ (Listening \/ resend_request)

(* transfer_done is called for what was received ...                       *)
Reports == at.irq = "end" /\ at'.irq = "start"

(* ... at most once in a selection of the slave, also when an old edge     *)
(* ends the transfer before the master does;                               *)
ReportedOnce == [][Reports => ~reported]_vars

(* ... never if a byte of the selection went by before the slave listened: *)
(* the link does not take the end of a message for its beginning;          *)
NoGaps == [][Reports /\ ~early => ~missed]_vars

(* ... and with the number of bytes that are in the link's buffer, none if *)
(* the link had disabled its input, though the code only subtracts and a   *)
(* dummy byte is counted: also of a transfer whose channel the main loop   *)
(* configured or triggered after the interrupt had.  (A selection in the   *)
(* middle of the start-up arming may be reported with the length the       *)
(* channel has been prepared for, or with bytes it has been led away from.)*)
ReportsItsLength ==
  [][Reports /\ ~early => Length = IF input THEN got ELSE 0]_vars

(* A selection that begins when the slave is ready for it is heard: it has *)
(* been reported by the time the slave is ready for the next one.          *)
EveryTransferHeard ==
  [][(cs_high /\ ~cs_high' /\ SlaveIsDone /\ inTime /\ clocked)
       => reported]_vars

(* "The master sets the CS pin high, the SPI transfer is ending": once     *)
(* spils_init is done, a handler that ends a transfer and reports it does  *)
(* not come in the middle of it.                                           *)
ReportedIsFinished ==
  [][(at.irq = "none" /\ at'.irq = "end" /\ Valid /\ ~resend_request)
       => early \/ cs_high \/ ~clocked]_vars

=============================================================================
