# NeuronWired: a TLA+ model of the Defy wired firmware

NeuronWired is the firmware of the RP2040 "neuron" between the two halves of a
Defy keyboard and the host. Each half is an SPI *master*; the neuron is the SPI
*slave* of both, polls them from one main loop, and talks USB HID to the host.
What is hard in it is what happens between that main loop and the chip-select
interrupt, and that is what the modules here model first.

Contents: [inventory](#1-inventory) · [plan](#2-plan) ·
[modules](#3-the-modules-and-the-code) · [runs](#4-what-the-runs-check) ·
[proofs](#5-what-is-proved) · [findings](#6-findings) ·
[not modelled](#7-what-is-not-modelled)

To check a module, in this directory:

    tlc -workers 2 -config MCSpiLink.cfg MCSpiLink.tla
    tlapm SpiLinkProofs.tla

The modules with proofs are `SpiLinkProofs`, `SpiLinkRefinement`,
`SpiConnectionProofs`, `SpiSlaveProofs`, `SpiHalProofs`, `EepromFlushProofs`,
`PacketBytesProofs` and `MultiReportProofs`; the last one takes some minutes.

## 1. Inventory

`setup()` of `src/src/main.cpp` starts the communications (which create the SPI
slaves), then Kaleidoscope with its plugins, then USB HID. `loop()` sends the
oldest HID report, runs a Kaleidoscope cycle (plugins, among them the deferred
flash update) and runs the communications, which run both SPI ports. There is
one thread; interrupts come in between.

| component | code | state it keeps | operations | talks to |
|---|---|---|---|---|
| SPI HAL | `RP_platform/hal/mcu/rp20/hal_ll_rp20xx_spi.c` | `busy`, `resend_request`, `dummy_in_used`, the armed DMA channels | transfer, chip-select interrupt | link (callbacks), DMA |
| SPI link slave | `SPISlave/src/link/spi_link_slave.c` | `state`, four buffers behind four swapped pointers, availability flags, two mutexes | transfer-done interrupt; `spils_poll`, `spils_data_read`, `spils_data_send` | HAL below, event handler above |
| connection machine | same file, with `Time_counter` | `con_state`, `connection_detected`, a deadline | part of `spils_poll` | interrupt (flag), clock, event handler |
| Spi_slave, SpiPort | `SPISlave/src/Spi_slave.cpp`, `SpiPort.cpp` | two flags written by the event handler, `is_connected_`, receive and transmit FIFO | `run`, `sendPacket`, `readPacket`, `clearSend`, `clearRead` | link, `Communications` |
| packet FIFO | `FIFO_BUFFER/src/Fifo_buffer.cpp` | byte array, `index`, `num_items` | `put`, `get`, `removeOne`, `peek` | Spi_slave, SpiPort |
| HID report queue | `KeyboardioHID/src/hidDefy.cpp` | byte FIFO of reports, a mutex | `SendReport`, `SendLastReport` | TinyUSB |
| keyboard and pointer reports | `KeyboardioHID/src/MultiReport` etc. | the report being built and the last one sent | press, release, `sendReport` | report queue |
| EEPROM emulation, deferred flush | `EEPROM/src/EEPROM.cpp`, `src/EEPROMUpgrade.cpp` | a RAM copy, `_dirty`, `needUpdate`; `need_update_`, `start_time_` | `write`, `commit`, `update`, `beforeEachCycle` | flash |
| integration test | `src/IntegrationTest.cpp` | step, start time | a Focus command, `beforeEachCycle` | LEDs, communications |
| CRC, heap, mutex, GPIO wrappers | `CRC`, `RP_platform` | (heap: a bump pointer) | pure or used at init | everybody |
| LED caps lock, version, descriptors, storage padding | `src/src/*.cpp` | none that evolves | output | Kaleidoscope |
| USB device stack | TinyUSB in `Arduino/libraries`: `usbd.c`, `hid_device.c`, `tusb_fifo.c` | connected, mounted, suspended; busy and claimed per endpoint; ring buffer indices | report, claim, transfer, reset, set configuration | report queue, host |
| Communications, Kaleidoscope, LED library, plugins | git submodules | not in this tree | | |
| Arduino core, MCP3428 driver | vendored; unused | | | |

How the parts interact, from the bottom:

* *Shared memory.* The link's structure `spils_t` is written by the interrupt and
  by the main loop. Two mutexes are only ever try-locked; the interrupt runs to
  its end, so a mutex protects the main loop from the interrupt and never the
  other way round, and several fields are accessed outside them.
* *DMA.* A transfer is armed at the end of one interrupt and runs, at the
  master's pace, while the main loop works on the buffers next to it.
* *Callbacks.* `spils_event_handler` runs in both contexts: in the interrupt, or
  in the main loop when the poll moves a waiting payload.
* *Protocol.* Every reply tells the outcome of the *previous* transfer: a master
  announces data (`SEND_START`), sees OK one transfer later, and then sends it.

What makes each component correct:

* link: the DMA never touches a buffer in use; no payload acknowledged to the
  master is lost, duplicated or reordered; a go-ahead holds until the message
  comes; a busy line opens again;
* connection machine: a live master is not given up, a dead one is, a revived
  one is seen;
* Spi_slave: its flags agree with the link they describe, no packet taken from a
  FIFO is lost, packets leave in the order they came in;
* HAL: whatever the moment of the chip select, the link sees each transfer once,
  and always has one armed;
* report queue: reports whole, in order, each once; keyboard reports: the host
  sees modifiers and keys change in an order that types the right character;
* EEPROM: what was committed reaches the flash, and after a power failure the
  settings are one whole version or visibly none.

The hazards of this code, each at its line, are listed under "hazards" in
`PROJECT.json`.

## 2. Plan

| # | module | what it is | state |
|---|---|---|---|
| 1 | `LinkChannel`, `SpiLink`, `MCSpiLink` | the link slave, access by access, and the two channels it implements | done |
| 2 | `SpiLinkProofs` | its inductive invariant and all its state properties, for every set of payloads | done |
| 3 | `SpiConnection`, `SpiConnectionProofs` | connection machine, 32-bit deadline, clock | done |
| 4 | `PacketPipe`, `SpiSlave`, `MCSpiSlave` | Spi_slave, SpiPort and FIFOs composed with `SpiLink`; two packet queues as the abstract specification | done |
| 5 | `SpiHal` | chip select, busy, resend, dummy input, against the master's edges, with the start-up arming; that a transfer is always armed and each selection is reported once | done |
| 6 | `TuFifo`, `HidReports` | the overwritable ring buffer; the report queue over TinyUSB's endpoints, against a host that suspends, unplugs and resets | done |
| 7 | `MultiReport`, `MCMultiReport` | keyboard, consumer and mouse reports on top of it, up to what the host holds | done |
| 8 | `EepromFlush` | commit, the delay, erase and program, with power failures | done |
| 9 | `LinkBuffer`, `FifoBuffer`, `PacketBytes`, `MCPacketBytes` | the bytes under the payloads of `SpiLink` and the packets of `SpiSlave`; a second refinement of `PacketPipe` | done |
| 10 | `SpiLinkRefinement` | `SpiLink` implements `LinkChannel`, for every set of payloads | done |
| 11 | `SpiHalProofs`, `EepromFlushProofs`, `PacketBytesProofs` | the safety properties of the three modules, for every value of their constants | done |
| 12 | `SpiSlaveProofs` | the link's invariant carried over to `SpiSlave`; its own invariants; it implements `PacketPipe` | done |
| 13 | `MultiReportProofs` | the ring buffer's arithmetic for every depth; framing, claims, order and uniqueness of reports; what a host that stays ready gets, and the order of chords | done |
| 14 | `PacketBytesProofs` | the FIFO's bytes, whole packets, and that `PacketBytes` implements `PacketPipe`, with the loops over packets reasoned about by induction | done |

With this every safety property of every passing run is a theorem; what TLC alone
checks is liveness.

Every component module does without RECURSIVE operators (its loops are recursive
functions), takes its parameters as constants with a named assumption, and has one
action per handler or per access to shared memory, so that it can be proved about
as it stands.

## 3. The modules and the code

"map" in `PROJECT.json` names the lines of every definition. Operators called
`X_Something` above a definition `X`, commented "Fault", are mutated forms of it
that the properties are tested against; no specification uses them.

**SpiLink** (`spi_link_slave.c`). The interrupt handler is atomic: nothing
preempts it, so `TransferDone(m, ev)` is the whole handler for a message `m`,
reported events in `ev`, split into one action per path (saturated, broken,
SEND_START, RECV_START, DATA refused / kept / moved / empty, anything else). Each
path ends, as in the code, in composing the reply, preparing both DMA channels
and setting the state (`Reply`, `Arm`). The main loop is not atomic: `pc` steps
through the accesses of `_buffer_in_cache_data_move`, `spils_data_read` and
`spils_data_send`, including the moment between the two assignments of a pointer
swap, and an interrupt may come between any two. So does the tail of `spils_init`:
the read of the state and the store of LISTENING in
`_spi_slave_buffers_set_done_handler` are `InitLook` and `InitStore`.
The buffers stay behind their pointers; their content is reduced to what the code
can tell apart. `EMPTY` and `CONSUMED` both have `loadsize` 0; the difference is
whether the positions were reset, which decides whether the DMA gets a whole
buffer. Messages are reduced to what the handlers test. Two message kinds of the
master are deliberately odd: `DATA_VOID`, a DATA message without payload, and
`BROKEN`, a transfer of less than a header. The HAL may hand the link all of
these at any moment. The one DATA message left out here is the one whose header
says less than its own length; it is in `PacketBytes`.

**LinkChannel**. Two bounded queues, the phase the slave is in, and the reply the
master will clock out. `SpiLink` implements it (`ImplementsChannel`), with
`ToHost` and `ToMaster` reading the queues off the buffers. Because `reply` is
part of it, the refinement says that replies are truthful: OK for a SEND_START
is only given when there is room, DATA is always taken after it, OK_BUSY or OK
for a payload is given exactly when it has entered the queue, DATA_READY only
when there is something to fetch. `Start` is the end of `spils_init`: once, before
any payload is put or taken, the phase may fall back to listening with the reply
left as it is, for that is what `InitStore` does to a go-ahead, or to a transfer
being sent, that came since `InitLook`.

**SpiConnection** (`_con_machine`, `Time_counter.c`, `is_connected_`). The flag
`connection_detected` is set by the interrupt (`Transfer`) and each access of the
machine to it is one step; the clock ticks between any two. The deadline is the
32-bit sum of the code, modulo `ClockWrap`. `lag` bounds the ticks from one poll
to the next (`LoopMillis`) and `quiet` counts the silence; both are ghosts.

**SpiSlave** (`Spi_slave.cpp`, `SpiPort.cpp`, `Fifo_buffer.cpp`). `Link` is an
instance of `SpiLink` on the same variables: its interrupt actions and its API
steps are used unchanged, and `loop` decides which call the main loop makes next.
The event handler is applied to the `ev` of every link step. Each access to
`spils_data_in_received` and `spils_data_out_sending` is a step of its own; in
particular the read in `spils_data_read_available` and the store of its result
are two steps, as they are two memory accesses in the code. The packet FIFOs
belong to the main loop alone; the layers above use them between two calls of
`run()`. The CRC is the operator `PacketsOf`, which gives the packets of a
payload that pass it. The constant `MasterAsksBlindly` says whether the master
may ask for data it was not told of; the link's protocol has DATA_READY for
telling it, and the master's program is not in this repository, so both are run.

**PacketPipe**. What the layers above may rely on: packets are queued, arrive in
order, and are dropped only at a full FIFO, which keeps the older ones.

**SpiHal** (`hal_ll_rp20xx_spi.c`, the simultaneous start and the transfer count
of `hal_ll_rp20xx_dma.c`). Three actors: the master moves the chip select and clocks
bytes at any moment; the chip-select interrupt ends a transfer and arms the next;
the main loop, in `spils_init`, arms the first one with the interrupt already
enabled. `_slave_transfer` is run by both, so `at` holds a step for each context,
and the interrupt may arm a transfer in the middle of the arming that it
interrupted. The look at the chip select and the enabling are two steps, with the
interrupts masked but the master moving on. The rising edge is latched, and
acknowledged before the handler runs, as the SDK does, so that one that comes
during the handler is served after it; `Return` is the way from the handler's last
change back through the SDK, and the main loop goes on only when no edge is
latched. What is assumed of the master's timing is that the chip select is low for
longer than those few instructions before its first byte is through (`Byte`); with
the constant `Prompt` also that the interrupt, when no handler runs, is entered
before a byte is through, that is, that no other interrupt delays it.
A transfer is its number of bytes, up to the room in the buffer, and is counted as
the code counts it: `size` is the size remembered (dma.c:347), `reload` what the
channel is configured with, `left` its count, which a trigger sets from `reload`
(`DmaSize`, `DmaConfigure`, `DmaTrigger`); the length is `size - left`
(`TransferCount`). That the hardware ignores a trigger of a channel that is still
moving bytes, and takes a new write address at once, is from the RP2040 datasheet.
`got` is a ghost: the bytes at the address the channel points to. So are `early`,
`inTime`, `clocked`, `missed` and `reported`, about the latest selection.
`buffers_set_done_handler` is `InitLook` and `InitStore` in `SpiLink`, and the end
of each of its handlers.

**TuFifo** (TinyUSB's `tusb_fifo.c`, as `HID_::begin` configures it). The indices
run over twice the depth, in 16 bits, and the arithmetic is the code's, with the
skip over the unused numbers. A byte can be anything.

**HidReports** (`hidDefy.cpp`, and of TinyUSB `hid_device.c`, `usbd.c`,
`tusb.c`). The main loop makes reports and, once per turn, sends the oldest. Each
look at the device's state is a step: the test for suspension, the test for
mounted, the claim of the endpoint, the start of the transfer, the second test
for suspension. The USB task runs in an interrupt, so between any two steps the
host may take a report, suspend, resume, be unplugged, reset the bus or configure
the device. `ep_in` is part of what a reset clears: after it a report goes to the
control endpoint, as in the code. `mutex_enter_blocking` is left out, as only the
main loop uses the mutex. A byte of the FIFO is which byte of which report it is,
so a reader that lost the framing is seen at once (`garbled`), and the model goes
no further there.

**MultiReport** (`Keyboard.cpp`, `ConsumerControl.cpp`, `Mouse.cpp`). A call
composes any report of a small set and makes the class send what it sends for the
change; `Chord` is the three-report rule of `Keyboard_::sendReport`. The reports
carry two ghosts: their number among the queued ones, and what the caller was
after.

**EepromFlush** (`EEPROM.cpp`, `EEPROMUpgrade.cpp`). Writes and commits happen in
the loop, and not while `update()` runs, as that is in the loop too. Each flash
operation has a beginning and an end, with garbage in its pages in between, and
the power may fail before, during and after each. `image`, `written` and `since`
are ghosts.

**LinkBuffer, FifoBuffer, PacketBytes** (`buffer_t` of `spi_link_slave.c`,
`Fifo_buffer.cpp`, `data_in_process`). Here a handler is one step, since `SpiLink`
has the interleavings, and the data are the bytes: a DMA transfer of any length
puts the message's bytes over what was in the buffer, the handler trims and skips
by moving positions, the read goes through the 8-bit size, and the packets are
cut out, checked and put into the byte FIFO. The CRC is not relied upon: bytes
that never were a packet pass it in the model. A header may say any 8-bit length.
One that says less than its own two bytes is let in, as slave.c:854 lets it, and
wraps the size; what `spils_data_read` then copies is undefined, so
`DataInProcess` does not go on with such a buffer (`Overruns`). The two loops, over the packets of
`p_data` (`PutAll`) and in `clearRead` (`RemoveAll`), are recursive functions: the
value after n rounds in terms of the value after n - 1. The mapping to
`PacketPipe` names a packet by its message and its place there. It puts the valid
packets of the two link buffers behind the FIFO's items, which it takes as they
are: whatever got into the FIFO is what `readPacket` will give.

## 4. What the runs check

| run | module | instance | states | result |
|---|---|---|---|---|
| `spi_link` | `MCSpiLink` | 2 payloads | 9 thousand | all hold |
| `spi_connection` | `SpiConnection` | timeout 5, wrap 12, loop 2 | 9 thousand | all hold |
| `spi_hal` | `SpiHal` | buffer of 2 bytes | 24 thousand | all hold |
| `spi_hal_early` | `SpiHal` | buffer of 2 bytes, prompt interrupts | | violated |
| `spi_slave` | `MCSpiSlave` | a payload of 2 packets, FIFOs of 2 | 79 thousand | all hold |
| `spi_slave_wakeup` | `MCSpiSlave` | FIFOs of 1, fairness | | violated |
| `spi_slave_blind` | `MCSpiSlave` | FIFOs of 1, blind master | | violated |
| `hid_reports` | `MCMultiReport` | 4 reports, 2 disturbances, 6 bytes of FIFO | 868 thousand | all hold |
| `hid_click` | `MCMultiReport` | 4 reports, 1 disturbance | | violated |
| `eeprom_flush` | `EepromFlush` | 2 pages, 3 values, 2 power failures | 182 thousand | all hold |
| `packet_bytes` | `MCPacketBytes` | payloads of 0 to 2 packets, a short header, FIFO of 2 | 10 thousand | all hold |
| `packet_bytes_short` | `MCPacketBytes` | the same | | violated |

`spi_link`: *InputDmaSafe*, *OutputDmaSafe*, *GoAheadHonoured*, *NothingStranded*,
*OutputAnnounced*, *ImplementsChannel*, *BusyLineIsWorkedOff*. Together: with a
master that sends anything and a loop that calls anything, no interleaving makes
the DMA write into data in use, loses or repeats an acknowledged payload, or
leaves the line closed for good while the loop polls and reads.

`spi_connection`: *GivenUpOnlyAfterSilence*, *TransferConnects*,
*SilenceDisconnects*. A connected master is given up only after the timeout of
silence, less one turn of the loop, with two exceptions named in the property and
both reachable: the deadline wraps with the clock (once in 49 days a live master
can be disconnected, and comes back at its next transfer), or the transfer comes
after the poll has looked at the flag. Conversely a deadline closer to the wrap
than two loop turns may be stepped over, which *SilenceDisconnects* excludes.

`spi_hal`: *KeepsListening* (a transfer is armed, or will be at the next rising
edge, whatever the master did during the arming), *ReportedOnce*, *NoGaps* (the
link never gets a message whose first bytes went by), *ReportsItsLength* (the
difference that is reported is what is in the link's buffer, and the dummy byte is
not counted), *EveryTransferHeard* (a selection that finds the slave
ready is reported before the slave is ready for the next). *NoGaps*,
*ReportsItsLength* and *EveryTransferHeard* speak of selections that begin after
`spils_init`, and this is where the code has its one weak spot: an interrupt
between the preparation of the channel (dma.c:347) and its trigger (dma.c:432)
finds the whole size remembered and nothing left in the channel, and reports a
transfer of full length that moved no byte; and an arming that goes on after the
interrupt has armed its own may point a running channel elsewhere, so that bytes
are lost. It takes a selection that ends within the microseconds of the start-up
arming. What the properties say is that nothing of this outlives it, although the
main loop may have remembered, configured or triggered after the interrupt.

`spi_slave`: *SendNeverFails* (the assertion behind `spils_data_send`),
*SendingMeansPending* (the flag that would silence a side for ever),
*OnlyStaleStoreLosesInput* (input is noticed by the loop except after the one
step that `spi_slave_wakeup` shows), *ImplementsPipe*.

`hid_reports`: *NothingLost* and *HostHoldsLast* (to a host that stays ready, each
queued report once, in order, and in the end what the classes composed),
*NeverTwice* (with suspensions, unpluggings and resets at any step, losses are
possible, repetition and reordering are not), *FramesKept*, *NoClaimLeft* (no
endpoint left claimed, which would stop the keyboard), *ChordOrdered* (no report
the host gets changes modifiers and keys at once), *Drains*.

`eeprom_flush`: *NeverMixed* (unless a page is erased or garbage, the flash is one
completed copy), *CommitKept*, *FlushesSpaced*, *CommitReachesFlash*. It does not
say that settings survive a power failure during the update: they do not.

`packet_bytes`: *ImplementsPipe* (the bytes are the packets of `PacketPipe`),
*ReadFits* (what the link copies overruns the caller's array exactly when the
header says less than its own length), *WholePackets* (of every other message it is
whole packets, the assertion in `data_in_process`). `packet_bytes_short` checks the
same without the exception (*DataInIsValid*) and finds it violated. *ImplementsPipe*
with a short header shows that nothing is delivered of it, and nothing else is lost
or reordered, up to the read that is undefined.

Bounds. Two payloads tell loss, duplication and order apart, as each channel
holds two. All other state of `SpiLink` is finite, so nothing else is bounded
there. In `SpiSlave` a payload carries two different packets, so that a FIFO of
two can overflow in the middle of a payload and at its end; the violation runs
need no more than one slot. In `SpiConnection` the timeout is longer than two
loop turns, as in the firmware (some 1000 ms against a few), and the clock wraps
after a bit more than two timeouts, so that deadlines before, at and after the
wrap all occur. In `SpiHal` a buffer of two bytes tells an empty transfer, a
dummy byte, a part of a message and a full buffer apart; nothing else is
counted. Its properties are checked without the assumption of `Prompt`, which is
the weaker one; the counterexample of `spi_hal_early` is with it, so that it shows
an edge that was latched while the handler ran and no slow interrupt. The proofs lift the bounds on every constant of these modules
([section 5](#5-what-is-proved)); liveness remains bounded by the instances.

In `MultiReport` four reports are one chord and one more, or a click and its
context; the FIFO of six bytes holds two keyboard reports, so that reports wrap
around its end at different places and a third overwrites; reports have two
lengths, and two disturbances are a suspension within a reset or the reverse. In
`EepromFlush` one page per half is enough for a mixture, three values tell the
old, the flushed and the later version apart, and a failure may hit the boot after
a failure. In `PacketBytes` nothing is counted: the master sends for ever,
messages of no, one (broken) and two packets and one whose header says 1, in
transfers of less than a header, of all of the longest message but its last byte,
which pads the others by a part of a packet, and of the whole buffer.

Fairness. There is one thread and no blocking call in it, so a call in progress
goes on (weak fairness of `CallStep`, `Poll`, `LoopStep`): the interrupt only
delays it. In `SpiLink` alone the loop's choice of the next call is free, so that
it polls and reads again and again has to be said: strong fairness of `Poll` and
`Read`, as `run()` calls both in every turn and other calls come in between.
Time goes on (`Tick`). No progress is assumed of the master, in any run.
In `MultiReport` the loop goes on (`MainLoop` runs at every turn) and a host that
has mounted the device and is not suspending it polls its endpoint (`Poll`, every
millisecond by the interface descriptor); that it resumes or configures is not
assumed. In `EepromFlush` the loop and the clock go on.

Deadlock is checked in every run.

## 5. What is proved

`SpiLinkProofs` proves, for every set of payloads disjoint from the names of the
other messages (`PayloadAssumption`), that *TypeOK*, *InputDmaSafe*,
*OutputDmaSafe*, *GoAheadHonoured*, *NothingStranded* and *OutputAnnounced* hold
in every reachable state.

None of them is inductive. The strengthening `IInv` adds:

* `MutexInv`: a mutex is held exactly at the steps of its critical section;
* `InputInv`: the two input pointers differ except between the two assignments of
  the swap; what the buffers and the flags hold at every step of the move and of
  the read; a busy line is loaded unless only a DATA message without payload was
  kept; and during the swap the line is busy;
* `ArmedInv`: the armed input is the cache or nothing, and nothing exactly when
  the line was saturated at the last arming;
* `GoAheadInv`: in DATA_RECEIVING the line is open and its cache recycled, and
  the main loop is in none of the steps that would change that;
* `OutputInv`: the output pointers differ, the cache holds a message, and what the
  other buffer holds at every step of the send.

The decisive argument is the one about the swap: it runs without masking the
interrupt, and is safe only because `line_in_busy` is cleared *after* it: an
interrupt in between takes the saturated path and arms no input from half-swapped
pointers.

`SpiConnectionProofs` proves *TypeOK* and *GivenUpOnlyAfterSilence* for every
timeout, clock width and loop length (`ClockAssumption`). The strengthening says
what the deadline is worth at every step: outside the refresh, the clock's
distance to the deadline and `quiet` add up to the timeout unless the deadline
wrapped; inside, a transfer is at most `lag` old.

`SpiLinkRefinement` proves that `SpiLink` implements `LinkChannel`
(*ImplementsChannel*, safety: `LinkChannel` has no fairness). It needs `IInv` at
both ends of a step: that an interrupt's `TransferDone` maps to one operation of
the channel, and a step of the main loop to a `Take`, a `Put` or a stutter,
depends on which buffer the pointers of the moment name. The two steps of
`spils_init` map to stutters or to `Start` (`InitStepImplements`). The queue
towards the host is what the line and the application's buffer hold; the two assignments of
the swap leave it alone because the mapping reads it off the pointers in the
right order at each of them.

`SpiSlaveProofs` carries the link's invariant over (`LinkP!IInv`: each step of
`SpiSlave` is a step of the link or leaves it alone) and adds `PlaceInv` (which
call the link is in at each place of the loop), `ContentInv` (what the master sent
stays on its way in, what the layers above send on its way out), `HandInv` (the
packet taken from the FIFO is the one the link is given) and `BlindInv`: a master
that asks only after DATA_READY finds a packet (`FetchInv`), and then
`spils_data_out_sending` agrees with the link at every place of the loop
(`SendingInv`). *TypeOK* and
*OnlyStaleStoreLosesInput* hold for every master; *SendNeverFails*,
*SendingMeansPending* and *ImplementsPipe* for one that does not ask for data it
was not told of (`~MasterAsksBlindly`), which the run `spi_slave_blind` shows to
be needed. All for every FIFO size and every set of payloads (`LinkAssumption`).

`SpiHalProofs` proves *TypeOK*, *KeepsListening*, *ReportedOnce*, *NoGaps*,
*ReportsItsLength* and *EveryTransferHeard* for every size of the buffer
(`CountAssumption`). `PlaceInv` says who can be in which step of
`_slave_transfer`: the interrupt runs to its end before the main loop goes on,
also when it came in the middle of the main loop's arming. `BusyInv` and
`ArmedInv` relate `busy`, the latched edge and the armed channels; `ChannelInv`
follows the size, the reload value and the count through the interrupt's own
arming, and `RestInv` says what the channel is worth to the main loop between two
selections, whoever has prepared it last (`Quiet`, `Preparing`). From these
`LengthInv` gets that the difference is what was received. `DummyInv` relates the
dummy byte to the moment of the arming; `ReportedInv`, `MissedInv` and `HeardInv`
the ghosts about the latest selection to where the slave is with it.

`EepromFlushProofs` proves *TypeOK*, *NeverMixed*, *CommitKept* and *FlushesSpaced*
for any number of pages, values and power failures. *NeverMixed* is not inductive:
a reboot in the middle of a flash operation needs to know what the pages before
and after it hold (`StageInv`), and a commit that the copy was changed only since
the flags say so (`FlagInv`, `CleanInv`); `DelayInv` bounds the delay's clock.

`PacketBytesProofs` proves *TypeOK*, *ReadFits*, *WholePackets* and *ImplementsPipe*
for every size of the buffers up to 255, which `_buffers_init` asserts
(`BufferSizeAssumption`), every size of packet and FIFO that has room for one, and
every set of messages with any 8-bit length in their header, which are whole
packets if the length is at least the header's own (`PacketAssumption`).
`BufferInv`: between two interrupts every buffer is linear, reads from 0 or from
behind the header, and either carries whole packets, at most `MessageSizeMax`
bytes, so that neither the 16-bit positions nor the 8-bit size wrap (`Carries`), or
has just the wrapped size of a short header, 65534 or 65535 (`Wraps`). *ReadFits* is
that these two are told apart by the size alone. `FifoInv`: the FIFO's items fill its
beginning and everything behind them is clear, which is what `forward_fifo` has to
keep up item after item.

The refinement needs to know what loops compute. The library's induction theorems
take an operator and cannot be used, but the order of the naturals is well-founded
(`NatLessThanWellFounded`), and `WFMin` picks the least element of a set. So the
lemma `Induction` is stated about sets of numbers: one that has 0 and, with each
number up to a bound, the next, has all of them. `Rounds` gets from it that a loop
has a value after each round and that the recursive function satisfies its own
equation; `PutAllIs` then says that data_in_process appends the valid packets to
the FIFO's items, up to its capacity, `RemoveAllIs` that `clearRead` leaves none,
and `KeptIs` what is left of a sequence from which items are dropped. On these
rest the steps of the refinement, one lemma for each operation: a transfer is an
`Arrive` or a stutter (`TransferArrives`: the bytes after the trimmed header are
the packets of the one message that was let in, whatever was in the buffer
before), `DataInProcess` an `Overflow` or a stutter (`DataOverflows`), `readPacket`
a `Read`, `clearRead` a `ClearRead`, and the poll and the broken and busy transfers
stutter.

`MultiReportProofs` proves *TypeOK*, *NoClaimLeft*, *FramesKept*, *NeverTwice*,
*NothingLost*, *HostHoldsLast* and *ChordOrdered* for every depth of the FIFO up to
2^15 (`DepthAssumption`), every length of the reports and any number of
disturbances. Four lemmas about the ring buffer come first: what the unsigned
arithmetic over twice the depth, with its skip over the unused numbers, gives
(`PtrIs`, `AdvanceIs`), and what a write and a read do to the bytes seen from the
reader (`WriteAppends`, `ReadDrops`). The invariant is `DataInv` (the FIFO and the
calls in progress), `ClaimInv` (a claimed endpoint has an owner in the main loop),
`FrameInv` (every byte of the FIFO lies in a whole report whose header precedes it)
and `OrderInv` (the numbers of the reports are strictly increasing from the host
over the wire and the FIFO to the caller, except that the report on the wire may
still be in the FIFO while it is sent); the last two until something in the FIFO is
overwritten, which ends the framing in the code as well. *NeverTwice* says only that
what is ahead of the host is in order; that it stays so through wraps of the ring, a
reset in the middle of a transfer, and a report that is refused and tried again, is
what `FrameInv` and `OrderInv` are for.

The last three speak of a host that stays ready, and need a second invariant on top
of the first. `ReadyInv`: until it is disturbed the device is mounted and awake, or
nothing was made yet, and a report in the endpoint's buffer keeps the endpoint
busy, so that the next cannot be written over it. `DeliveryInv` speaks of the set of
the reports under way (on the wire, in the FIFO behind what was just sent, with the
caller), which the steps of the loop move but do not change: every number the host
has not seen is in it, the last report of each class has what the class has
composed, and each report of the keyboard follows the one before it, or what the
host holds, by a change that *ChordOrdered* allows. *ChordOrdered* is a property
of one step, and not inductive: that the next report will be right depends on all
those before it in the FIFO. The lemma `ChordSteps` says that `Chord` leads from any
report to any other in such changes, and ends in it.

Only model-checked is liveness (*BusyLineIsWorkedOff*, *TransferConnects*,
*SilenceDisconnects*, *Drains*, *CommitReachesFlash*): it rests on fairness, and so
on ENABLED, which the prover does not handle. The counterexamples of the five runs
that expect a violation come from TLC as well.

## 6. Findings

1. *Lost wake-up* (`spi_slave_wakeup`). `data_in_process` stores the value of
   `spils_data_read_available()` into `spils_data_in_received`. If the interrupt
   delivers the next payload between the read of `data_in_available` and the
   store, its DATA_IN_READY is overwritten. Nothing reads that payload until
   another event comes, and none can: the next payload finds `buffer_in` full,
   stays in the cache, and from then on every transfer is answered BUSY. The poll
   cannot help, as the move needs `buffer_in` to be read first. The window is a
   few instructions; *OnlyStaleStoreLosesInput* shows that it is the only one.
2. *A dummy counted as the packet* (`spi_slave_blind`). A RECV_START without data
   is served with a dummy in state DATA_SENDING. A packet handed to the link
   while the dummy is clocked out is then reported sent by the dummy's
   DATA_OUT_SENT; the next packet is taken from the FIFO and refused by the link.
   With a master that waits for DATA_READY this cannot happen (`spi_slave`).
3. *A header shorter than itself* (`packet_bytes_short`). `_transfer_receive_data`
   checks that `head.len` is not more than what was received, and nothing below.
   Of a DATA header that says 0 or 1 the two bytes of the header are skipped all
   the same, the 16-bit size becomes 65534 or 65535, and `buffer_get_loadsize`
   makes 254 or 255 of it: not empty, so it is moved, announced and read, past the
   end of the link's buffer into an array of four packets. A master that follows
   `spi_link_def.h` does not send one; *ReadFits* shows that there is no other way.
4. *A transfer ended early* (`spi_hal_early`). The handler takes every rising edge
   for the end of the armed transfer. An edge latched while the handler was
   running, because the master pulsed the chip select once more, is served as soon
   as the handler has returned, with the next transfer armed; if the master has by then selected the slave again
   and clocked a byte, the transfer is reported with the part of the message that
   is there, and the rest is not received. The selection is still reported only
   once (*ReportedOnce*) and the link copes with a broken message (`spi_link`), so
   it costs that message. It needs a master that selects the slave twice within
   one run of the handler; no interrupt has to be late for it.
5. *A click that does not end* (`hid_click`). `Mouse_::click` sends press and
   release one right after the other, past the FIFO. The press occupies the
   endpoint for up to a millisecond, so the release is refused; `SendReport_`
   ignores the result and `Mouse_` notes the button as released. The host holds it
   until another mouse report gets through.

Three more things met on the way have no run. A power failure during `update()`
leaves no settings, and `_dirty` is never taken back, so every commit after the
first change rewrites the flash; neither contradicts a promise. And
`spi_link_slave.h:76` says of `disconnect_timeout_ms` "Set 0 to disable", but no
code treats 0 specially: the deadline has passed when it is made, and the poll
after the first transfer disconnects. The firmware's timeout is 1000.

## 7. What is not modelled

* The bytes of a transfer and the output channel of the HAL; initialisation other
  than the first transfer; `reserve` and `release`, which nothing calls. `SpiLink`
  and `SpiHal` are not composed: the link is checked against a HAL that may deliver
  any message, whole or broken, at any moment.
* The INT pin: `pin_int_enable` is false and `_gpio_init` never enables it.
* What happens after the overrunning copy of a message whose header says less than
  its own length, and messages that are no whole packets: `PacketBytes` assumes
  that a length from the header's own on is one of whole packets.
* The HID queue after an overflow broke its framing; reports before
  `HID_::begin()`; mouse movements (a click composes on the buttons that were sent last, where the
  code reads `report_.buttons`; they are the same as long as every change of them
  is sent), `SystemControl_` and `Keyboard_::end`, which
  send without comparing; the LED reports of the host; a host that changes to
  another configuration; a transfer the USB controller refuses.
* `EEPROMClass::end` and a second `begin` with another size, which nobody calls.
* Packet contents, `has_more_packets` and CRC arithmetic: no step of these
  components depends on them but through valid / not valid.
* Submodules (`Communications`, `kaleidoscope`), which are empty in the tree, the
  vendored Arduino core but for the part of TinyUSB that the reports use, and the
  parts of the inventory that keep no state. The core with its libraries (TLS,
  Bluetooth, file systems, USB audio and host classes) is more than nine tenths of
  the tree's lines and almost none of it is linked into this firmware, which is
  why the modules cover a small share of the tree and nearly all of `src/src` and
  `src/lib/SPISlave`.
