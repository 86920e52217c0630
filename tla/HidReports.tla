----------------------------- MODULE HidReports -----------------------------
(***************************************************************************)
(* The way of a report to the host: HID_::SendReport_ and SendLastReport   *)
(* of src/lib/KeyboardioHID/src/hidDefy.cpp over the overwritable FIFO of  *)
(* module TuFifo, and below them the part of TinyUSB's device stack that   *)
(* they use: tud_hid_n_report, the endpoints and the device's state.       *)
(*                                                                         *)
(* Actors: the main loop, which alone uses the FIFO (reportMutex is never  *)
(* contended); the USB interrupt and task, which change the device's state *)
(* between any two accesses of the loop; the host, which polls, suspends,  *)
(* resets and configures as it likes.                                      *)
(*                                                                         *)
(* A report is a record [id, val, goal, n]: val is the set of codes it     *)
(* says are held; goal and n only serve the properties (what the caller    *)
(* wants to be held in the end, and the number among the queued reports).  *)
(* A byte of the FIFO is which byte of which report it is.                 *)
(***************************************************************************)
EXTENDS TuFifo

CONSTANTS HeaderLen,        \* sizeof(NextReport)
          DataLen(_),       \* sizeof the report of an id
          MaxAway           \* bound: suspends, unplugs and resets

VARIABLES
  todo,             \* reports the caller still has to pass to SendReport
  pc, out, ok,      \* the loop's step, the report it sends, the result
  tx_ff_hid,
  dev,              \* of _usbd_dev: connected, mounted, suspended, and the
                    \* state of the HID IN endpoint and of EP0 OUT; ep_in
                    \* says whether _hidd_itf has an endpoint address
  wire,             \* the report in the HID endpoint's buffer
  host,             \* what the host knows: val per id, n of the last queued
  away,             \* counts suspends, unplugs and resets
  disturbed, over   \* the device was not ready at some time a report was
                    \* made or under way; FIFO bytes were overwritten

hidVars == <<todo, pc, out, ok, tx_ff_hid, dev, wire, host, away, disturbed,
             over>>

Ids == {"keyboard", "consumer", "mouse"}

ASSUME HidAssumption ==
  /\ HeaderLen \in Nat \ {0}
  /\ \A id \in Ids : DataLen(id) \in Nat

FrameOf(r) == [i \in 1..HeaderLen + DataLen(r.id) |-> [of |-> r, byte |-> i]]

Unconfigured == [connected |-> FALSE, mounted |-> FALSE, suspended |-> FALSE,
                 ep_in |-> FALSE, hid |-> "free", ctl |-> "free"]

(* After HID_::begin(): the FIFO is empty and the host has not come yet.   *)
HidInit ==
  /\ todo = <<>> /\ pc = "idle" /\ out = <<>> /\ ok = FALSE
  /\ tx_ff_hid = FifoConfig([byte |-> 0])
  /\ dev = Unconfigured
  /\ wire = <<>>
  /\ host = [val |-> [id \in Ids |-> {}], n |-> 0]
  /\ away = 0 /\ disturbed = FALSE /\ over = FALSE

-----------------------------------------------------------------------------
(* SendReport_, for the next of the reports the caller makes.              *)

(* Suspended: the host is asked to wake up and the report is forgotten.    *)
SendReport ==
  /\ pc = "idle" /\ todo # <<>>
  /\ IF dev.suspended
       THEN todo' = Tail(todo) /\ pc' = "idle"
       ELSE todo' = todo /\ pc' = "mounted?"
  /\ UNCHANGED <<out, ok, tx_ff_hid, dev, wire, host, away, disturbed, over>>

DropUnmounted ==
  /\ pc = "mounted?" /\ ~dev.mounted
  /\ todo' = Tail(todo) /\ pc' = "idle"
  /\ UNCHANGED <<out, ok, tx_ff_hid, dev, wire, host, away, disturbed, over>>

(* A mouse report is sent at once, whatever waits in the FIFO.             *)
SendMouse ==
  /\ pc = "mounted?" /\ dev.mounted /\ Head(todo).id = "mouse"
  /\ out' = <<Head(todo)>> /\ todo' = Tail(todo) /\ pc' = "claim"
  /\ UNCHANGED <<ok, tx_ff_hid, dev, wire, host, away, disturbed, over>>

Header(r) == SubSeq(FrameOf(r), 1, HeaderLen)
Data(r) == SubSeq(FrameOf(r), HeaderLen + 1, Len(FrameOf(r)))

QueueReport ==
  /\ pc = "mounted?" /\ dev.mounted /\ Head(todo).id # "mouse"
  /\ over' = (over \/ Overflowable(tx_ff_hid) + Len(FrameOf(Head(todo)))
                        > Depth)
  /\ todo' = Tail(todo) /\ pc' = "idle"
  /\ UNCHANGED <<out, ok, dev, wire, host, away, disturbed>>
  /\ \E withHeader \in {WriteN(tx_ff_hid, Header(Head(todo)))} :
       tx_ff_hid' = WriteN(withHeader, Data(Head(todo)))

-----------------------------------------------------------------------------
(* SendLastReport, once per loop, when the FIFO is not empty.              *)

(* The header, and then as many bytes as it says.                          *)
HeadFrame(f) ==
  LET first == PeekN(f, 1)[1] IN
    IF first.byte = 1 THEN PeekN(f, Len(FrameOf(first.of))) ELSE <<first>>

IsWhole(frame) == frame[1].byte = 1 /\ frame = FrameOf(frame[1].of)

SendLastReport ==
  /\ pc = "idle" /\ todo = <<>>
  /\ FifoCount(tx_ff_hid) # 0
  /\ UNCHANGED <<todo, ok, dev, wire, host, away, disturbed, over>>
  /\ tx_ff_hid' = CorrectReadIndex(tx_ff_hid)
  /\ \E frame \in {HeadFrame(tx_ff_hid)} :
       IF IsWhole(frame)
         THEN out' = <<frame[1].of>> /\ pc' = "claim"
         ELSE out' = <<>> /\ pc' = "garbled"

-----------------------------------------------------------------------------
(* tud_hid_n_report.  Without a configuration the interface's endpoint     *)
(* address is 0, and that is the control endpoint's OUT direction.         *)
Ep == IF dev.ep_in THEN "hid" ELSE "ctl"

Claimable(ep) == dev[ep] = "free"

EdptClaim ==
  /\ pc = "claim"
  /\ IF Claimable(Ep)
       THEN dev' = [dev EXCEPT ![Ep] = "claimed"] /\ pc' = "xfer" /\ ok' = ok
       ELSE dev' = dev /\ pc' = "settle" /\ ok' = FALSE
  /\ UNCHANGED <<todo, out, tx_ff_hid, wire, host, away, disturbed, over>>

(* The address is read again: a reset may have come in between.            *)
EdptXfer ==
  /\ pc = "xfer"
  /\ ok' = (dev[Ep] # "busy")
  /\ dev' = [dev EXCEPT ![Ep] = "busy"]
  /\ wire' = IF ok' /\ Ep = "hid" THEN out ELSE wire
  /\ pc' = "settle"
  /\ UNCHANGED <<todo, out, tx_ff_hid, host, away, disturbed, over>>

Discard_Always == TRUE
Discard_IfMounted == (ok /\ dev.mounted) \/ dev.suspended
Discard_IfGivenUp == dev.suspended
Consumed_DataOnly(r) == DataLen(r.id)

(* Who called it decides what is done with the result: nothing for a mouse *)
(* report; a queued one is taken from the FIFO if it was sent or will not  *)
(* be.                                                                     *)
Discard == ok \/ dev.suspended

Consumed(r) == Len(FrameOf(r))

Settle ==
  /\ pc = "settle"
  /\ tx_ff_hid' = IF out[1].id # "mouse" /\ Discard
                    THEN AdvanceReadPointer(tx_ff_hid, Consumed(out[1]))
                    ELSE tx_ff_hid
  /\ pc' = "idle" /\ out' = <<>> /\ ok' = FALSE
  /\ UNCHANGED <<todo, dev, wire, host, away, disturbed, over>>

MainLoop == SendReport \/ DropUnmounted \/ SendMouse \/ QueueReport
            \/ SendLastReport \/ EdptClaim \/ EdptXfer \/ Settle

-----------------------------------------------------------------------------
(* The host and the USB interrupt and task.                                *)

Completed_ClaimKept == [dev EXCEPT !.hid = "claimed"]

Completed == [dev EXCEPT !.hid = "free"]

(* The host takes the report; DCD_EVENT_XFER_COMPLETE frees the endpoint.  *)
Poll ==
  /\ wire # <<>> /\ dev.mounted /\ ~dev.suspended
  /\ host' = [val |-> [host.val EXCEPT ![wire[1].id] = wire[1].val],
              n |-> IF wire[1].id = "mouse" THEN host.n ELSE wire[1].n]
  /\ wire' = <<>>
  /\ dev' = Completed
  /\ UNCHANGED <<todo, pc, out, ok, tx_ff_hid, away, disturbed, over>>

(* A SETUP packet; it may set the configuration, which opens the endpoint. *)
(* The task comes to it after the reset that follows an unplugging.        *)
Setup(configures) ==
  /\ dev.connected \/ ~dev.ep_in
  /\ dev' = IF configures /\ ~dev.mounted
              THEN [dev EXCEPT !.connected = TRUE, !.ctl = "free",
                               !.mounted = TRUE, !.ep_in = TRUE]
              ELSE [dev EXCEPT !.connected = TRUE, !.ctl = "free"]
  /\ UNCHANGED <<todo, pc, out, ok, tx_ff_hid, wire, host, away, disturbed,
                 over>>

Suspend ==
  /\ dev.connected /\ ~dev.suspended
  /\ dev' = [dev EXCEPT !.suspended = TRUE]
  /\ away < MaxAway /\ away' = away + 1 /\ disturbed' = TRUE
  /\ UNCHANGED <<todo, pc, out, ok, tx_ff_hid, wire, host, over>>

Resume ==
  /\ dev.connected /\ dev.suspended
  /\ dev' = [dev EXCEPT !.suspended = FALSE]
  /\ UNCHANGED <<todo, pc, out, ok, tx_ff_hid, wire, host, away, disturbed,
                 over>>

(* The interrupt notes the unplugging; the endpoints stay open until the   *)
(* task comes to the event.                                                *)
Unplug ==
  /\ dev.connected
  /\ dev' = [dev EXCEPT !.connected = FALSE, !.mounted = FALSE,
                        !.suspended = FALSE]
  /\ away < MaxAway /\ away' = away + 1 /\ disturbed' = TRUE
  /\ UNCHANGED <<todo, pc, out, ok, tx_ff_hid, wire, host, over>>

(* usbd_reset, after a bus reset or an unplugging.                         *)
UsbdReset ==
  /\ dev' = Unconfigured
  /\ wire' = <<>>
  /\ IF dev.connected
       THEN away < MaxAway /\ away' = away + 1 /\ disturbed' = TRUE
       ELSE UNCHANGED <<away, disturbed>>
  /\ UNCHANGED <<todo, pc, out, ok, tx_ff_hid, host, over>>

Usb == Poll \/ (\E c \in BOOLEAN : Setup(c)) \/ Suspend \/ Resume \/ Unplug
       \/ UsbdReset
=============================================================================
