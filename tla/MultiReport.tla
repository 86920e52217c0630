----------------------------- MODULE MultiReport ----------------------------
(***************************************************************************)
(* The report classes of src/lib/KeyboardioHID/src/MultiReport: Keyboard_, *)
(* ConsumerControl_ and Mouse_, on top of HidReports.                      *)
(*                                                                         *)
(* A class keeps the report it composes and the last one it sent; press,   *)
(* release and releaseAll only touch the former, and nothing else reads it *)
(* before sendReport makes the two equal.  So an action stands for some of *)
(* these calls and the sendReport after them, and one variable for both.   *)
(* The mouse has one button.  Left out: its movements and SystemControl_,  *)
(* whose reports are sent without a comparison, and Keyboard_::end, which  *)
(* nobody calls.                                                           *)
(***************************************************************************)
EXTENDS HidReports, FiniteSets

CONSTANTS Modifiers, Keys,  \* HID codes of the keyboard
          KeyboardReports,  \* bound: the reports composed, sets of these
          Codes,            \* consumer codes
          Button,
          MaxReports        \* bound: reports made

VARIABLES
  report,           \* report_ of each class, and last_report_ with it
  made, queued      \* reports made, and those of them that go to the FIFO

vars == <<hidVars, report, made, queued>>

ASSUME CodeAssumption ==
  /\ Modifiers \cap Keys = {}
  /\ KeyboardReports \subseteq SUBSET (Modifiers \cup Keys)

Init == HidInit /\ report = [id \in Ids |-> {}] /\ made = 0 /\ queued = 0

-----------------------------------------------------------------------------
Chord_KeysWithModifiers(old, new) == IF old = new THEN <<>> ELSE <<new>>

Chord_PressedForgotten(old, new) ==
  IF old = new THEN <<>>
  ELSE IF old \cap Modifiers = new \cap Modifiers THEN <<new>>
  ELSE << (new \cap Modifiers) \cup (old \cap new) >>

(* What Keyboard_::sendReport sends for a change from old to new.          *)
Chord(old, new) ==
  LET mods(v) == v \cap Modifiers
      keys(v) == v \cap Keys
      kept == keys(old) \cap keys(new)
      remodelled == mods(new) # mods(old)
      atModifiers == IF remodelled THEN kept ELSE keys(old)
  IN (IF remodelled /\ kept # keys(old) THEN <<mods(old) \cup kept>> ELSE <<>>)
     \o (IF remodelled THEN <<mods(new) \cup kept>> ELSE <<>>)
     \o (IF atModifiers # keys(new) THEN <<new>> ELSE <<>>)

(* The other classes only compare the whole report.                        *)
Change(old, new) == IF old = new THEN <<>> ELSE <<new>>

(* Mouse_::click on the button b: released first if it was pressed.        *)
Click(b) == (IF report["mouse"] = {} THEN <<>> ELSE <<{}>>) \o << {b}, {} >>

(* The class composes new, and calls SendReport for vals in this order.    *)
Call(id, new, vals) ==
  /\ pc = "idle" /\ todo = <<>>
  /\ made + Len(vals) <= MaxReports
  /\ todo' = [i \in 1..Len(vals) |->
                [id |-> id, val |-> vals[i], goal |-> new,
                 n |-> IF id = "mouse" THEN 0 ELSE queued + i]]
  /\ report' = [report EXCEPT ![id] = new]
  /\ made' = made + Len(vals)
  /\ queued' = IF id = "mouse" THEN queued ELSE queued + Len(vals)
  /\ disturbed' = (disturbed \/ ~dev.mounted \/ dev.suspended)
  /\ UNCHANGED <<pc, out, ok, tx_ff_hid, dev, wire, host, away, over>>

KeyboardSendReport ==
  \E new \in KeyboardReports :
    Call("keyboard", new, Chord(report["keyboard"], new))

ConsumerSendReport ==
  \E new \in SUBSET Codes :
    Call("consumer", new, Change(report["consumer"], new))

MouseSendReport ==
  \E new \in {{}, {Button}} :
    Call("mouse", new, Change(report["mouse"], new))

MouseClick == Call("mouse", {}, Click(Button))

Caller == KeyboardSendReport \/ ConsumerSendReport \/ MouseSendReport
          \/ MouseClick

Next == \/ Caller
        \/ (MainLoop \/ Usb) /\ UNCHANGED <<report, made, queued>>

(* The loop goes on for ever; a host that is there polls every millisecond *)
Spec == Init /\ [][Next]_vars /\ WF_<<pc, todo>>(MainLoop) /\ WF_wire(Poll)
-----------------------------------------------------------------------------
None == 0       \* no number of a queued report

TypeOK ==
  /\ pc \in {"idle", "mounted?", "claim", "xfer", "settle", "garbled"}
  /\ tx_ff_hid.rd \in Indices /\ tx_ff_hid.wr \in Indices
  /\ \A e \in {"hid", "ctl"} : dev[e] \in {"free", "claimed", "busy"}
  /\ Len(out) <= 1 /\ Len(wire) <= 1
  /\ (pc \in {"claim", "xfer", "settle"}) = (out # <<>>)
  /\ dev.suspended => dev.connected
  /\ dev.mounted => dev.ep_in

IsQueued(n) == n # None
HeaderOf(cell) == cell.byte = 1

JustSent ==     \* bytes at the head of the FIFO
  IF pc = "settle" /\ out[1].n # None /\ ok THEN Len(FrameOf(out[1])) ELSE 0

(* The numbers of the queued reports that are still to be sent: the one on *)
(* the wire, those in the FIFO but for one that was just sent from there,  *)
(* and those the caller has not passed yet.                                *)
UnderWay ==
  LET cells == PeekN(tx_ff_hid, FifoCount(tx_ff_hid))
      headers == {j \in JustSent + 1..Len(cells) : HeaderOf(cells[j])}
  IN {n \in {wire[i].n : i \in DOMAIN wire} \cup {cells[j].of.n : j \in headers}
              \cup {todo[i].n : i \in DOMAIN todo} : IsQueued(n)}

Sound == ~disturbed /\ ~over

(* A host that stays ready gets every queued report, however often the     *)
(* endpoint was busy: of the numbers given so far, exactly those after the *)
(* last one it saw are under way.  That each comes once and in this order  *)
(* is NeverTwice. (hidDefy.cpp:127-151, tusb_fifo.c)                       *)
NothingLost == Sound => UnderWay = host.n + 1..queued

(* Whatever the host does, suspend, unplug or reset at any step, no queued *)
(* report reaches it twice or after a later one; only an overflow of the   *)
(* FIFO may end that. (hidDefy.cpp:142-147)                                *)
NeverTwice ==
  ~over =>
    LET cells == PeekN(tx_ff_hid, FifoCount(tx_ff_hid))
        waiting == JustSent + 1..Len(cells)
        IsNew(n) == host.n < n /\ \A i \in DOMAIN wire : wire[i].n < n
    IN /\ \A i \in DOMAIN wire : IsQueued(wire[i].n) => host.n < wire[i].n
       /\ \A j \in waiting :
            /\ IsNew(cells[j].of.n)
            /\ HeaderOf(cells[j]) =>
                 \A i \in JustSent + 1..j - 1 : cells[i].of.n < cells[j].of.n
       /\ \A j \in DOMAIN todo : IsQueued(todo[j].n) =>
            /\ IsNew(todo[j].n)
            /\ \A i \in waiting : cells[i].of.n < todo[j].n
            /\ \A i \in 1..j - 1 : todo[i].n < todo[j].n

(* As long as nothing was overwritten the FIFO is cut into the very        *)
(* reports that were put into it. (hidDefy.cpp:139-141)                    *)
FramesKept == ~over => pc # "garbled"

(* Between reports no endpoint stays claimed without a transfer, which     *)
(* would stop the keyboard until the next reset. (hid_device.c:85-107)     *)
NoClaimLeft == "claimed" \in {dev.hid, dev.ctl} => pc = "xfer"

(* What the keyboard classes have composed is what the host holds once all *)
(* is delivered. (Keyboard.cpp:144-147, ConsumerControl.cpp:94-105)        *)
HostHoldsLast ==
  Sound => \/ \A id \in Ids \ {"mouse"} : host.val[id] = report[id]
           \/ UnderWay # {}

(* No report the host gets changes modifiers and keys at once; when the    *)
(* modifiers change, the keys to be released are already up, and when a    *)
(* key goes down the modifiers are already those it was pressed with.      *)
(* (Keyboard.cpp:89-113)                                                   *)
ChordOrdered ==
  [][Sound => LET was == host.val["keyboard"]
                  is == host.val'["keyboard"] IN
       /\ \/ was \cap Modifiers = is \cap Modifiers
          \/ was \cap Keys = is \cap Keys
       /\ was \cap Modifiers # is \cap Modifiers =>
            is \cap Keys \subseteq wire[1].goal
       /\ ~((is \cap Keys) \subseteq was) =>
            is \cap Modifiers = wire[1].goal \cap Modifiers]_host

(* Reports do not pile up before a host that is there: again and again     *)
(* either nothing waits, or the host is away, or the FIFO's framing was    *)
(* lost. (hidDefy.cpp:127-151)                                             *)
Drains ==
  []<>((FifoCount(tx_ff_hid) = 0 /\ wire = <<>>)
       \/ ~dev.mounted \/ dev.suspended \/ pc = "garbled")

(* When all is quiet the host holds the mouse buttons the class takes for  *)
(* sent.  (Mouse.cpp:93-95: "Finally, send the report with the button(s)   *)
(* released")                                                              *)
ButtonReleased ==
  Sound /\ pc = "idle" /\ todo = <<>> /\ wire = <<>> =>
    host.val["mouse"] = report["mouse"]
=============================================================================
