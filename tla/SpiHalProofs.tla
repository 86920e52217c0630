---------------------------- MODULE SpiHalProofs ----------------------------
(***************************************************************************)
(* Proofs about SpiHal for buffers of every size.                          *)
(*                                                                         *)
(* Each property speaks of a moment (the slave at rest, a report); the     *)
(* invariants follow what it depends on through the steps of both          *)
(* contexts.  What makes this possible with two contexts in the same code  *)
(* is that the interrupt runs to its end before the main loop goes on, and *)
(* leaves behind what the main loop needs at any of its steps.             *)
(***************************************************************************)
EXTENDS SpiHal, TLAPS

PlaceInv ==
  at \in [main : Steps \cup {"done"},
         irq : Steps \cup {"none", "end", "return"}]

(* Between two handlers, or in the tail of one that changes nothing more.  *)
Settled == at.irq \in {"none", "return"}

(* Steps at which the channel is not triggered yet.                        *)
Preparing == {"start", "transfer", "size", "configure", "trigger"}

(* A transfer is busy from the step that says so to the interrupt that     *)
(* ends it; only then does an interrupt do anything, and none comes while  *)
(* the main loop has masked it.                                            *)
BusyInv ==
  /\ busy <=> /\ at.main \notin {"start", "transfer"}
              /\ at.irq \notin {"start", "transfer"}
  /\ ~Settled => at.main \notin {"start", "transfer"}
  /\ at.irq # "none" => at.main # "set"

(* What the arming has achieved when the context that has the processor is *)
(* at a step; the main loop's steps find the same or better after an       *)
(* interrupt.                                                              *)
Armed(step) ==
  CASE step = "enable" -> dma \/ resend_request
    [] step \in {"sample", "set"} ->
         (dma /\ spi \in {"ready", "on"}) \/ resend_request
    [] step = "done" -> Listening \/ resend_request
    [] OTHER -> TRUE

ArmedInv ==
  /\ Settled => Armed(at.main)
  /\ ~Settled /\ at.irq # "end" =>
       Armed(at.irq) /\ ~resend_request /\ spi # "on"
  /\ spi = "deaf" => at.main = "done" /\ (Settled \/ at.irq = "end")
  /\ at.main = "done" /\ at.irq = "end" => Listening \/ resend_request
  /\ at.irq \in Preparing => ~dma
  /\ at.irq \in Preparing \cup {"enable"} => spi = "reset"

(* The interrupt's own steps of the channel, which nothing comes between.  *)
ChannelInv ==
  /\ at.irq \in {"configure", "trigger"} => size = RxBufferSize("irq")
  /\ at.irq = "trigger" => reload = size
  /\ at.irq \in {"enable", "sample", "set", "disable", "stop"} =>
       left = size /\ size = RxBufferSize("irq") /\ got = 0

(* Between two selections the channel waits as it was triggered last.  The *)
(* main loop may have renewed the remembered size of an interrupt's        *)
(* transfer behind its back; that is only seen with the dummy byte, whose  *)
(* size is not the main loop's.                                            *)
Quiet == Settled /\ cs_high /\ ~edge /\ ~resend_request

RestInv ==
  /\ Quiet /\ dma =>
       /\ got = 0 /\ left = IF input THEN MaxCount ELSE 1
       /\ size \in {left, MaxCount}
  /\ at.main \in {"start", "transfer"} => ~dma
  /\ at.main = "transfer" => input
  /\ Quiet /\ ~dma =>
       /\ at.main \in {"size", "configure", "trigger"} => input
       /\ at.main \in {"configure", "trigger"} => size = MaxCount
       /\ at.main = "trigger" => reload = MaxCount

(* The dummy byte stands in for a disabled input.                          *)
DummyInv == busy => dummy_in_used = ~input

(* After spils_init the difference that is reported is what was received.  *)
LengthInv ==
  ~early /\ ~resend_request /\ (Settled \/ at.irq = "end") /\ input =>
    size - left = got

(* Something will end the transfer that is, or is going to be, armed,      *)
(* though the master has not selected the slave anew.                      *)
Pending == ~cs_high \/ edge \/ at.irq = "end"

(* No transfer that is armed in the middle of a selection receives a byte  *)
(* of it: whoever arms one looks at the chip select.                       *)
Deaf ==
  /\ Pending => \/ size = left \/ resend_request
                \/ at.irq \in Preparing \cup {"resend"}
  /\ ~cs_high => spi # "on" /\ at.main # "set" /\ at.irq # "set"

(* That holds of a selection that has been reported; in the middle of it   *)
(* the interrupt has put the next transfer off.                            *)
ReportedInv ==
  reported =>
    /\ Deaf
    /\ at.main \notin {"start", "transfer"}
    /\ ~cs_high /\ (Settled \/ at.irq = "end") => resend_request

(* And, once spils_init is done, of one that the slave missed a byte of,   *)
(* unless the transfer is going to be sent again anyway.                   *)
MissedInv ==
  /\ ~early => at.main = "done"
  /\ missed /\ ~early => resend_request \/ Deaf

(* A selection that found the slave ready goes its way from the first byte *)
(* to the report.                                                          *)
HeardInv ==
  inTime =>
    /\ at.main = "done"
    /\ \/ reported
       \/ ~clocked /\ cs_high
       \/ /\ ~resend_request
          /\ IF clocked THEN left < size ELSE 0 < left /\ left <= size
          /\ \/ at.irq = "none" /\ Listening /\ (edge <=> cs_high)
             \/ at.irq = "end" /\ cs_high

IInv == /\ TypeOK /\ PlaceInv /\ BusyInv /\ ArmedInv /\ ChannelInv
        /\ RestInv /\ DummyInv /\ LengthInv
        /\ ReportedInv /\ MissedInv /\ HeardInv

-----------------------------------------------------------------------------
(* Where the two contexts are after a step of one.                         *)
LEMMA GotoFacts ==
  ASSUME PlaceInv, NEW c \in Contexts, NEW from, NEW to, Goto(c, from, to)
  PROVE  /\ c = "main" => /\ at.main = from /\ at.irq = "none"
                          /\ at'.main = to /\ at'.irq = "none"
                          /\ from \in {"sample", "set"} \/ ~edge
         /\ c = "irq" => /\ at.irq = from
                         /\ at'.irq = to /\ at'.main = at.main
         /\ at' = [main |-> at'.main, irq |-> at'.irq]
BY DEF PlaceInv, Goto, IrqDue, Contexts

LEMMA InitInv == Init => IInv
<1> SUFFICES ASSUME Init PROVE IInv
  OBVIOUS
<1>1. /\ cs_high \in BOOLEAN /\ edge \in BOOLEAN /\ dma \in BOOLEAN
      /\ busy \in BOOLEAN /\ resend_request \in BOOLEAN
      /\ dummy_in_used \in BOOLEAN /\ input \in BOOLEAN
      /\ early \in BOOLEAN /\ inTime \in BOOLEAN
      /\ clocked \in BOOLEAN /\ missed \in BOOLEAN /\ reported \in BOOLEAN
  BY DEF Init
<1>2. TypeOK /\ PlaceInv
  BY <1>1, CountAssumption DEF Init, TypeOK, PlaceInv, Steps
<1>3. BusyInv /\ ArmedInv /\ ChannelInv /\ RestInv /\ DummyInv /\ LengthInv
  BY DEF Init, BusyInv, Settled, ArmedInv, Armed, Preparing, ChannelInv,
         RestInv, DummyInv, LengthInv
<1>4. ReportedInv /\ MissedInv /\ HeardInv
  BY DEF Init, ReportedInv, MissedInv, HeardInv
<1> QED BY <1>2, <1>3, <1>4 DEF IInv

(***************************************************************************)
(* The arming, in either context.                                          *)
(***************************************************************************)

LEMMA TransferStartInv ==
  ASSUME IInv, NEW c \in Contexts, TransferStart(c) PROVE IInv'
<1> USE GotoFacts
    DEF IInv, TypeOK, PlaceInv, BusyInv, ArmedInv, Armed, DummyInv,
        ReportedInv, MissedInv, HeardInv, Deaf, Pending, Listening, Finished,
        Settled, Preparing, ChannelInv, RestInv, Quiet, LengthInv,
        RxBufferSize, line, channel, flags, ghosts, Contexts, Steps
<1>0. input' \in BOOLEAN
  BY CountAssumption DEF TransferStart
<1>1. CASE c = "main"
  <2>1. TypeOK' /\ PlaceInv'
    BY <1>0, <1>1 DEF TransferStart
  <2>2. BusyInv' /\ DummyInv'
    BY <1>0, <1>1 DEF TransferStart
  <2>3. ArmedInv'
    BY <1>0, <1>1 DEF TransferStart
  <2>4. ChannelInv' /\ RestInv'
    <3>1. input' /\ at'.main = "transfer" /\ at'.irq = "none"
      BY <1>1 DEF TransferStart
    <3> QED BY <1>0, <1>1, <3>1 DEF TransferStart
  <2>5. LengthInv'
    BY <1>0, <1>1 DEF TransferStart
  <2>6. ReportedInv'
    BY <1>0, <1>1 DEF TransferStart
  <2>7. MissedInv'
    BY <1>0, <1>1 DEF TransferStart
  <2>8. HeardInv'
    BY <1>0, <1>1 DEF TransferStart
  <2> QED BY <2>1, <2>2, <2>3, <2>4, <2>5, <2>6, <2>7, <2>8
<1>2. CASE c = "irq"
  <2>1. TypeOK' /\ PlaceInv'
    BY <1>0, <1>2 DEF TransferStart
  <2>2. BusyInv' /\ DummyInv'
    BY <1>0, <1>2 DEF TransferStart
  <2>3. ArmedInv'
    BY <1>0, <1>2 DEF TransferStart
  <2>4. ChannelInv' /\ RestInv'
    BY <1>0, <1>2 DEF TransferStart
  <2>5. LengthInv'
    BY <1>0, <1>2 DEF TransferStart
  <2>6. ReportedInv'
    BY <1>0, <1>2 DEF TransferStart
  <2>7. MissedInv'
    BY <1>0, <1>2 DEF TransferStart
  <2>8. HeardInv'
    BY <1>0, <1>2 DEF TransferStart
  <2> QED BY <2>1, <2>2, <2>3, <2>4, <2>5, <2>6, <2>7, <2>8
<1> QED BY <1>1, <1>2 DEF Contexts

LEMMA TransferInv ==
  ASSUME IInv, NEW c \in Contexts, Transfer(c) PROVE IInv'
<1> USE GotoFacts
    DEF IInv, TypeOK, PlaceInv, BusyInv, ArmedInv, Armed, DummyInv,
        ReportedInv, MissedInv, HeardInv, Deaf, Pending, Listening, Finished,
        Settled, Preparing, ChannelInv, RestInv, Quiet, LengthInv,
        RxBufferSize, line, channel, flags, ghosts, Contexts, Steps
<1>0. busy' \in BOOLEAN /\ dummy_in_used' \in BOOLEAN
  BY CountAssumption DEF Transfer
<1>1. CASE c = "main"
  <2>1. TypeOK' /\ PlaceInv'
    BY <1>0, <1>1 DEF Transfer
  <2>2. BusyInv' /\ DummyInv'
    BY <1>0, <1>1 DEF Transfer
  <2>3. ArmedInv'
    BY <1>0, <1>1 DEF Transfer
  <2>4. ChannelInv' /\ RestInv'
    BY <1>0, <1>1 DEF Transfer
  <2>5. LengthInv'
    BY <1>0, <1>1 DEF Transfer
  <2>6. ReportedInv'
    BY <1>0, <1>1 DEF Transfer
  <2>7. MissedInv'
    BY <1>0, <1>1 DEF Transfer
  <2>8. HeardInv'
    BY <1>0, <1>1 DEF Transfer
  <2> QED BY <2>1, <2>2, <2>3, <2>4, <2>5, <2>6, <2>7, <2>8
<1>2. CASE c = "irq"
  <2>1. TypeOK' /\ PlaceInv'
    BY <1>0, <1>2 DEF Transfer
  <2>2. BusyInv' /\ DummyInv'
    BY <1>0, <1>2 DEF Transfer
  <2>3. ArmedInv'
    BY <1>0, <1>2 DEF Transfer
  <2>4. ChannelInv' /\ RestInv'
    BY <1>0, <1>2 DEF Transfer
  <2>5. LengthInv'
    BY <1>0, <1>2 DEF Transfer
  <2>6. ReportedInv'
    BY <1>0, <1>2 DEF Transfer
  <2>7. MissedInv'
    BY <1>0, <1>2 DEF Transfer
  <2>8. HeardInv'
    BY <1>0, <1>2 DEF Transfer
  <2> QED BY <2>1, <2>2, <2>3, <2>4, <2>5, <2>6, <2>7, <2>8
<1> QED BY <1>1, <1>2 DEF Contexts

LEMMA DmaSizeInv ==
  ASSUME IInv, NEW c \in Contexts, DmaSize(c) PROVE IInv'
<1> USE GotoFacts
    DEF IInv, TypeOK, PlaceInv, BusyInv, ArmedInv, Armed, DummyInv,
        ReportedInv, MissedInv, HeardInv, Deaf, Pending, Listening, Finished,
        Settled, Preparing, ChannelInv, RestInv, Quiet, LengthInv,
        RxBufferSize, line, channel, flags, ghosts, Contexts, Steps
<1>0. RxBufferSize(c) \in 1..MaxCount
  BY CountAssumption DEF DmaSize
<1>1. CASE c = "main"
  <2>1. TypeOK' /\ PlaceInv'
    BY <1>0, <1>1 DEF DmaSize
  <2>2. BusyInv' /\ DummyInv'
    BY <1>0, <1>1 DEF DmaSize
  <2>3. ArmedInv'
    BY <1>0, <1>1 DEF DmaSize
  <2>4. ChannelInv' /\ RestInv'
    BY <1>0, <1>1 DEF DmaSize
  <2>5. LengthInv'
    BY <1>0, <1>1 DEF DmaSize
  <2>6. ReportedInv'
    BY <1>0, <1>1 DEF DmaSize
  <2>7. MissedInv'
    BY <1>0, <1>1 DEF DmaSize
  <2>8. HeardInv'
    BY <1>0, <1>1 DEF DmaSize
  <2> QED BY <2>1, <2>2, <2>3, <2>4, <2>5, <2>6, <2>7, <2>8
<1>2. CASE c = "irq"
  <2>1. TypeOK' /\ PlaceInv'
    BY <1>0, <1>2 DEF DmaSize
  <2>2. BusyInv' /\ DummyInv'
    BY <1>0, <1>2 DEF DmaSize
  <2>3. ArmedInv'
    BY <1>0, <1>2 DEF DmaSize
  <2>4. ChannelInv' /\ RestInv'
    BY <1>0, <1>2 DEF DmaSize
  <2>5. LengthInv'
    BY <1>0, <1>2 DEF DmaSize
  <2>6. ReportedInv'
    BY <1>0, <1>2 DEF DmaSize
  <2>7. MissedInv'
    BY <1>0, <1>2 DEF DmaSize
  <2>8. HeardInv'
    BY <1>0, <1>2 DEF DmaSize
  <2> QED BY <2>1, <2>2, <2>3, <2>4, <2>5, <2>6, <2>7, <2>8
<1> QED BY <1>1, <1>2 DEF Contexts

LEMMA DmaConfigureInv ==
  ASSUME IInv, NEW c \in Contexts, DmaConfigure(c) PROVE IInv'
<1> USE GotoFacts
    DEF IInv, TypeOK, PlaceInv, BusyInv, ArmedInv, Armed, DummyInv,
        ReportedInv, MissedInv, HeardInv, Deaf, Pending, Listening, Finished,
        Settled, Preparing, ChannelInv, RestInv, Quiet, LengthInv,
        RxBufferSize, line, channel, flags, ghosts, Contexts, Steps
<1>0. missed' \in BOOLEAN /\ RxBufferSize(c) \in 1..MaxCount
  BY CountAssumption DEF DmaConfigure
<1>1. CASE c = "main"
  <2>1. TypeOK' /\ PlaceInv'
    <3>1. left' \in 0..MaxCount /\ got' \in 0..(MaxCount - left')
      BY <1>1, CountAssumption DEF DmaConfigure
    <3>2. PlaceInv'
      BY <1>1 DEF DmaConfigure
    <3> QED BY <1>0, <1>1, <3>1, <3>2 DEF DmaConfigure
  <2>2. BusyInv' /\ DummyInv'
    BY <1>0, <1>1 DEF DmaConfigure
  <2>3. ArmedInv'
    BY <1>0, <1>1 DEF DmaConfigure
  <2>4. ChannelInv' /\ RestInv'
    BY <1>0, <1>1 DEF DmaConfigure
  <2>5. LengthInv'
    BY <1>0, <1>1 DEF DmaConfigure
  <2>6. ReportedInv'
    BY <1>0, <1>1 DEF DmaConfigure
  <2>7. MissedInv'
    BY <1>0, <1>1 DEF DmaConfigure
  <2>8. HeardInv'
    BY <1>0, <1>1 DEF DmaConfigure
  <2> QED BY <2>1, <2>2, <2>3, <2>4, <2>5, <2>6, <2>7, <2>8
<1>2. CASE c = "irq"
  <2>1. TypeOK' /\ PlaceInv'
    <3>1. left' \in 0..MaxCount /\ got' \in 0..(MaxCount - left')
      BY <1>2, CountAssumption DEF DmaConfigure
    <3>2. PlaceInv'
      BY <1>2 DEF DmaConfigure
    <3> QED BY <1>0, <1>2, <3>1, <3>2 DEF DmaConfigure
  <2>2. BusyInv' /\ DummyInv'
    BY <1>0, <1>2 DEF DmaConfigure
  <2>3. ArmedInv'
    BY <1>0, <1>2 DEF DmaConfigure
  <2>4. ChannelInv' /\ RestInv'
    BY <1>0, <1>2 DEF DmaConfigure
  <2>5. LengthInv'
    BY <1>0, <1>2 DEF DmaConfigure
  <2>6. ReportedInv'
    BY <1>0, <1>2 DEF DmaConfigure
  <2>7. MissedInv'
    BY <1>0, <1>2 DEF DmaConfigure
  <2>8. HeardInv'
    BY <1>0, <1>2 DEF DmaConfigure
  <2> QED BY <2>1, <2>2, <2>3, <2>4, <2>5, <2>6, <2>7, <2>8
<1> QED BY <1>1, <1>2 DEF Contexts

LEMMA DmaTriggerInv ==
  ASSUME IInv, NEW c \in Contexts, DmaTrigger(c) PROVE IInv'
<1> USE GotoFacts
    DEF IInv, TypeOK, PlaceInv, BusyInv, ArmedInv, Armed, DummyInv,
        ReportedInv, MissedInv, HeardInv, Deaf, Pending, Listening, Finished,
        Settled, Preparing, ChannelInv, RestInv, Quiet, LengthInv,
        RxBufferSize, line, channel, flags, ghosts, Contexts, Steps
<1>0. dma' \in BOOLEAN
  BY CountAssumption DEF DmaTrigger
<1>1. CASE c = "main"
  <2>1. TypeOK' /\ PlaceInv'
    <3>1. left' \in 0..MaxCount /\ got' \in 0..(MaxCount - left')
      BY <1>1, CountAssumption DEF DmaTrigger
    <3>2. PlaceInv'
      BY <1>1 DEF DmaTrigger
    <3> QED BY <1>0, <1>1, <3>1, <3>2 DEF DmaTrigger
  <2>2. BusyInv' /\ DummyInv'
    BY <1>0, <1>1 DEF DmaTrigger
  <2>3. ArmedInv'
    BY <1>0, <1>1 DEF DmaTrigger
  <2>4. ChannelInv' /\ RestInv'
    BY <1>0, <1>1 DEF DmaTrigger
  <2>5. LengthInv'
    BY <1>0, <1>1 DEF DmaTrigger
  <2>6. ReportedInv'
    BY <1>0, <1>1 DEF DmaTrigger
  <2>7. MissedInv'
    BY <1>0, <1>1 DEF DmaTrigger
  <2>8. HeardInv'
    BY <1>0, <1>1 DEF DmaTrigger
  <2> QED BY <2>1, <2>2, <2>3, <2>4, <2>5, <2>6, <2>7, <2>8
<1>2. CASE c = "irq"
  <2>1. TypeOK' /\ PlaceInv'
    <3>1. left' \in 0..MaxCount /\ got' \in 0..(MaxCount - left')
      BY <1>2, CountAssumption DEF DmaTrigger
    <3>2. PlaceInv'
      BY <1>2 DEF DmaTrigger
    <3> QED BY <1>0, <1>2, <3>1, <3>2 DEF DmaTrigger
  <2>2. BusyInv' /\ DummyInv'
    BY <1>0, <1>2 DEF DmaTrigger
  <2>3. ArmedInv'
    BY <1>0, <1>2 DEF DmaTrigger
  <2>4. ChannelInv' /\ RestInv'
    BY <1>0, <1>2 DEF DmaTrigger
  <2>5. LengthInv'
    BY <1>0, <1>2 DEF DmaTrigger
  <2>6. ReportedInv'
    BY <1>0, <1>2 DEF DmaTrigger
  <2>7. MissedInv'
    BY <1>0, <1>2 DEF DmaTrigger
  <2>8. HeardInv'
    BY <1>0, <1>2 DEF DmaTrigger
  <2> QED BY <2>1, <2>2, <2>3, <2>4, <2>5, <2>6, <2>7, <2>8
<1> QED BY <1>1, <1>2 DEF Contexts

LEMMA TransferEnableInv ==
  ASSUME IInv, NEW c \in Contexts, TransferEnable(c) PROVE IInv'
<1> USE GotoFacts
    DEF IInv, TypeOK, PlaceInv, BusyInv, ArmedInv, Armed, DummyInv,
        ReportedInv, MissedInv, HeardInv, Deaf, Pending, Listening, Finished,
        Settled, Preparing, ChannelInv, RestInv, Quiet, LengthInv,
        RxBufferSize, line, channel, flags, ghosts, Contexts, Steps
<1>1. CASE c = "main"
  <2>1. TypeOK' /\ PlaceInv'
    BY <1>1 DEF TransferEnable
  <2>2. BusyInv' /\ DummyInv'
    BY <1>1 DEF TransferEnable
  <2>3. ArmedInv'
    BY <1>1 DEF TransferEnable
  <2>4. ChannelInv' /\ RestInv'
    BY <1>1 DEF TransferEnable
  <2>5. LengthInv'
    BY <1>1 DEF TransferEnable
  <2>6. ReportedInv'
    BY <1>1 DEF TransferEnable
  <2>7. MissedInv'
    BY <1>1 DEF TransferEnable
  <2>8. HeardInv'
    BY <1>1 DEF TransferEnable
  <2> QED BY <2>1, <2>2, <2>3, <2>4, <2>5, <2>6, <2>7, <2>8
<1>2. CASE c = "irq"
  <2>1. TypeOK' /\ PlaceInv'
    BY <1>2 DEF TransferEnable
  <2>2. BusyInv' /\ DummyInv'
    BY <1>2 DEF TransferEnable
  <2>3. ArmedInv'
    BY <1>2 DEF TransferEnable
  <2>4. ChannelInv' /\ RestInv'
    BY <1>2 DEF TransferEnable
  <2>5. LengthInv'
    BY <1>2 DEF TransferEnable
  <2>6. ReportedInv'
    BY <1>2 DEF TransferEnable
  <2>7. MissedInv'
    BY <1>2 DEF TransferEnable
  <2>8. HeardInv'
    BY <1>2 DEF TransferEnable
  <2> QED BY <2>1, <2>2, <2>3, <2>4, <2>5, <2>6, <2>7, <2>8
<1> QED BY <1>1, <1>2 DEF Contexts

LEMMA SpiEnableSampleInv ==
  ASSUME IInv, NEW c \in Contexts, SpiEnableSample(c) PROVE IInv'
<1> USE GotoFacts
    DEF IInv, TypeOK, PlaceInv, BusyInv, ArmedInv, Armed, DummyInv,
        ReportedInv, MissedInv, HeardInv, Deaf, Pending, Listening, Finished,
        Settled, Preparing, ChannelInv, RestInv, Quiet, LengthInv,
        RxBufferSize, line, channel, flags, ghosts, Contexts, Steps
<1>1. CASE c = "main"
  <2>1. TypeOK' /\ PlaceInv'
    BY <1>1 DEF SpiEnableSample
  <2>2. BusyInv' /\ DummyInv'
    BY <1>1 DEF SpiEnableSample
  <2>3. ArmedInv'
    BY <1>1 DEF SpiEnableSample
  <2>4. ChannelInv' /\ RestInv'
    BY <1>1 DEF SpiEnableSample
  <2>5. LengthInv'
    BY <1>1 DEF SpiEnableSample
  <2>6. ReportedInv'
    BY <1>1 DEF SpiEnableSample
  <2>7. MissedInv'
    BY <1>1 DEF SpiEnableSample
  <2>8. HeardInv'
    BY <1>1 DEF SpiEnableSample
  <2> QED BY <2>1, <2>2, <2>3, <2>4, <2>5, <2>6, <2>7, <2>8
<1>2. CASE c = "irq"
  <2>1. TypeOK' /\ PlaceInv'
    BY <1>2 DEF SpiEnableSample
  <2>2. BusyInv' /\ DummyInv'
    BY <1>2 DEF SpiEnableSample
  <2>3. ArmedInv'
    BY <1>2 DEF SpiEnableSample
  <2>4. ChannelInv' /\ RestInv'
    BY <1>2 DEF SpiEnableSample
  <2>5. LengthInv'
    BY <1>2 DEF SpiEnableSample
  <2>6. ReportedInv'
    BY <1>2 DEF SpiEnableSample
  <2>7. MissedInv'
    BY <1>2 DEF SpiEnableSample
  <2>8. HeardInv'
    BY <1>2 DEF SpiEnableSample
  <2> QED BY <2>1, <2>2, <2>3, <2>4, <2>5, <2>6, <2>7, <2>8
<1> QED BY <1>1, <1>2 DEF Contexts

LEMMA SpiEnableSetInv ==
  ASSUME IInv, NEW c \in Contexts, SpiEnableSet(c) PROVE IInv'
<1> USE GotoFacts
    DEF IInv, TypeOK, PlaceInv, BusyInv, ArmedInv, Armed, DummyInv,
        ReportedInv, MissedInv, HeardInv, Deaf, Pending, Listening, Finished,
        Settled, Preparing, ChannelInv, RestInv, Quiet, LengthInv,
        RxBufferSize, line, channel, flags, ghosts, Contexts, Steps
<1>1. CASE c = "main"
  <2>1. TypeOK' /\ PlaceInv'
    BY <1>1 DEF SpiEnableSet
  <2>2. BusyInv' /\ DummyInv'
    BY <1>1 DEF SpiEnableSet
  <2>3. ArmedInv'
    BY <1>1 DEF SpiEnableSet
  <2>4. ChannelInv' /\ RestInv'
    BY <1>1 DEF SpiEnableSet
  <2>5. LengthInv'
    BY <1>1 DEF SpiEnableSet
  <2>6. ReportedInv'
    BY <1>1 DEF SpiEnableSet
  <2>7. MissedInv'
    BY <1>1 DEF SpiEnableSet
  <2>8. HeardInv'
    BY <1>1 DEF SpiEnableSet
  <2> QED BY <2>1, <2>2, <2>3, <2>4, <2>5, <2>6, <2>7, <2>8
<1>2. CASE c = "irq"
  <2>1. TypeOK' /\ PlaceInv'
    BY <1>2 DEF SpiEnableSet
  <2>2. BusyInv' /\ DummyInv'
    BY <1>2 DEF SpiEnableSet
  <2>3. ArmedInv'
    BY <1>2 DEF SpiEnableSet
  <2>4. ChannelInv' /\ RestInv'
    BY <1>2 DEF SpiEnableSet
  <2>5. LengthInv'
    BY <1>2 DEF SpiEnableSet
  <2>6. ReportedInv'
    BY <1>2 DEF SpiEnableSet
  <2>7. MissedInv'
    BY <1>2 DEF SpiEnableSet
  <2>8. HeardInv'
    BY <1>2 DEF SpiEnableSet
  <2> QED BY <2>1, <2>2, <2>3, <2>4, <2>5, <2>6, <2>7, <2>8
<1> QED BY <1>1, <1>2 DEF Contexts

LEMMA SpiDisableInv ==
  ASSUME IInv, NEW c \in Contexts, SpiDisable(c) PROVE IInv'
<1> USE GotoFacts
    DEF IInv, TypeOK, PlaceInv, BusyInv, ArmedInv, Armed, DummyInv,
        ReportedInv, MissedInv, HeardInv, Deaf, Pending, Listening, Finished,
        Settled, Preparing, ChannelInv, RestInv, Quiet, LengthInv,
        RxBufferSize, line, channel, flags, ghosts, Contexts, Steps
<1>1. CASE c = "main"
  <2>1. TypeOK' /\ PlaceInv'
    BY <1>1 DEF SpiDisable
  <2>2. BusyInv' /\ DummyInv'
    BY <1>1 DEF SpiDisable
  <2>3. ArmedInv'
    BY <1>1 DEF SpiDisable
  <2>4. ChannelInv' /\ RestInv'
    BY <1>1 DEF SpiDisable
  <2>5. LengthInv'
    BY <1>1 DEF SpiDisable
  <2>6. ReportedInv'
    BY <1>1 DEF SpiDisable
  <2>7. MissedInv'
    BY <1>1 DEF SpiDisable
  <2>8. HeardInv'
    BY <1>1 DEF SpiDisable
  <2> QED BY <2>1, <2>2, <2>3, <2>4, <2>5, <2>6, <2>7, <2>8
<1>2. CASE c = "irq"
  <2>1. TypeOK' /\ PlaceInv'
    BY <1>2 DEF SpiDisable
  <2>2. BusyInv' /\ DummyInv'
    BY <1>2 DEF SpiDisable
  <2>3. ArmedInv'
    BY <1>2 DEF SpiDisable
  <2>4. ChannelInv' /\ RestInv'
    BY <1>2 DEF SpiDisable
  <2>5. LengthInv'
    BY <1>2 DEF SpiDisable
  <2>6. ReportedInv'
    BY <1>2 DEF SpiDisable
  <2>7. MissedInv'
    BY <1>2 DEF SpiDisable
  <2>8. HeardInv'
    BY <1>2 DEF SpiDisable
  <2> QED BY <2>1, <2>2, <2>3, <2>4, <2>5, <2>6, <2>7, <2>8
<1> QED BY <1>1, <1>2 DEF Contexts

LEMMA DmaStopInv ==
  ASSUME IInv, NEW c \in Contexts, DmaStop(c) PROVE IInv'
<1> USE GotoFacts
    DEF IInv, TypeOK, PlaceInv, BusyInv, ArmedInv, Armed, DummyInv,
        ReportedInv, MissedInv, HeardInv, Deaf, Pending, Listening, Finished,
        Settled, Preparing, ChannelInv, RestInv, Quiet, LengthInv,
        RxBufferSize, line, channel, flags, ghosts, Contexts, Steps
<1>0. dma' \in BOOLEAN
  BY CountAssumption DEF DmaStop
<1>1. CASE c = "main"
  <2>1. TypeOK' /\ PlaceInv'
    <3>1. left' \in 0..MaxCount /\ got' \in 0..(MaxCount - left')
      BY <1>1, CountAssumption DEF DmaStop
    <3>2. PlaceInv'
      BY <1>1 DEF DmaStop
    <3> QED BY <1>0, <1>1, <3>1, <3>2 DEF DmaStop
  <2>2. BusyInv' /\ DummyInv'
    BY <1>0, <1>1 DEF DmaStop
  <2>3. ArmedInv'
    BY <1>0, <1>1 DEF DmaStop
  <2>4. ChannelInv' /\ RestInv'
    BY <1>0, <1>1 DEF DmaStop
  <2>5. LengthInv'
    BY <1>0, <1>1 DEF DmaStop
  <2>6. ReportedInv'
    BY <1>0, <1>1 DEF DmaStop
  <2>7. MissedInv'
    BY <1>0, <1>1 DEF DmaStop
  <2>8. HeardInv'
    BY <1>0, <1>1 DEF DmaStop
  <2> QED BY <2>1, <2>2, <2>3, <2>4, <2>5, <2>6, <2>7, <2>8
<1>2. CASE c = "irq"
  <2>1. TypeOK' /\ PlaceInv'
    <3>1. left' \in 0..MaxCount /\ got' \in 0..(MaxCount - left')
      BY <1>2, CountAssumption DEF DmaStop
    <3>2. PlaceInv'
      BY <1>2 DEF DmaStop
    <3> QED BY <1>0, <1>2, <3>1, <3>2 DEF DmaStop
  <2>2. BusyInv' /\ DummyInv'
    BY <1>0, <1>2 DEF DmaStop
  <2>3. ArmedInv'
    BY <1>0, <1>2 DEF DmaStop
  <2>4. ChannelInv' /\ RestInv'
    BY <1>0, <1>2 DEF DmaStop
  <2>5. LengthInv'
    BY <1>0, <1>2 DEF DmaStop
  <2>6. ReportedInv'
    BY <1>0, <1>2 DEF DmaStop
  <2>7. MissedInv'
    BY <1>0, <1>2 DEF DmaStop
  <2>8. HeardInv'
    BY <1>0, <1>2 DEF DmaStop
  <2> QED BY <2>1, <2>2, <2>3, <2>4, <2>5, <2>6, <2>7, <2>8
<1> QED BY <1>1, <1>2 DEF Contexts

LEMMA ResendRequestInv ==
  ASSUME IInv, NEW c \in Contexts, ResendRequest(c) PROVE IInv'
<1> USE GotoFacts
    DEF IInv, TypeOK, PlaceInv, BusyInv, ArmedInv, Armed, DummyInv,
        ReportedInv, MissedInv, HeardInv, Deaf, Pending, Listening, Finished,
        Settled, Preparing, ChannelInv, RestInv, Quiet, LengthInv,
        RxBufferSize, line, channel, flags, ghosts, Contexts, Steps
<1>0. resend_request' \in BOOLEAN
  BY CountAssumption DEF ResendRequest
<1>1. CASE c = "main"
  <2>1. TypeOK' /\ PlaceInv'
    BY <1>0, <1>1 DEF ResendRequest
  <2>2. BusyInv' /\ DummyInv'
    BY <1>0, <1>1 DEF ResendRequest
  <2>3. ArmedInv'
    BY <1>0, <1>1 DEF ResendRequest
  <2>4. ChannelInv' /\ RestInv'
    BY <1>0, <1>1 DEF ResendRequest
  <2>5. LengthInv'
    BY <1>0, <1>1 DEF ResendRequest
  <2>6. ReportedInv'
    BY <1>0, <1>1 DEF ResendRequest
  <2>7. MissedInv'
    BY <1>0, <1>1 DEF ResendRequest
  <2>8. HeardInv'
    BY <1>0, <1>1 DEF ResendRequest
  <2> QED BY <2>1, <2>2, <2>3, <2>4, <2>5, <2>6, <2>7, <2>8
<1>2. CASE c = "irq"
  <2>1. TypeOK' /\ PlaceInv'
    BY <1>0, <1>2 DEF ResendRequest
  <2>2. BusyInv' /\ DummyInv'
    BY <1>0, <1>2 DEF ResendRequest
  <2>3. ArmedInv'
    BY <1>0, <1>2 DEF ResendRequest
  <2>4. ChannelInv' /\ RestInv'
    BY <1>0, <1>2 DEF ResendRequest
  <2>5. LengthInv'
    BY <1>0, <1>2 DEF ResendRequest
  <2>6. ReportedInv'
    BY <1>0, <1>2 DEF ResendRequest
  <2>7. MissedInv'
    BY <1>0, <1>2 DEF ResendRequest
  <2>8. HeardInv'
    BY <1>0, <1>2 DEF ResendRequest
  <2> QED BY <2>1, <2>2, <2>3, <2>4, <2>5, <2>6, <2>7, <2>8
<1> QED BY <1>1, <1>2 DEF Contexts

LEMMA ArmingInv ==
  ASSUME IInv, NEW c \in Contexts, Arming(c) PROVE IInv'
BY TransferStartInv, TransferInv, DmaSizeInv, DmaConfigureInv, DmaTriggerInv,
   TransferEnableInv, SpiEnableSampleInv, SpiEnableSetInv, SpiDisableInv,
   DmaStopInv, ResendRequestInv DEF Arming

-----------------------------------------------------------------------------
(***************************************************************************)
(* The master and the chip-select interrupt.                               *)
(***************************************************************************)

LEMMA CsFallInv ==
  ASSUME IInv, CsFall PROVE IInv'
<1> USE DEF IInv, TypeOK, PlaceInv, BusyInv, ArmedInv, Armed, DummyInv,
        ReportedInv, MissedInv, HeardInv, Deaf, Pending, Listening, Finished,
        Settled, Preparing, ChannelInv, RestInv, Quiet, LengthInv,
        RxBufferSize, line, channel, flags, ghosts, Contexts, Steps
<1>0. /\ cs_high' \in BOOLEAN
      /\ early' \in BOOLEAN
      /\ inTime' \in BOOLEAN
      /\ clocked' \in BOOLEAN
      /\ missed' \in BOOLEAN
      /\ reported' \in BOOLEAN
  BY DEF CsFall, SlaveIsDone
<1>1. TypeOK' /\ PlaceInv'
  BY <1>0 DEF CsFall, SlaveIsDone
<1>2. BusyInv' /\ DummyInv'
  BY <1>0 DEF CsFall, SlaveIsDone
<1>3. ArmedInv'
  BY <1>0 DEF CsFall, SlaveIsDone
<1>4. ChannelInv' /\ RestInv'
  BY <1>0 DEF CsFall, SlaveIsDone
<1>5. LengthInv'
  BY <1>0 DEF CsFall, SlaveIsDone
<1>6. ReportedInv'
  BY <1>0 DEF CsFall, SlaveIsDone
<1>7. MissedInv'
  BY <1>0 DEF CsFall, SlaveIsDone
<1>8. HeardInv'
  <2>1. inTime' => /\ at.main = "done" /\ at.irq = "none" /\ ~edge /\ cs_high
                   /\ Listening /\ ~resend_request
    BY DEF CsFall, SlaveIsDone
  <2>2. inTime' => 0 < left /\ left <= size
    BY <2>1, CountAssumption
  <2>3. ~clocked' /\ ~cs_high' /\ UNCHANGED <<at, edge, spi, channel, flags>>
    BY DEF CsFall
  <2> QED BY <1>0, <2>1, <2>2, <2>3
<1> QED BY <1>1, <1>2, <1>3, <1>4, <1>5, <1>6, <1>7, <1>8

LEMMA ByteInv ==
  ASSUME IInv, Byte PROVE IInv'
<1> USE CountAssumption
    DEF IInv, TypeOK, PlaceInv, BusyInv, ArmedInv, Armed, DummyInv,
        ReportedInv, MissedInv, HeardInv, Deaf, Pending, Listening, Finished,
        Settled, Preparing, ChannelInv, RestInv, Quiet, LengthInv,
        RxBufferSize, line, channel, flags, ghosts, Contexts, Steps
<1>0. /\ clocked' \in BOOLEAN
      /\ missed' \in BOOLEAN
  BY DEF Byte
<1>1. TypeOK' /\ PlaceInv'
  BY <1>0 DEF Byte
<1>2. BusyInv' /\ DummyInv'
  BY <1>0 DEF Byte
<1>3. ArmedInv'
  BY <1>0 DEF Byte
<1>4. ChannelInv' /\ RestInv'
  BY <1>0 DEF Byte
<1>5. LengthInv'
  BY <1>0 DEF Byte
<1>6. ReportedInv'
  BY <1>0 DEF Byte
<1>7. MissedInv'
  BY <1>0 DEF Byte
<1>8. HeardInv'
  BY <1>0 DEF Byte
<1> QED BY <1>1, <1>2, <1>3, <1>4, <1>5, <1>6, <1>7, <1>8

LEMMA CsRiseInv ==
  ASSUME IInv, CsRise PROVE IInv'
<1> USE DEF IInv, TypeOK, PlaceInv, BusyInv, ArmedInv, Armed, DummyInv,
        ReportedInv, MissedInv, HeardInv, Deaf, Pending, Listening, Finished,
        Settled, Preparing, ChannelInv, RestInv, Quiet, LengthInv,
        RxBufferSize, line, channel, flags, ghosts, Contexts, Steps
<1>0. /\ cs_high' \in BOOLEAN
      /\ edge' \in BOOLEAN
  BY DEF CsRise
<1>1. TypeOK' /\ PlaceInv'
  BY <1>0 DEF CsRise
<1>2. BusyInv' /\ DummyInv'
  BY <1>0 DEF CsRise
<1>3. ArmedInv'
  BY <1>0 DEF CsRise
<1>4. ChannelInv' /\ RestInv'
  BY <1>0 DEF CsRise
<1>5. LengthInv'
  BY <1>0 DEF CsRise
<1>6. ReportedInv'
  BY <1>0 DEF CsRise
<1>7. MissedInv'
  BY <1>0 DEF CsRise
<1>8. HeardInv'
  BY <1>0 DEF CsRise
<1> QED BY <1>1, <1>2, <1>3, <1>4, <1>5, <1>6, <1>7, <1>8

LEMMA InterruptInv ==
  ASSUME IInv, Interrupt PROVE IInv'
<1> USE DEF IInv, TypeOK, PlaceInv, BusyInv, ArmedInv, Armed, DummyInv,
        ReportedInv, MissedInv, HeardInv, Deaf, Pending, Listening, Finished,
        Settled, Preparing, ChannelInv, RestInv, Quiet, LengthInv,
        RxBufferSize, line, channel, flags, ghosts, Contexts, Steps
<1>0. /\ edge' \in BOOLEAN
  BY DEF Interrupt
<1>1. TypeOK' /\ PlaceInv'
  BY <1>0 DEF Interrupt
<1>2. BusyInv' /\ DummyInv'
  BY <1>0 DEF Interrupt
<1>3. ArmedInv'
  BY <1>0 DEF Interrupt
<1>4. ChannelInv' /\ RestInv'
  <2>1. /\ at'.main = at.main /\ at.irq = "none"
        /\ at'.irq = IF busy THEN "end" ELSE "return"
        /\ UNCHANGED <<channel, flags, input>>
    BY DEF Interrupt
  <2>2. CASE busy
    BY <2>1, <2>2
  <2>3. CASE ~busy
    BY <2>1, <2>3
  <2> QED BY <2>2, <2>3
<1>5. LengthInv'
  BY <1>0 DEF Interrupt
<1>6. ReportedInv'
  BY <1>0 DEF Interrupt
<1>7. MissedInv'
  BY <1>0 DEF Interrupt
<1>8. HeardInv'
  BY <1>0 DEF Interrupt
<1> QED BY <1>1, <1>2, <1>3, <1>4, <1>5, <1>6, <1>7, <1>8

LEMMA DeselectedInv ==
  ASSUME IInv, Deselected PROVE IInv'
<1> USE GotoFacts
    DEF IInv, TypeOK, PlaceInv, BusyInv, ArmedInv, Armed, DummyInv,
        ReportedInv, MissedInv, HeardInv, Deaf, Pending, Listening, Finished,
        Settled, Preparing, ChannelInv, RestInv, Quiet, LengthInv,
        RxBufferSize, line, channel, flags, ghosts, Contexts, Steps
<1>0. /\ dma' \in BOOLEAN
      /\ dummy_in_used' \in BOOLEAN
      /\ busy' \in BOOLEAN
      /\ resend_request' \in BOOLEAN
      /\ reported' \in BOOLEAN
  BY DEF Deselected, Valid, TransferCount
<1>1. TypeOK' /\ PlaceInv'
  <2>1. left' \in 0..MaxCount /\ got' \in 0..(MaxCount - left')
    BY CountAssumption DEF Deselected
  <2>2. PlaceInv'
    BY DEF Deselected, Valid, TransferCount
  <2> QED BY <1>0, <2>1, <2>2 DEF Deselected
<1>2. BusyInv' /\ DummyInv'
  BY <1>0 DEF Deselected, Valid, TransferCount
<1>3. ArmedInv'
  BY <1>0 DEF Deselected, Valid, TransferCount
<1>4. ChannelInv' /\ RestInv'
  BY <1>0 DEF Deselected, Valid, TransferCount
<1>5. LengthInv'
  BY <1>0 DEF Deselected, Valid, TransferCount
<1>6. ReportedInv'
  BY <1>0 DEF Deselected, Valid, TransferCount
<1>7. MissedInv'
  BY <1>0 DEF Deselected, Valid, TransferCount
<1>8. HeardInv'
  BY <1>0 DEF Deselected, Valid, TransferCount
<1> QED BY <1>1, <1>2, <1>3, <1>4, <1>5, <1>6, <1>7, <1>8

LEMMA ReturnInv ==
  ASSUME IInv, Return PROVE IInv'
<1> USE GotoFacts
    DEF IInv, TypeOK, PlaceInv, BusyInv, ArmedInv, Armed, DummyInv,
        ReportedInv, MissedInv, HeardInv, Deaf, Pending, Listening, Finished,
        Settled, Preparing, ChannelInv, RestInv, Quiet, LengthInv,
        RxBufferSize, line, channel, flags, ghosts, Contexts, Steps
<1>1. TypeOK' /\ PlaceInv'
  BY DEF Return
<1>2. BusyInv' /\ DummyInv'
  BY DEF Return
<1>3. ArmedInv'
  BY DEF Return
<1>4. ChannelInv' /\ RestInv'
  BY DEF Return
<1>5. LengthInv'
  BY DEF Return
<1>6. ReportedInv'
  BY DEF Return
<1>7. MissedInv'
  BY DEF Return
<1>8. HeardInv'
  BY DEF Return
<1> QED BY <1>1, <1>2, <1>3, <1>4, <1>5, <1>6, <1>7, <1>8

LEMMA NextInv == IInv /\ [Next]_vars => IInv'
<1> SUFFICES ASSUME IInv, [Next]_vars PROVE IInv'
  OBVIOUS
<1>1. CASE UNCHANGED vars
  BY <1>1
     DEF vars, IInv, TypeOK, PlaceInv, BusyInv, ArmedInv, Armed, DummyInv,
         ReportedInv, MissedInv, HeardInv, Deaf, Pending, Listening,
         Settled, Preparing, ChannelInv, RestInv, Quiet, LengthInv,
         RxBufferSize, line, channel, flags, ghosts
<1> QED
  BY <1>1, ReturnInv, ArmingInv, CsFallInv, ByteInv, CsRiseInv, InterruptInv,
     DeselectedInv DEF Next

(* IInv holds in every reachable state, for a buffer of any size.          *)
THEOREM Invariance == Spec => []IInv
BY InitInv, NextInv, PTL DEF Spec

-----------------------------------------------------------------------------
(***************************************************************************)
(* What it means for the link and for the master.                          *)
(***************************************************************************)

(* Every variable keeps its range; no more is counted than there is room.  *)
THEOREM TypeCorrect == Spec => []TypeOK
<1>1. IInv => TypeOK
  BY DEF IInv
<1> QED BY <1>1, Invariance, PTL

(* Whenever the processor is done, a transfer is armed or will be.         *)
THEOREM ListensForEver == Spec => []KeepsListening
<1>1. IInv => KeepsListening
  <2> SUFFICES ASSUME IInv, at.main = "done", at.irq = "none"
               PROVE  busy /\ (Listening \/ resend_request)
    BY DEF KeepsListening
  <2> QED BY DEF IInv, BusyInv, ArmedInv, Armed, Settled
<1> QED BY <1>1, Invariance, PTL

(* A step that reports is the interrupt's, and this is its state.          *)
LEMMA ReportFacts ==
  ASSUME IInv, [Next]_vars, Reports
  PROVE  at.irq = "end" /\ Valid /\ ~resend_request
<1>1. CASE Deselected
  BY <1>1, GotoFacts DEF IInv, Reports, Deselected, Valid, Contexts
<1>2. CASE \E c \in Contexts : Arming(c)
  <2>1. PICK c \in Contexts : Arming(c)
    BY <1>2
  <2>2. at.irq = "end"
    BY DEF Reports
  <2>3. at[c] \in Steps /\ (c = "main" => at.irq = "none")
    BY <2>1 DEF Arming, TransferStart, Transfer, DmaSize, DmaConfigure,
                DmaTrigger, TransferEnable, SpiEnableSample, SpiEnableSet,
                SpiDisable, DmaStop, ResendRequest, Goto, Steps
  <2> QED BY <2>2, <2>3 DEF Contexts, Steps
<1>3. CASE UNCHANGED at
  BY <1>3 DEF Reports
<1>4. CASE Interrupt
  BY <1>4 DEF Interrupt, Reports
<1>5. CASE Return
  BY <1>5, GotoFacts DEF IInv, Reports, Return, Contexts
<1> QED BY <1>1, <1>2, <1>3, <1>4, <1>5 DEF Next, CsFall, Byte, CsRise, vars

(* The link is told of a selection at most once.                           *)
THEOREM EachReportedOnce == Spec => ReportedOnce
<1>1. IInv /\ [Next]_vars => [Reports => ~reported]_vars
  BY ReportFacts DEF IInv, TypeOK, ReportedInv, Deaf, Pending, Preparing,
                     Valid, TransferCount
<1> QED BY <1>1, Invariance, PTL DEF Spec, ReportedOnce

(* The link never gets a message whose beginning went by unheard.          *)
THEOREM NoMessageHasGaps == Spec => NoGaps
<1>1. IInv /\ [Next]_vars => [Reports /\ ~early => ~missed]_vars
  BY ReportFacts DEF IInv, TypeOK, MissedInv, Deaf, Pending, Preparing,
                     Valid, TransferCount
<1> QED BY <1>1, Invariance, PTL DEF Spec, NoGaps

(* The reported length, a difference of two numbers that both contexts     *)
(* write, is the number of bytes in the link's buffer: for every selection *)
(* that began when spils_init was done, whatever the interrupt and the     *)
(* main loop did to each other's arming before.                            *)
THEOREM LengthIsTrue == Spec => ReportsItsLength
<1>1. IInv /\ [Next]_vars
        => [Reports /\ ~early => Length = IF input THEN got ELSE 0]_vars
  <2> SUFFICES ASSUME IInv, [Next]_vars, Reports, ~early
               PROVE  Length = IF input THEN got ELSE 0
    OBVIOUS
  <2>1. at.irq = "end" /\ ~resend_request /\ at.main = "done"
    BY ReportFacts DEF IInv, MissedInv
  <2>2. dummy_in_used = ~input /\ input \in BOOLEAN
    BY <2>1 DEF IInv, BusyInv, DummyInv, TypeOK
  <2>3. input => size - left = got
    BY <2>1 DEF IInv, LengthInv
  <2> QED BY <2>2, <2>3 DEF Length, TransferCount
<1> QED BY <1>1, Invariance, PTL DEF Spec, ReportsItsLength

(* A selection that found the slave ready has been reported by the time    *)
(* the slave is ready again.                                               *)
THEOREM ReadySlaveHears == Spec => EveryTransferHeard
<1>1. IInv /\ [Next]_vars
        => [(cs_high /\ ~cs_high' /\ SlaveIsDone /\ inTime /\ clocked)
              => reported]_vars
  BY DEF IInv, HeardInv, SlaveIsDone
<1> QED BY <1>1, Invariance, PTL DEF Spec, EveryTransferHeard
=============================================================================
