------------------------ MODULE SpiConnectionProofs ------------------------
(***************************************************************************)
(* Proofs about SpiConnection, for every timeout, clock width and loop     *)
(* length.                                                                 *)
(*                                                                         *)
(* GivenUpOnlyAfterSilence looks at the moment the poll has decided to     *)
(* disconnect.  What makes it inductive is where the deadline stands at    *)
(* any other moment: at least a timeout after the last transfer, less the  *)
(* ticks between the two steps of the refresh (DeadlineInv), which in turn *)
(* needs the deadline right after it was set (ClearInv).                   *)
(***************************************************************************)
EXTENDS SpiConnection, TLAPS

PcInv ==
  /\ pc \in {"refresh", "clear"} => con_state = "CONNECTED" /\ connection_detected
  /\ pc = "set_connected" => connection_detected

(* Between the refresh and the clearing of the flag: the deadline is a     *)
(* timeout after the refresh, and the refresh is not older than lag.       *)
ClearInv ==
  (pc = "clear" /\ LoopMillis < DisconnectTimeout) =>
     DeadlineWrapped \/ millis + DisconnectTimeout <= disconnect_timer + lag

(* Connected, and no transfer that the poll does not know of.              *)
DeadlineInv ==
  (/\ con_state = "CONNECTED" /\ ~connection_detected
   /\ LoopMillis < DisconnectTimeout) =>
     \/ DeadlineWrapped
     \/ quiet = DisconnectTimeout
     \/ millis + DisconnectTimeout <= disconnect_timer + quiet + LoopMillis

IInv == TypeOK /\ PcInv /\ ClearInv /\ DeadlineInv /\ GivenUpOnlyAfterSilence

(* timer_set_ms, as arithmetic: the deadline is a timeout ahead, or it has *)
(* wrapped to an early clock value.                                        *)
LEMMA WrappedSum ==
  ASSUME NEW m \in 0..(ClockWrap - 1)
  PROVE  LET s == (m + DisconnectTimeout) % ClockWrap
         IN  /\ s \in 0..(ClockWrap - 1)
             /\ s = m + DisconnectTimeout \/ s < DisconnectTimeout
<1> DEFINE s == (m + DisconnectTimeout) % ClockWrap
<1>1. /\ m + DisconnectTimeout \in 0..(2 * ClockWrap - 1)
      /\ ClockWrap \in Nat \ {0}
      /\ DisconnectTimeout \in Nat
  BY ClockAssumption
<1>2. CASE m + DisconnectTimeout < ClockWrap
  BY <1>1, <1>2, SMT
<1>3. CASE m + DisconnectTimeout >= ClockWrap
  <2>1. s = m + DisconnectTimeout - ClockWrap
    BY <1>1, <1>3, SMT
  <2> QED BY <1>1, <1>3, <2>1, SMT
<1> QED BY <1>1, <1>2, <1>3

(* The initial state.                                                      *)
LEMMA InitInv == Init => IInv
<1> SUFFICES ASSUME Init PROVE IInv
  OBVIOUS
<1> USE DEF Init
<1>1. connection_detected \in BOOLEAN /\ is_connected \in BOOLEAN
  OBVIOUS
<1>2. TypeOK
  BY <1>1, ClockAssumption, SMT DEF TypeOK
<1>3. PcInv /\ ClearInv /\ DeadlineInv /\ GivenUpOnlyAfterSilence
  BY DEF PcInv, ClearInv, DeadlineInv, GivenUpOnlyAfterSilence
<1> QED BY <1>2, <1>3 DEF IInv

(* Every step of the interrupt, the clock and the poll.                    *)
LEMMA StepInv == IInv /\ [Next]_vars => IInv'
<1> SUFFICES ASSUME IInv, [Next]_vars PROVE IInv'
  OBVIOUS
<1> USE DEF IInv, TypeOK, PcInv, ClearInv, DeadlineInv,
            GivenUpOnlyAfterSilence, DeadlineWrapped
<1>1. CASE Transfer
  BY <1>1, ClockAssumption, SMT DEF Transfer
<1>2. CASE Tick
  <2>1. CASE millis = ClockWrap - 1
    <3>1. millis' = 0
      BY <1>2, <2>1, ClockAssumption, SMT DEF Tick
    <3>2. TypeOK'
      BY <1>2, <3>1, ClockAssumption, SMT DEF Tick
    <3> QED BY <1>2, <2>1, <3>1, <3>2, ClockAssumption, SMT DEF Tick
  <2>2. CASE millis # ClockWrap - 1
    <3>1. millis' = millis + 1
      BY <1>2, <2>2, ClockAssumption, SMT DEF Tick
    <3>2. TypeOK'
      BY <1>2, <2>2, <3>1, ClockAssumption, SMT DEF Tick
    <3> QED BY <1>2, <2>2, <3>1, <3>2, ClockAssumption, SMT DEF Tick
  <2> QED BY <2>1, <2>2
<1>3. CASE ConMachine
  BY <1>3, ClockAssumption, SMT DEF ConMachine
<1>4. CASE ConStateSetConnected
  BY <1>4, ClockAssumption, WrappedSum, SMT
     DEF ConStateSetConnected, DisconnectTimerReset, Clock
<1>5. CASE RefreshTimer
  BY <1>5, ClockAssumption, WrappedSum, SMT
     DEF RefreshTimer, DisconnectTimerReset, Clock
<1>6. CASE ClearDetected
  <2>1. connection_detected' \in BOOLEAN
    BY <1>6 DEF ClearDetected
  <2>2. TypeOK'
    BY <1>6, <2>1 DEF ClearDetected, Clock
  <2> QED BY <1>6, <2>2, ClockAssumption, SMT DEF ClearDetected, Clock
<1>7. CASE CheckTimer
  BY <1>7, ClockAssumption, SMT DEF CheckTimer, DisconnectTimerCheck, Clock
<1>8. CASE ConStateSetDisconnected
  <2>1. connection_detected' \in BOOLEAN /\ is_connected' \in BOOLEAN
    BY <1>8 DEF ConStateSetDisconnected
  <2>2. TypeOK'
    BY <1>8, <2>1 DEF ConStateSetDisconnected, Clock
  <2> QED BY <1>8, <2>2 DEF ConStateSetDisconnected, Clock
<1>9. CASE UNCHANGED vars
  BY <1>9 DEF vars
<1> QED
  BY <1>1, <1>2, <1>3, <1>4, <1>5, <1>6, <1>7, <1>8, <1>9 DEF Next, Poll

(* The inductive invariant holds in every reachable state.                 *)
THEOREM Invariance == Spec => []IInv
BY InitInv, StepInv, PTL DEF Spec

(* The connection machine's state has its type.                            *)
THEOREM TypeCorrect == Spec => []TypeOK
<1>1. IInv => TypeOK
  BY DEF IInv
<1> QED BY Invariance, <1>1, PTL

(* A connected master is given up only after a timeout of silence, but for *)
(* the exceptions the property names.                                      *)
THEOREM GivenUpAfterSilence == Spec => []GivenUpOnlyAfterSilence
<1>1. IInv => GivenUpOnlyAfterSilence
  BY DEF IInv
<1> QED BY Invariance, <1>1, PTL
=============================================================================
