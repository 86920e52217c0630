--------------------------- MODULE SpiConnection ---------------------------
(***************************************************************************)
(* The connection machine of the SPI link slave: _con_machine and the      *)
(* disconnect timer of src/lib/SPISlave/src/link/spi_link_slave.c, with    *)
(* the timer of src/lib/Time_counter and is_connected of Spi_slave.       *)
(*                                                                         *)
(* It shares one flag with the interrupt, connection_detected; the         *)
(* interrupt can set it and the clock can tick between any two accesses of *)
(* the poll.  con_state, the timer and is_connected belong to the main    *)
(* loop alone, so an action may change them together with one access to    *)
(* the flag.                                                               *)
(***************************************************************************)
EXTENDS Naturals

CONSTANTS
  DisconnectTimeout,    \* disconnect_timeout_ms
  ClockWrap,            \* millis() counts modulo this (2^32 in the firmware)
  LoopMillis            \* bound: ticks of the clock from poll to poll

ASSUME ClockAssumption ==
  /\ ClockWrap \in Nat \ {0}
  /\ DisconnectTimeout \in 0..(ClockWrap - 1)
  /\ LoopMillis \in Nat

VARIABLES
  con_state, connection_detected, disconnect_timer,
  is_connected,        \* what the layer above has last been told
  pc,                   \* the next step of _con_machine
  millis,              \* the clock
  lag,                  \* ticks since the poll last looked at the flag
  quiet                 \* ticks since the last transfer, up to the timeout

vars == <<con_state, connection_detected, disconnect_timer, is_connected,
          pc, millis, lag, quiet>>

Clock == <<millis, lag, quiet>>

\* Fault: the sum is as wide as the timer.
DisconnectTimerReset_Wide ==
  disconnect_timer' = millis + DisconnectTimeout

(* timer_set_ms: the sum is a 32-bit one before it is widened.             *)
DisconnectTimerReset ==
  disconnect_timer' = (millis + DisconnectTimeout) % ClockWrap

\* Fault: the deadline has to be met exactly.
DisconnectTimerCheck_Exact == millis = disconnect_timer

DisconnectTimerCheck == millis >= disconnect_timer

(* spils_init, called once from setup( ), early after reset.               *)
Init ==
  /\ con_state = "UNKNOWN"
  /\ connection_detected = FALSE
  /\ disconnect_timer = DisconnectTimeout
  /\ is_connected = FALSE
  /\ pc = "look"
  /\ millis = 0 /\ lag = 0 /\ quiet = 0

-----------------------------------------------------------------------------

(* The head of _spi_slave_transfer_done_handler.                           *)
Transfer ==
  /\ connection_detected' = TRUE
  /\ quiet' = 0
  /\ UNCHANGED <<con_state, disconnect_timer, is_connected, pc, millis, lag>>

Tick ==
  /\ lag < LoopMillis
  /\ millis' = (millis + 1) % ClockWrap
  /\ lag' = lag + 1
  /\ quiet' = IF quiet < DisconnectTimeout THEN quiet + 1 ELSE quiet
  /\ UNCHANGED <<con_state, connection_detected, disconnect_timer,
                 is_connected, pc>>

(* spils_poll enters _con_machine and looks at the flag.                   *)
ConMachine ==
  /\ pc = "look"
  /\ pc' = CASE con_state = "UNKNOWN" /\ connection_detected -> "set_connected"
             [] con_state = "UNKNOWN" /\ ~connection_detected -> "check"
             [] con_state = "DISCONNECTED" /\ connection_detected
                  -> "set_connected"
             [] con_state = "DISCONNECTED" /\ ~connection_detected -> "look"
             [] con_state = "CONNECTED" /\ connection_detected -> "refresh"
             [] con_state = "CONNECTED" /\ ~connection_detected -> "check"
  /\ lag' = 0
  /\ UNCHANGED <<con_state, connection_detected, disconnect_timer,
                 is_connected, millis, quiet>>

(* The flag stays set: the next poll refreshes the timer once more.        *)
ConStateSetConnected ==
  /\ pc = "set_connected" /\ pc' = "look"
  /\ DisconnectTimerReset
  /\ con_state' = "CONNECTED"
  /\ is_connected' = TRUE
  /\ UNCHANGED <<connection_detected, Clock>>

\* Fault: the flag is taken back and the timer left as it is.
RefreshTimer_Forgotten ==
  /\ pc = "refresh" /\ pc' = "clear"
  /\ UNCHANGED <<con_state, connection_detected, disconnect_timer,
                 is_connected, Clock>>

(* _con_state_connected: first the timer, then the flag.                   *)
RefreshTimer ==
  /\ pc = "refresh" /\ pc' = "clear"
  /\ DisconnectTimerReset
  /\ UNCHANGED <<con_state, connection_detected, is_connected, Clock>>

ClearDetected ==
  /\ pc = "clear" /\ pc' = "check"
  /\ connection_detected' = FALSE
  /\ UNCHANGED <<con_state, disconnect_timer, is_connected, Clock>>

CheckTimer ==
  /\ pc = "check"
  /\ pc' = IF DisconnectTimerCheck THEN "set_disconnected" ELSE "look"
  /\ UNCHANGED <<con_state, connection_detected, disconnect_timer,
                 is_connected, Clock>>

\* Fault: the layer above is told, the state is not set.
ConStateSetDisconnected_StateKept ==
  /\ pc = "set_disconnected" /\ pc' = "look"
  /\ connection_detected' = FALSE
  /\ is_connected' = FALSE
  /\ UNCHANGED <<con_state, disconnect_timer, Clock>>

ConStateSetDisconnected ==
  /\ pc = "set_disconnected" /\ pc' = "look"
  /\ connection_detected' = FALSE
  /\ con_state' = "DISCONNECTED"
  /\ is_connected' = FALSE
  /\ UNCHANGED <<disconnect_timer, Clock>>

Poll == \/ ConMachine \/ ConStateSetConnected \/ RefreshTimer
        \/ ClearDetected \/ CheckTimer \/ ConStateSetDisconnected

Next == Transfer \/ Tick \/ Poll

Spec == Init /\ [][Next]_vars

(* The main loop polls for ever and time goes on.  Nothing is assumed of   *)
(* the master.                                                             *)
FairSpec == Spec /\ WF_vars(Poll) /\ WF_vars(Tick)

-----------------------------------------------------------------------------
(***************************************************************************)
(* Properties.                                                             *)
(***************************************************************************)

TypeOK ==
  /\ con_state \in {"UNKNOWN", "DISCONNECTED", "CONNECTED"}
  /\ connection_detected \in BOOLEAN
  /\ disconnect_timer \in 0..(ClockWrap - 1)
  /\ is_connected \in BOOLEAN
  /\ pc \in {"look", "set_connected", "refresh", "clear", "check",
             "set_disconnected"}
  /\ millis \in 0..(ClockWrap - 1)
  /\ lag \in 0..LoopMillis
  /\ quiet \in 0..DisconnectTimeout

(* timer_set_ms has wrapped: the deadline is an early clock value.         *)
DeadlineWrapped == disconnect_timer < DisconnectTimeout

(* A connected master is given up only after a whole timeout of silence,   *)
(* less what the interrupt can add between the two steps of the refresh    *)
(* (a transfer there is forgotten with the flag, at most a loop turn after *)
(* the timer was set).  Two exceptions: a transfer that comes once the     *)
(* flag has been looked at, and a deadline that wrapped with the clock.    *)
GivenUpOnlyAfterSilence ==
  (pc = "set_disconnected" /\ con_state = "CONNECTED") =>
     \/ quiet + LoopMillis >= DisconnectTimeout
     \/ connection_detected
     \/ DeadlineWrapped

(* A transfer is noticed: the master is reported connected, whatever the   *)
(* timer says in the meantime.                                             *)
TransferConnects == (pc = "look" /\ connection_detected) ~> is_connected

(* A master that falls silent is reported disconnected - unless the        *)
(* deadline lies so close to the wrap of the clock that it wraps between   *)
(* two checks.                                                             *)
SilenceDisconnects ==
  (/\ is_connected /\ pc = "look" /\ ~connection_detected
   /\ disconnect_timer + 2 * LoopMillis <= ClockWrap)
    ~> (~is_connected \/ quiet < DisconnectTimeout)

=============================================================================
