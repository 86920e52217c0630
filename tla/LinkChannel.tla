---------------------------- MODULE LinkChannel ----------------------------
(***************************************************************************)
(* What the SPI link slave promises, with none of its buffers, flags,      *)
(* mutexes or interrupts: two bounded FIFO channels and the reply the      *)
(* master is going to clock out.                                           *)
(*                                                                         *)
(*   toHost    payloads answered OK or OK_BUSY and not yet read            *)
(*   toMaster  payloads accepted by spils_data_send, not yet clocked out   *)
(*   phase     what the slave takes the next transfer for                  *)
(*   reply     the message the master clocks out in the next transfer      *)
(*   started   spils_init has returned                                     *)
(***************************************************************************)
EXTENDS Naturals, Sequences

CONSTANT Payload

VARIABLES toHost, toMaster, phase, reply, started

vars == <<toHost, toMaster, phase, reply, started>>

(* Two input buffers and two output buffers.                               *)
Capacity == 2

Init ==
  /\ toHost = <<>>
  /\ toMaster = <<>>
  /\ phase = "listening"
  /\ reply = "READY"
  /\ started = FALSE

-----------------------------------------------------------------------------
(* A transfer of the master.  Whatever it carried, the message the slave   *)
(* had armed is considered clocked out, so a payload leaves toMaster.      *)

StillToMaster == IF phase = "sending" /\ reply \in Payload
                   THEN Tail(toMaster) ELSE toMaster

(* The transfer is turned down or ignored: nothing enters toHost.          *)
Refuse ==
  /\ phase' = "listening"
  /\ reply' \in {"ERR", "BUSY", "READY", "DATA_READY"}
  /\ reply' = "DATA_READY" => StillToMaster # <<>>
  /\ toMaster' = StillToMaster
  /\ UNCHANGED <<toHost, started>>

(* Go ahead for one DATA message.  It is only given while there is room    *)
(* for that message.                                                       *)
GoAhead ==
  /\ Len(toHost) < Capacity
  /\ phase' = "receiving"
  /\ reply' = "OK"
  /\ toMaster' = StillToMaster
  /\ UNCHANGED <<toHost, started>>

(* A DATA message with a payload, after a go-ahead: it is always taken.    *)
(* OK says that it is the only payload waiting.                            *)
Accept(d) ==
  /\ phase = "receiving"
  /\ Len(toHost) < Capacity
  /\ toHost' = Append(toHost, d)
  /\ phase' = "listening"
  /\ reply' \in {"OK", "OK_BUSY"}
  /\ reply' = "OK" => toHost = <<>>
  /\ UNCHANGED <<toMaster, started>>

(* A DATA message without payload is acknowledged and delivers nothing.    *)
AcceptVoid ==
  /\ phase = "receiving"
  /\ phase' = "listening"
  /\ reply' \in {"OK", "OK_BUSY"}
  /\ UNCHANGED <<toHost, toMaster, started>>

(* The master asks for data: the oldest payload, or a dummy if none.       *)
Offer ==
  /\ phase' = "sending"
  /\ toMaster' = StillToMaster
  /\ reply' = IF StillToMaster = <<>> THEN "DUMMY" ELSE Head(StillToMaster)
  /\ UNCHANGED <<toHost, started>>

-----------------------------------------------------------------------------
(* The host side: the main loop of the keyboard.                           *)

(* spils_init returns, once.  The master may have used the slave before    *)
(* that, and what the slave took the next transfer for may be forgotten    *)
(* now; no payload is lost by it, for none has been put yet.               *)
Start ==
  /\ ~started
  /\ started' = TRUE
  /\ toMaster = <<>>
  /\ phase' \in {phase, "listening"}
  /\ UNCHANGED <<toHost, toMaster, reply>>

Take ==
  /\ started
  /\ toHost # <<>>
  /\ toHost' = Tail(toHost)
  /\ UNCHANGED <<toMaster, phase, reply, started>>

Put(d) ==
  /\ started
  /\ Len(toMaster) < Capacity
  /\ toMaster' = Append(toMaster, d)
  /\ UNCHANGED <<toHost, phase, reply, started>>

Next ==
  \/ Refuse
  \/ GoAhead
  \/ \E d \in Payload : Accept(d)
  \/ AcceptVoid
  \/ Offer
  \/ Start
  \/ Take
  \/ \E d \in Payload : Put(d)

Spec == Init /\ [][Next]_vars

=============================================================================
