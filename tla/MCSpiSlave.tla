----------------------------- MODULE MCSpiSlave -----------------------------
(* A small instance of SpiSlave for TLC: payloads of two packets with a    *)
(* valid CRC.  One value is enough: that the link tells payloads apart is  *)
(* checked in MCSpiLink, and a payload's two packets differ.               *)
EXTENDS SpiSlave

CONSTANTS both, k1, k2

MCPayload   == {both}
MCInPacket  == {k1, k2}
MCPacketsOf == [d \in MCPayload |-> <<k1, k2>>]
MCOutPacket == {k1}
=============================================================================
