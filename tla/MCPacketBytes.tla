---------------------------- MODULE MCPacketBytes ---------------------------
(* A message of no packet, one of a broken packet of two bytes, one of two *)
(* packets, and one whose header says less than its own length.            *)
EXTENDS PacketBytes

MCMessages ==
  {[len |-> 1, good |-> {}], [len |-> 2, good |-> {}],
   [len |-> 4, good |-> {}], [len |-> 6, good |-> {1, 2}]}
=============================================================================
