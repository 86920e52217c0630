----------------------------- MODULE MCSpiLink -----------------------------
(* A small instance of SpiLink for TLC: two payloads tell order, loss and  *)
(* duplication apart, the rest of the state is finite as it is.            *)
EXTENDS SpiLink

CONSTANTS d1, d2

MCPayload == {d1, d2}
=============================================================================
