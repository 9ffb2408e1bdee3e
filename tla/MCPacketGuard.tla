--------------------------- MODULE MCPacketGuard ---------------------------
(* PacketGuard on a small instance. *)
EXTENDS PacketGuard
=============================================================================
