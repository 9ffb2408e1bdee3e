------------------------ MODULE MCPacketDispatcher ------------------------
(* The dispatcher on small instances: one producer with two packets, one     *)
(* with fewer.                                                               *)
EXTENDS PacketDispatcher

CONSTANTS p1, p2

AllPolicies == {"Block", "DropNewest", "DropOldest"}
TwoAndOne == [p \in {p1, p2} |-> IF p = p1 THEN 2 ELSE 1]
TwoEach == [p \in {p1, p2} |-> 2]
===========================================================================
