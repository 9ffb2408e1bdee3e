------------------------------ MODULE MCServer ------------------------------
(* The server on small instances; the bounds differ from run to run. *)
EXTENDS Server, TLC

(* One that fits, none at all, a zero after an item that was taken, and one  *)
(* item too many for a capacity of 2.                                        *)
Rewards == {<<1, 1>>, <<>>, <<1, 0>>, <<2, 1>>}

ServerSymmetry == Permutations(Sessions) \cup Permutations(Users)
=============================================================================
