--------------------------- MODULE MCPartyService ---------------------------
(* PartyService on a small instance. *)
EXTENDS PartyService, TLC

SessionSymmetry == Permutations(Sessions) \cup Permutations(Users)
=============================================================================
