----------------------------- MODULE Identities -----------------------------
(* The identifiers the components of the server share. *)
EXTENDS Integers, Maps

CONSTANTS
    Sessions,  \* session ids (Server::next_id_ never hands one out twice)
    Users      \* user ids
=============================================================================
