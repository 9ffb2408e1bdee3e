-------------------------- MODULE MCPacketPipeline --------------------------
(* The pipeline with every message of the protocol, each with typical values *)
(* and with every field in turn at the edges of its type.                    *)
EXTENDS PacketPipeline

CONSTANTS c1, c2

LongString == [k \in 1 .. UnsignedMax(2) + 1 |-> k % ByteMod]

Ends(S) == {Min(S), Max(S)}

Edges(kind) ==
    CASE kind = "bool"    -> BOOLEAN
      [] kind = "u16"     -> {0, UnsignedMax(2)}
      [] kind = "u32"     -> {0, UnsignedMax(4)}
      [] kind = "u64"     -> {0, UnsignedMax(8)}
      [] kind = "string"  -> {<<>>, LongString}
      [] kind = "strings" -> {<<>>, [k \in 1 .. UnsignedMax(2) + 1 |-> <<>>]}
      [] kind = "items"   -> {<<>>, [k \in 1 .. UnsignedMax(2) + 1 |-> [item_id |-> k, count |-> 1]]}
      [] kind = "GuildEventType"    -> Ends(GuildEventType)
      [] kind = "PartyEventType"    -> Ends(PartyEventType)
      [] kind = "DungeonState"      -> Ends(DungeonState)
      [] kind = "DungeonResultType" -> Ends(DungeonResultType)
      [] kind = "ChatChannel"       -> Ends(ChatChannel)

Typical(kind) ==
    CASE kind = "bool"    -> TRUE
      [] kind \in {"u16", "u32", "u64"} -> ByteMod + 2
      [] kind = "string"  -> <<3, 1>>
      [] kind = "strings" -> << <<2>>, <<>> >>
      [] kind = "items"   -> << [item_id |-> ByteMod, count |-> 2] >>
      [] OTHER -> 1

TypicalBody(type) == [f \in DOMAIN Structs[type] |-> Typical(Structs[type][f])]

Cases(type) ==
    {[type |-> type, body |-> TypicalBody(type)]} \cup
    UNION {{[type |-> type, body |-> [TypicalBody(type) EXCEPT ![f] = v]] :
            v \in Edges(Structs[type][f])} : f \in DOMAIN Structs[type]}

TypicalMessage(type) == [type |-> type, body |-> TypicalBody(type)]

(* Every message, followed by one more; and two clients at once. *)
MCScripts ==
    {[c \in {c1, c2} |-> IF c = c1 THEN <<m, TypicalMessage("LogoutReq")>> ELSE <<>>] :
        m \in UNION {Cases(PacketTypes[k]) : k \in DOMAIN PacketTypes}}
    \cup {[c \in {c1, c2} |-> IF c = c1 THEN <<TypicalMessage("GuildJoinReq")>>
                              ELSE <<TypicalMessage("LogoutRes"), TypicalMessage("LogoutReq")>>]}
=============================================================================
