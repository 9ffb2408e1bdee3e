------------------------------ MODULE Protocol ------------------------------
(***************************************************************************)
(* net/protocol.h, net/protocol.cpp and net/codec.cpp: the messages, how   *)
(* each is written to bytes and read back, and the frames around them.     *)
(*                                                                         *)
(* A byte is a number below ByteMod, so that the limits of the unsigned    *)
(* types, and with them of strings and lists, are small. A packet type's   *)
(* code is its place in the enumeration. For every message there are three *)
(* tables: the fields the struct declares, the fields encode... writes and *)
(* the fields decode... reads, in the order in which the code does it.     *)
(***************************************************************************)
EXTENDS Integers, SequencesExt

CONSTANT ByteMod    \* number of values of a byte

(* Two bytes hold the code of every packet type and of every enumeration. *)
ASSUME ProtocolConstants == ByteMod \in Nat /\ ByteMod >= 6

Byte == 0 .. ByteMod - 1

(* The number of values of so many bytes *)
Power(width) ==
    LET power[k \in 0 .. width] == IF k = 0 THEN 1 ELSE power[k - 1] * ByteMod
    IN  power[width]

UnsignedMax(width) == Power(width) - 1

Take(seq, n) == SubSeq(seq, 1, n)
Drop(seq, n) == SubSeq(seq, n + 1, Len(seq))

-----------------------------------------------------------------------------
(* The writers *)

WriteUnsigned(width, n) == [k \in 1 .. width |-> (n \div Power(width - k)) % ByteMod]

Limited(seq) == IF Len(seq) > UnsignedMax(2) THEN Take(seq, UnsignedMax(2)) ELSE seq

WriteString(s) == WriteUnsigned(2, Len(Limited(s))) \o Limited(s)

WriteList(Write(_), list) ==
    WriteUnsigned(2, Len(Limited(list)))
        \o FlattenSeq([k \in DOMAIN Limited(list) |-> Write(list[k])])

WriteItem(item) == WriteUnsigned(4, item.item_id) \o WriteUnsigned(4, item.count)

WriteField(kind, v) ==
    CASE kind = "bool"    -> <<IF v THEN 1 ELSE 0>>
      [] kind = "u16"     -> WriteUnsigned(2, v)
      [] kind = "u32"     -> WriteUnsigned(4, v)
      [] kind = "u64"     -> WriteUnsigned(8, v)
      [] kind = "string"  -> WriteString(v)
      [] kind = "strings" -> WriteList(WriteString, v)
      [] kind = "items"   -> WriteList(WriteItem, v)

-----------------------------------------------------------------------------
(* The readers. What is read from a sequence of bytes is a set: empty when   *)
(* the reader returns false, else one pair of a value and the bytes left.    *)

Number(bytes) ==
    LET upTo[k \in 0 .. Len(bytes)] == IF k = 0 THEN 0 ELSE upTo[k - 1] * ByteMod + bytes[k]
    IN  upTo[Len(bytes)]

ReadBytes(n, bytes) ==
    IF Len(bytes) < n THEN {} ELSE {<<Take(bytes, n), Drop(bytes, n)>>}

ReadUnsigned(width, bytes) ==
    {<<Number(r[1]), r[2]>> : r \in ReadBytes(width, bytes)}

(* Mutant: a string that is longer than what is left is read as far as it goes. *)
ReadStringShort(bytes) ==
    UNION {ReadBytes(IF r[1] > Len(r[2]) THEN Len(r[2]) ELSE r[1], r[2]) :
            r \in ReadUnsigned(2, bytes)}

ReadString(bytes) == UNION {ReadBytes(r[1], r[2]) : r \in ReadUnsigned(2, bytes)}

ReadItem(bytes) ==
    UNION {{<<[item_id |-> id[1], count |-> n[1]], n[2]>> : n \in ReadUnsigned(4, id[2])} :
            id \in ReadUnsigned(4, bytes)}

(* One value after the other; the k-th with Read(what[k], ...). *)
Extend(values, read) == {<<Append(values, x[1]), x[2]>> : x \in read}

ReadEach(Read(_, _), what, bytes) ==
    LET upTo[k \in 0 .. Len(what)] ==
            IF k = 0 THEN {<< <<>>, bytes >>}
            ELSE UNION {Extend(r[1], Read(what[k], r[2])) : r \in upTo[k - 1]}
    IN  upTo[Len(what)]

ReadList(Read(_), bytes) ==
    UNION {ReadEach(LAMBDA k, rest : Read(rest), [k \in 1 .. r[1] |-> k], r[2]) :
            r \in ReadUnsigned(2, bytes)}

ReadField(field, bytes) ==
    CASE field[2] = "bool"    -> {<<r[1] # 0, r[2]>> : r \in ReadUnsigned(1, bytes)}
      [] field[2] = "u16"     -> ReadUnsigned(2, bytes)
      [] field[2] = "u32"     -> ReadUnsigned(4, bytes)
      [] field[2] = "u64"     -> ReadUnsigned(8, bytes)
      [] field[2] = "string"  -> ReadString(bytes)
      [] field[2] = "strings" -> ReadList(ReadString, bytes)
      [] field[2] = "items"   -> ReadList(ReadItem, bytes)
-----------------------------------------------------------------------------
(* The packet types and what the struct of each message declares *)

PacketTypes ==
    <<"LoginReq", "LoginRes", "VersionReject", "LogoutReq", "LogoutRes",
      "SessionReconnectReq", "SessionReconnectRes", "PartyCreateReq", "PartyCreateRes",
      "PartyInviteReq", "PartyInviteRes", "PartyAcceptReq", "PartyAcceptRes",
      "PartyDisbandReq", "PartyDisbandRes", "PartyEvent", "MatchReq",
      "MatchFoundNotify", "GuildCreateReq", "GuildCreateRes", "GuildJoinReq",
      "GuildJoinRes", "GuildLeaveReq", "GuildLeaveRes", "GuildEvent",
      "DungeonEnterReq", "DungeonEnterRes", "DungeonResultNotify", "DungeonResultRes",
      "ChatSendReq", "ChatSendRes", "ChatEvent", "InventoryUpdateNotify",
      "InventoryUpdateRes">>

(* The enumerations among the field types *)
GuildEventType == 1 .. 4
PartyEventType == 1 .. 6
DungeonState == 0 .. 5
DungeonResultType == 1 .. 2
ChatChannel == 1 .. 2

(* One table of two *)
Merge(f, g) == [x \in DOMAIN f \cup DOMAIN g |-> IF x \in DOMAIN f THEN f[x] ELSE g[x]]

NoFields == [f \in {} |-> "none"]

AccountStructs ==
    [LoginReq |-> [user_id |-> "string", password |-> "string"],
     LoginRes |-> [accepted |-> "bool", token |-> "string", message |-> "string"],
     VersionReject |-> [min_version |-> "u16", max_version |-> "u16",
                        client_version |-> "u16", message |-> "string"],
     LogoutReq |-> NoFields,
     LogoutRes |-> [success |-> "bool", message |-> "string"],
     SessionReconnectReq |-> [token |-> "string", last_seq |-> "u32"],
     SessionReconnectRes |-> [success |-> "bool", message |-> "string",
                              session_id |-> "u64", resume_from_seq |-> "u32"]]

GuildStructs ==
    [GuildCreateReq |-> [guild_name |-> "string"],
     GuildCreateRes |-> [success |-> "bool", guild_id |-> "u64", message |-> "string"],
     GuildJoinReq |-> [guild_id |-> "u64"],
     GuildJoinRes |-> [success |-> "bool", message |-> "string"],
     GuildLeaveReq |-> [guild_id |-> "u64"],
     GuildLeaveRes |-> [success |-> "bool", message |-> "string"],
     GuildEvent |-> [type |-> "GuildEventType", guild_id |-> "u64",
                     actor_user_id |-> "string", member_user_ids |-> "strings",
                     message |-> "string"]]

PartyStructs ==
    [PartyCreateReq |-> [leader_user_id |-> "string"],
     PartyCreateRes |-> [success |-> "bool", party_id |-> "u64", message |-> "string"],
     PartyInviteReq |-> [party_id |-> "u64", inviter_user_id |-> "string",
                         invitee_user_id |-> "string"],
     PartyInviteRes |-> [success |-> "bool", message |-> "string"],
     PartyAcceptReq |-> [party_id |-> "u64", invitee_user_id |-> "string"],
     PartyAcceptRes |-> [success |-> "bool", message |-> "string"],
     PartyDisbandReq |-> [party_id |-> "u64", requester_user_id |-> "string"],
     PartyDisbandRes |-> [success |-> "bool", message |-> "string"],
     PartyEvent |-> [type |-> "PartyEventType", party_id |-> "u64",
                     actor_user_id |-> "string", target_user_id |-> "string",
                     member_user_ids |-> "strings", message |-> "string"]]

DungeonStructs ==
    [MatchReq |-> [party_id |-> "u64", dungeon_id |-> "u32", difficulty |-> "string"],
     MatchFoundNotify |-> [success |-> "bool", code |-> "string", message |-> "string",
                           party_id |-> "u64", instance_id |-> "u64",
                           endpoint |-> "string", ticket |-> "string"],
     DungeonEnterReq |-> [instance_id |-> "u64", ticket |-> "string", char_id |-> "u64"],
     DungeonEnterRes |-> [success |-> "bool", code |-> "string", message |-> "string",
                          state |-> "DungeonState", seed |-> "u32"],
     DungeonResultNotify |-> [result |-> "DungeonResultType", time_sec |-> "u32",
                              deaths |-> "u16", rewards |-> "items"],
     DungeonResultRes |-> [success |-> "bool", code |-> "string", message |-> "string",
                           summary |-> "string"]]

InventoryStructs ==
    [InventoryUpdateNotify |-> [char_id |-> "u64", items |-> "items"],
     InventoryUpdateRes |-> [success |-> "bool", code |-> "string",
                             message |-> "string", inventory_version |-> "u64"]]

ChatStructs ==
    [ChatSendReq |-> [channel |-> "ChatChannel", party_id |-> "u64",
                      message |-> "string"],
     ChatSendRes |-> [success |-> "bool", message |-> "string"],
     ChatEvent |-> [channel |-> "ChatChannel", party_id |-> "u64",
                    sender_user_id |-> "string", message |-> "string"]]

Structs ==
    Merge(Merge(Merge(AccountStructs, GuildStructs), Merge(PartyStructs, DungeonStructs)),
          Merge(InventoryStructs, ChatStructs))

(* What a field of each type may hold *)
Unsigned(width) == 0 .. UnsignedMax(width)

Values(kind) ==
    CASE kind = "bool"    -> BOOLEAN
      [] kind = "u16"     -> Unsigned(2)
      [] kind = "u32"     -> Unsigned(4)
      [] kind = "u64"     -> Unsigned(8)
      [] kind = "string"  -> Seq(Byte)
      [] kind = "strings" -> Seq(Seq(Byte))
      [] kind = "items"   -> Seq([item_id : Unsigned(4), count : Unsigned(4)])
      [] kind = "GuildEventType"    -> GuildEventType
      [] kind = "PartyEventType"    -> PartyEventType
      [] kind = "DungeonState"      -> DungeonState
      [] kind = "DungeonResultType" -> DungeonResultType
      [] kind = "ChatChannel"       -> ChatChannel

(* A packet type with a value for every field of its struct *)
IsMessage(message) ==
    /\ message.type \in ToSet(PacketTypes)
    /\ DOMAIN message.body = DOMAIN Structs[message.type]
    /\ \A f \in DOMAIN message.body : message.body[f] \in Values(Structs[message.type][f])

-----------------------------------------------------------------------------
(* What encode... writes and decode... reads. Every decoder was found to     *)
(* read the fields its encoder writes, in that order (Both); enumerations    *)
(* are cast to and from u16.                                                 *)

Bool(f) == <<f, "bool">>
U16(f) == <<f, "u16">>
U32(f) == <<f, "u32">>
U64(f) == <<f, "u64">>
Str(f) == <<f, "string">>
Strs(f) == <<f, "strings">>
Items(f) == <<f, "items">>
Both(fields) == [writes |-> fields, reads |-> fields]

AccountLayouts ==
    [LoginReq |-> Both(<<Str("user_id"), Str("password")>>),
     LoginRes |-> Both(<<Bool("accepted"), Str("token"), Str("message")>>),
     VersionReject |-> Both(<<U16("min_version"), U16("max_version"),
                              U16("client_version"), Str("message")>>),
     LogoutReq |-> Both(<<>>),
     LogoutRes |-> Both(<<Bool("success"), Str("message")>>),
     SessionReconnectReq |-> Both(<<Str("token"), U32("last_seq")>>),
     SessionReconnectRes |-> Both(<<Bool("success"), Str("message"), U64("session_id"),
                                    U32("resume_from_seq")>>)]

GuildLayouts ==
    [GuildCreateReq |-> Both(<<Str("guild_name")>>),
     GuildCreateRes |-> Both(<<Bool("success"), U64("guild_id"), Str("message")>>),
     GuildJoinReq |-> Both(<<U64("guild_id")>>),
     GuildJoinRes |-> Both(<<Bool("success"), Str("message")>>),
     GuildLeaveReq |-> Both(<<U64("guild_id")>>),
     GuildLeaveRes |-> Both(<<Bool("success"), Str("message")>>),
     GuildEvent |-> Both(<<U16("type"), U64("guild_id"), Str("actor_user_id"),
                           Strs("member_user_ids"), Str("message")>>)]

PartyLayouts ==
    [PartyCreateReq |-> Both(<<Str("leader_user_id")>>),
     PartyCreateRes |-> Both(<<Bool("success"), U64("party_id"), Str("message")>>),
     PartyInviteReq |-> Both(<<U64("party_id"), Str("inviter_user_id"),
                               Str("invitee_user_id")>>),
     PartyInviteRes |-> Both(<<Bool("success"), Str("message")>>),
     PartyAcceptReq |-> Both(<<U64("party_id"), Str("invitee_user_id")>>),
     PartyAcceptRes |-> Both(<<Bool("success"), Str("message")>>),
     PartyDisbandReq |-> Both(<<U64("party_id"), Str("requester_user_id")>>),
     PartyDisbandRes |-> Both(<<Bool("success"), Str("message")>>),
     PartyEvent |-> Both(<<U16("type"), U64("party_id"), Str("actor_user_id"),
                           Str("target_user_id"), Strs("member_user_ids"),
                           Str("message")>>)]

DungeonLayouts ==
    [MatchReq |-> Both(<<U64("party_id"), U32("dungeon_id"), Str("difficulty")>>),
     MatchFoundNotify |-> Both(<<Bool("success"), Str("code"), Str("message"),
                                 U64("party_id"), U64("instance_id"), Str("endpoint"),
                                 Str("ticket")>>),
     DungeonEnterReq |-> Both(<<U64("instance_id"), Str("ticket"), U64("char_id")>>),
     DungeonEnterRes |-> Both(<<Bool("success"), Str("code"), Str("message"),
                                U16("state"), U32("seed")>>),
     DungeonResultNotify |-> Both(<<U16("result"), U32("time_sec"), U16("deaths"),
                                    Items("rewards")>>),
     DungeonResultRes |-> Both(<<Bool("success"), Str("code"), Str("message"),
                                 Str("summary")>>)]

ChatLayouts ==
    [ChatSendReq |-> Both(<<U16("channel"), U64("party_id"), Str("message")>>),
     ChatSendRes |-> Both(<<Bool("success"), Str("message")>>),
     ChatEvent |-> Both(<<U16("channel"), U64("party_id"), Str("sender_user_id"),
                          Str("message")>>)]

InventoryLayouts ==
    [InventoryUpdateNotify |-> Both(<<U64("char_id"), Items("items")>>),
     InventoryUpdateRes |-> Both(<<Bool("success"), Str("code"), Str("message"),
                                   U64("inventory_version")>>)]

Layouts ==
    Merge(Merge(Merge(AccountLayouts, GuildLayouts), Merge(PartyLayouts, DungeonLayouts)),
          Merge(InventoryLayouts, ChatLayouts))

-----------------------------------------------------------------------------
(* Messages *)

Encode(type, body) ==
    LET writes == Layouts[type].writes
    IN  FlattenSeq([k \in DOMAIN writes |-> WriteField(writes[k][2], body[writes[k][1]])])

(* The message a payload stands for, as a set: empty when decode... refuses. *)
Decode(type, payload) ==
    LET reads == Layouts[type].reads
        names == {reads[k][1] : k \in DOMAIN reads}
    IN  {[f \in names |-> r[1][CHOOSE k \in DOMAIN reads : reads[k][1] = f]] :
            r \in {x \in ReadEach(ReadField, reads, payload) : x[2] = <<>>}}

-----------------------------------------------------------------------------
(* Frames: length, type, version, payload *)

HeaderSize == 8

EncodeFrame(type, version, payload) ==
    WriteUnsigned(4, Len(payload)) \o WriteUnsigned(2, type)
        \o WriteUnsigned(2, version) \o payload

(* The first frame of a buffer and what is left, or nothing yet. *)
NextFrame(buffer) ==
    UNION {LET type == Number(SubSeq(h[1], 5, 6))
               version == Number(SubSeq(h[1], 7, 8))
           IN  {<<[type |-> type, version |-> version, payload |-> p[1]], p[2]>> :
                    p \in ReadBytes(Number(SubSeq(h[1], 1, 4)), h[2])} :
            h \in ReadBytes(HeaderSize, buffer)}
=============================================================================
