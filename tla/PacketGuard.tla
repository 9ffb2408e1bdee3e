---------------------------- MODULE PacketGuard ----------------------------
(***************************************************************************)
(* The sequence numbers and nonces of one session (net/server.cpp,         *)
(* handlePacket with replay protection; net/session.cpp, recordNonce) over *)
(* a connection that delivers packets late, out of order, repeatedly or    *)
(* not at all. The client numbers its packets and uses no nonce twice.     *)
(* Now and then it sends a SessionReconnectReq, whose payload names any    *)
(* number whatever: last_seq_ becomes the larger of that number and of     *)
(* last_seq_ of the session taken over, which may be above or below what   *)
(* it was. The client may then go on from resume_from_seq.                 *)
(***************************************************************************)
EXTENDS Integers, SequencesExt

CONSTANTS
    NumberMod,      \* numbers on the wire are unsigned: 2^32 in the code
    NonceLimit,     \* SessionConfig::nonce_cache_limit
    MaxPackets,     \* bound on the packets sent
    MaxHandled      \* bound on the packets handled

ASSUME GuardConstants ==
    /\ NumberMod \in Nat \ {0} /\ NonceLimit \in Nat
    /\ MaxPackets \in Nat /\ MaxHandled \in Nat

Numbers == 0 .. NumberMod - 1

Payloads ==
    [type : {"Other"}] \cup [type : {"SessionReconnectReq"}, last_seq : Numbers]

VARIABLES
    clientSeq,      \* number of the client's last packet
    sent,           \* every packet the client has sent; the n-th has nonce n
    lastSeq,        \* last_seq_
    nonceOrder,     \* nonce_order_; nonce_cache_ holds the same nonces
    log             \* history: the packets given to a handler, in order, each
                    \* with last_seq_ after it

guardVars == <<clientSeq, sent, lastSeq, nonceOrder, log>>

GuardInit ==
    /\ clientSeq = 0 /\ sent = <<>>
    /\ lastSeq = 0 /\ nonceOrder = <<>>
    /\ log = <<>>

SendPacket(payload) ==
    /\ Len(sent) < MaxPackets
    /\ clientSeq' = (clientSeq + 1) % NumberMod
    /\ sent' = Append(sent, [seq |-> clientSeq', payload |-> payload])
    /\ UNCHANGED <<lastSeq, nonceOrder, log>>

-----------------------------------------------------------------------------
(* Mutant: room is made before the nonce is added, not after. *)
RecordNonceLateTrim(nonce) ==
    LET excess == IF Len(nonceOrder) > NonceLimit THEN Len(nonceOrder) - NonceLimit ELSE 0
    IN  nonceOrder' = Append(SubSeq(nonceOrder, excess + 1, Len(nonceOrder)), nonce)

RecordNonce(nonce) ==
    LET order == Append(nonceOrder, nonce)
        excess == IF Len(order) > NonceLimit THEN Len(order) - NonceLimit ELSE 0
    IN  nonceOrder' = SubSeq(order, excess + 1, Len(order))

PassesGuard(nonce) ==
    /\ sent[nonce].seq > lastSeq
    /\ nonce \notin Range(nonceOrder)

(* previous is last_seq_ of the session whose user reconnects here, 0 when   *)
(* there is none. A reconnect whose token is refused is a packet like any    *)
(* other. resume_from_seq, the number of the client's next packet if it does *)
(* as told, is the restored one plus 1.                                      *)
RestoreSeq(nonce) ==
    LET payload == sent[nonce].payload
    IN  /\ payload.type = "SessionReconnectReq"
        /\ \E previous \in Numbers :
            lastSeq' = IF payload.last_seq < previous THEN previous ELSE payload.last_seq
        /\ clientSeq' \in {clientSeq, lastSeq'}

(* Mutant: the sequence number of an ordinary packet is not kept. *)
HandlePacketKeepSeq(nonce) ==
    /\ Len(log) < MaxHandled
    /\ PassesGuard(nonce)
    /\ RecordNonce(nonce)
    /\ \/ UNCHANGED <<lastSeq, clientSeq>>
       \/ RestoreSeq(nonce)
    /\ log' = Append(log, [nonce |-> nonce, after |-> lastSeq'])
    /\ UNCHANGED sent

(* A packet that does not pass is dropped without a trace. *)
HandlePacket(nonce) ==
    /\ Len(log) < MaxHandled
    /\ PassesGuard(nonce)
    /\ RecordNonce(nonce)
    /\ \/ lastSeq' = sent[nonce].seq /\ UNCHANGED clientSeq
       \/ RestoreSeq(nonce)
    /\ log' = Append(log, [nonce |-> nonce, after |-> lastSeq'])
    /\ UNCHANGED sent

GuardNext ==
    \/ \E payload \in Payloads : SendPacket(payload)
    \/ \E nonce \in 1 .. Len(sent) : HandlePacket(nonce)

GuardSpec == GuardInit /\ [][GuardNext]_guardVars

-----------------------------------------------------------------------------
(* Type invariant of the session's replay fields: the nonce queue stays      *)
(* within nonce_cache_limit and holds no nonce twice.                        *)
GuardTypeOK ==
    /\ clientSeq \in Numbers /\ lastSeq \in Numbers
    /\ Len(nonceOrder) <= NonceLimit /\ IsInjective(nonceOrder)
    /\ Range(nonceOrder) \subseteq 1 .. Len(sent)

(* Of the packets handled from the i-th to the last before the j-th, one is  *)
(* a reconnect that left last_seq_ below the number given.                   *)
PutBack(number, i, j) ==
    \E k \in i .. j - 1 :
        /\ sent[log[k].nonce].payload.type = "SessionReconnectReq"
        /\ log[k].after < number

(* The two defences of handlePacket back each other up: a packet that the    *)
(* connection delivers again reaches a handler again only when both have     *)
(* given way, which takes a reconnect since that put last_seq_ below its     *)
(* number and nonce_cache_limit other packets since that pushed its nonce    *)
(* out of the cache. Numbers that wrap to 0 or are used again, reordered     *)
(* deliveries and refused reconnects are not enough.                         *)
ReplayNeedsReset ==
    \A i, j \in 1 .. Len(log) :
        (i < j /\ log[i].nonce = log[j].nonce) =>
            /\ PutBack(sent[log[i].nonce].seq, i, j)
            /\ j - i > NonceLimit
=============================================================================
