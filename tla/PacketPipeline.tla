--------------------------- MODULE PacketPipeline ---------------------------
(***************************************************************************)
(* net/io_layer.cpp with the frame decoder of net/codec.cpp: clients write *)
(* messages into connections, the network delivers the bytes in pieces of  *)
(* any size, the event loop collects events and drain hands them to the    *)
(* pipeline, which cuts frames out of each connection's bytes and gives    *)
(* them to the dispatch callback. The callback here decodes the payload as *)
(* handlePacket does. Connections end at any point, in the middle of a     *)
(* frame too, and their ids are used again; the client of the next         *)
(* connection sends its messages from the start.                           *)
(*                                                                         *)
(* The event loop and the pipeline belong to one thread. The handlers are  *)
(* those the tests install: registerConnection on accept, onRead on read,  *)
(* removeConnection on disconnect. Write events only count.                *)
(***************************************************************************)
EXTENDS Protocol, Maps

CONSTANTS
    Connections,    \* connection ids
    Scripts,        \* what the clients may send: connection -> messages
    ReadSizes,      \* sizes of the pieces that arrive
    MaxPending,     \* bound on the events between two calls of drain
    MaxConnects     \* bound on the connections that use one id

ASSUME PipelineConstants ==
    /\ ReadSizes \subseteq Nat \ {0}
    /\ MaxPending \in Nat /\ MaxConnects \in Nat

(* What is sent are messages whose bytes can be counted in a frame's header. *)
ASSUME ScriptsAreMessages ==
    \A s \in Scripts, c \in Connections :
        /\ s[c] \in Seq(ToSet(s[c]))
        /\ \A m \in ToSet(s[c]) :
            IsMessage(m) /\ Len(Encode(m.type, m.body)) <= UnsignedMax(4)

VARIABLES
    script,     \* the messages the client on each connection sends
    stream,     \* open connection -> bytes sent and not yet read
    pending,    \* IoEventLoop::pending_, without the events drain has handled
    draining,   \* drain is under way
    decoders,   \* PacketPipeline::decoders_: connection -> buffer_
    received,   \* history: messages the callback got, by connection
    connects    \* connection id -> connections made with it

pipelineVars == <<script, stream, pending, draining, decoders, received, connects>>

-----------------------------------------------------------------------------
PositionOf(type) == CHOOSE k \in DOMAIN PacketTypes : PacketTypes[k] = type

(* The protocol version is the lowest one, 1. *)
Frame(message) ==
    EncodeFrame(PositionOf(message.type), 1, Encode(message.type, message.body))

Bytes(messages) == FlattenSeq([k \in DOMAIN messages |-> Frame(messages[k])])

PipelineInit ==
    /\ script \in Scripts
    /\ stream = EmptyMap /\ pending = <<>> /\ draining = FALSE
    /\ decoders = EmptyMap
    /\ received = [c \in Connections |-> <<>>]
    /\ connects = [c \in Connections |-> 0]

-----------------------------------------------------------------------------
(* The network and IoEventLoop::enqueueEvent *)

EnqueueEvent(event) ==
    /\ ~draining /\ Len(pending) < MaxPending
    /\ pending' = Append(pending, event)
    /\ UNCHANGED <<script, draining, decoders, received>>

Connect(c) ==
    /\ c \notin DOMAIN stream /\ script[c] # <<>> /\ connects[c] < MaxConnects
    /\ connects' = [connects EXCEPT ![c] = @ + 1]
    /\ stream' = Put(stream, c, Bytes(script[c]))
    /\ EnqueueEvent([type |-> "Accept", connection |-> c])

Arrive(c, n) ==
    /\ c \in DOMAIN stream /\ stream[c] # <<>>
    /\ LET size == IF n < Len(stream[c]) THEN n ELSE Len(stream[c])
       IN  /\ EnqueueEvent([type |-> "Read", connection |-> c,
                            payload |-> Take(stream[c], size)])
           /\ stream' = Put(stream, c, Drop(stream[c], size))
    /\ UNCHANGED connects

(* What has not been read by then is lost. *)
Disconnect(c) ==
    /\ c \in DOMAIN stream
    /\ stream' = Without(stream, {c})
    /\ EnqueueEvent([type |-> "Disconnect", connection |-> c])
    /\ UNCHANGED connects

(* A read that completes after its connection was reported closed. *)
LateRead(c, n) ==
    /\ c \notin DOMAIN stream /\ connects[c] > 0
    /\ EnqueueEvent([type |-> "Read", connection |-> c, payload |-> Take(Bytes(script[c]), n)])
    /\ UNCHANGED <<stream, connects>>

-----------------------------------------------------------------------------
(* PacketPipeline, called by the handlers of the events *)

(* Nothing is replaced when the connection is known. *)
RegisterConnection(c) ==
    /\ decoders' = Emplace(decoders, c, <<>>)
    /\ received' = [received EXCEPT ![c] = <<>>]

(* Mutant: the decoder of a closed connection is kept. *)
RemoveConnectionKeep(c) == UNCHANGED <<decoders, received>>

RemoveConnection(c) ==
    /\ decoders' = Without(decoders, {c})
    /\ UNCHANGED received

(* What handlePacket makes of a frame: the message Decode gives, or nothing  *)
(* for a packet type it does not know.                                       *)
Dispatched(frame) ==
    UNION {{[type |-> PacketTypes[k], body |-> body] :
                body \in Decode(PacketTypes[k], frame.payload)} :
            k \in {frame.type} \cap DOMAIN PacketTypes}

(* Mutant: one frame is taken out of what has arrived, not all there are. *)
TakeOneFrame(buffer) ==
    IF NextFrame(buffer) = {} THEN {<< <<>>, buffer >>}
    ELSE {<< <<f[1]>>, f[2] >> : f \in NextFrame(buffer)}

(* The frames a buffer holds, in order, and the bytes left after them: one   *)
(* such pair, after a round of the loop for every frame there is room for.   *)
TakeFrames(buffer) ==
    LET most == Len(buffer) \div HeaderSize
        rounds[k \in 0 .. most] ==
            IF k = 0 THEN {<< <<>>, buffer >>}
            ELSE UNION {IF NextFrame(r[2]) = {} THEN {r}
                        ELSE {<<Append(r[1], f[1]), f[2]>> : f \in NextFrame(r[2])} :
                         r \in rounds[k - 1]}
    IN  rounds[most]

OnRead(c, payload) ==
    \/ /\ c \notin DOMAIN decoders
       /\ UNCHANGED <<decoders, received>>
    \/ /\ c \in DOMAIN decoders
       /\ \E taken \in TakeFrames(decoders[c] \o payload) :
            /\ decoders' = Put(decoders, c, taken[2])
            /\ received' = [received EXCEPT ![c] =
                    @ \o [k \in DOMAIN taken[1] |-> Dispatched(taken[1][k])]]

(* drain: one event after the other; no event joins them meanwhile. *)
Drain ==
    /\ pending # <<>>
    /\ LET event == Head(pending)
       IN  \/ event.type = "Accept" /\ RegisterConnection(event.connection)
           \/ event.type = "Read" /\ OnRead(event.connection, event.payload)
           \/ event.type = "Disconnect" /\ RemoveConnection(event.connection)
    /\ pending' = Tail(pending)
    /\ draining' = (Len(pending) > 1)
    /\ UNCHANGED <<script, stream, connects>>

-----------------------------------------------------------------------------
PipelineNext ==
    \/ \E c \in Connections :
        \/ Connect(c) \/ Disconnect(c)
        \/ \E n \in ReadSizes : Arrive(c, n) \/ LateRead(c, n)
    \/ Drain

PipelineSpec == PipelineInit /\ [][PipelineNext]_pipelineVars

(* The network delivers what was sent on a connection that stays, and the    *)
(* embedding program keeps calling drain. Nobody has to connect. (Fairness   *)
(* for arrivals is strong because of MaxPending: the code's list of events   *)
(* takes a piece whenever it arrives, however many others came before it.)   *)
FairPipelineSpec ==
    /\ PipelineSpec
    /\ \A c \in Connections : SF_pipelineVars(\E n \in ReadSizes : Arrive(c, n))
    /\ WF_pipelineVars(Drain)

-----------------------------------------------------------------------------
(* What a field holds after it was written and read: strings and lists keep  *)
(* what fits a 16-bit length.                                                *)
Kept(kind, v) ==
    CASE kind \in {"string", "items"} -> Limited(v)
      [] kind = "strings" -> [k \in DOMAIN Limited(v) |-> Limited(v[k])]
      [] OTHER -> v

AsKept(message) ==
    LET struct == Structs[message.type]
    IN  [type |-> message.type,
         body |-> [f \in DOMAIN struct |-> Kept(struct[f], message.body[f])]]

(* However the bytes are cut and whatever the connections before it left     *)
(* behind, what a connection's frames are decoded to are the messages its    *)
(* client sent, from the first one on, in order, none of them garbled.       *)
ReceivedAsSent ==
    \A c \in Connections :
        /\ Len(received[c]) <= Len(script[c])
        /\ \A k \in DOMAIN received[c] : received[c][k] = {AsKept(script[c][k])}

(* A payload that is cut short anywhere, or that has a byte too many, is     *)
(* refused by its decoder: no part of a message passes for a message. (What  *)
(* is sent never changes, so it is enough to look before anyone connects.)   *)
PartsAreRefused ==
    (\A c \in Connections : connects[c] = 0) =>
        \A c \in Connections : \A k \in DOMAIN script[c] :
            LET type == script[c][k].type
                payload == Encode(type, script[c][k].body)
            IN  /\ \A n \in 0 .. Len(payload) - 1 : Decode(type, Take(payload, n)) = {}
                /\ Decode(type, Append(payload, 0)) = {}

(* A client whose connection stays gets all its messages through: no frame   *)
(* is left lying in a decoder with all its bytes there.                      *)
MessagesGetThrough ==
    \A c \in Connections :
        c \in DOMAIN stream ~> c \notin DOMAIN stream \/ Len(received[c]) = Len(script[c])
=============================================================================
