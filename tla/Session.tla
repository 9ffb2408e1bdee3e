------------------------------ MODULE Session ------------------------------
(***************************************************************************)
(* net/session.cpp: one session's send queue, its token bucket and its     *)
(* timeout. Payloads are their sizes; time and the bucket's contents are   *)
(* integers. The user context and the replay fields are modelled in Server *)
(* and PacketGuard.                                                        *)
(***************************************************************************)
EXTENDS Integers, Sequences

CONSTANTS
    Limit,          \* SessionConfig::send_queue_limit_bytes
    Capacity,       \* SessionConfig::rate_limit_capacity
    RefillRate,     \* SessionConfig::rate_limit_refill_per_sec
    Timeout,        \* SessionConfig::timeout
    Policies,       \* the overflow policies a session is made with
    MaxPayload,     \* bound on the size of a payload
    MaxTime         \* bound on the clock

ASSUME SessionConstants ==
    /\ Limit \in Nat /\ Capacity \in Nat /\ RefillRate \in Nat /\ Timeout \in Nat
    /\ Policies \subseteq {"DropNewest", "DropOldest", "Disconnect"}
    /\ MaxPayload \in Nat /\ MaxTime \in Nat

VARIABLES
    policy,         \* config_.overflow_policy
    now,            \* the steady clock
    connected,      \* connected_
    sendQueue,      \* send_queue_, as the sizes of the payloads
    queuedBytes,    \* send_queue_bytes_
    bucket,         \* bucket_: tokens and time of the last refill
    lastReceive,    \* last_receive_
    passed,         \* history: bytes that ever entered the queue
    passedBefore    \* history: value of passed when the clock reached a time

history == <<passed, passedBefore>>
sessionVars == <<policy, now, connected, sendQueue, queuedBytes, bucket, lastReceive, history>>

-----------------------------------------------------------------------------
SessionInit ==
    /\ policy \in Policies
    /\ now = 0
    /\ connected = TRUE
    /\ sendQueue = <<>> /\ queuedBytes = 0
    /\ bucket = [tokens |-> Capacity, lastRefill |-> 0]
    /\ lastReceive = 0
    /\ passed = 0 /\ passedBefore = [t \in {0} |-> 0]

OnReceive ==
    /\ lastReceive' = now
    /\ UNCHANGED <<policy, now, connected, sendQueue, queuedBytes, bucket, history>>

-----------------------------------------------------------------------------
(* Mutant: the bucket is filled beyond its capacity. *)
RefilledUncapped ==
    bucket.tokens + (now - bucket.lastRefill) * RefillRate

Refilled ==
    LET tokens == bucket.tokens + (now - bucket.lastRefill) * RefillRate
    IN  IF tokens < Capacity THEN tokens ELSE Capacity

RateLimited(size) ==
    /\ Refilled < size
    /\ bucket' = [tokens |-> Refilled, lastRefill |-> now]
    /\ UNCHANGED <<connected, sendQueue, queuedBytes, history>>

Consume(size) ==
    /\ Refilled >= size
    /\ bucket' = [tokens |-> Refilled - size, lastRefill |-> now]

TotalOf(queue) ==
    LET sum[i \in 0 .. Len(queue)] == IF i = 0 THEN 0 ELSE sum[i - 1] + queue[i]
    IN  sum[Len(queue)]

(* Mutant: the byte counter is not lowered for the payloads dropped. *)
DropOldestUncounted(size) ==
    LET fits(n) == queuedBytes - TotalOf(SubSeq(sendQueue, 1, n)) + size <= Limit
    IN  \E n \in 0 .. Len(sendQueue) :
            /\ fits(n) \/ n = Len(sendQueue)
            /\ \A k \in 0 .. n - 1 : ~fits(k)
            /\ sendQueue' = Append(SubSeq(sendQueue, n + 1, Len(sendQueue)), size)
            /\ queuedBytes' = queuedBytes + size

(* Mutant: one payload is dropped, whether or not that is enough. *)
DropOldestOnce(size) ==
    LET n == IF sendQueue = <<>> THEN 0 ELSE 1
    IN  /\ sendQueue' = Append(SubSeq(sendQueue, n + 1, Len(sendQueue)), size)
        /\ queuedBytes' = queuedBytes - TotalOf(SubSeq(sendQueue, 1, n)) + size

(* The oldest payloads are dropped until the new one fits or none is left.   *)
DropOldest(size) ==
    LET fits(n) == queuedBytes - TotalOf(SubSeq(sendQueue, 1, n)) + size <= Limit
    IN  \E n \in 0 .. Len(sendQueue) :
            /\ fits(n) \/ n = Len(sendQueue)
            /\ \A k \in 0 .. n - 1 : ~fits(k)
            /\ sendQueue' = Append(SubSeq(sendQueue, n + 1, Len(sendQueue)), size)
            /\ queuedBytes' = queuedBytes - TotalOf(SubSeq(sendQueue, 1, n)) + size

(* A payload that is refused by the queue has still used up its tokens.      *)
Enqueue(size) ==
    \/ /\ queuedBytes + size <= Limit
       /\ sendQueue' = Append(sendQueue, size)
       /\ queuedBytes' = queuedBytes + size
       /\ passed' = passed + size
       /\ UNCHANGED connected
    \/ /\ queuedBytes + size > Limit
       /\ policy = "DropOldest"
       /\ DropOldest(size)
       /\ passed' = passed + size
       /\ UNCHANGED connected
    \/ /\ queuedBytes + size > Limit
       /\ policy # "DropOldest"
       /\ connected' = (policy = "DropNewest")
       /\ UNCHANGED <<sendQueue, queuedBytes, passed>>

(* Mutant: a payload that finds the queue too full is let through unpaid. *)
EnqueueSendUnpaid(size) ==
    /\ connected
    /\ \/ RateLimited(size)
       \/ /\ Refilled >= size /\ bucket' = [tokens |-> Refilled, lastRefill |-> now]
          /\ Enqueue(size) /\ UNCHANGED passedBefore
    /\ UNCHANGED <<policy, now, lastReceive>>

EnqueueSend(size) ==
    /\ connected
    /\ \/ RateLimited(size)
       \/ Consume(size) /\ Enqueue(size) /\ UNCHANGED passedBefore
    /\ UNCHANGED <<policy, now, lastReceive>>

(* A disconnected session's queue can still be emptied. *)
DequeueSend ==
    /\ sendQueue # <<>>
    /\ queuedBytes' = queuedBytes - Head(sendQueue)
    /\ sendQueue' = Tail(sendQueue)
    /\ UNCHANGED <<policy, now, connected, bucket, lastReceive, history>>

-----------------------------------------------------------------------------
TickSession ==
    /\ connected
    /\ now - lastReceive >= Timeout
    /\ connected' = FALSE
    /\ UNCHANGED <<policy, now, sendQueue, queuedBytes, bucket, lastReceive, history>>

Advance ==
    /\ now < MaxTime
    /\ now' = now + 1
    /\ passedBefore' = [t \in 0 .. now + 1 |-> IF t = now + 1 THEN passed ELSE passedBefore[t]]
    /\ UNCHANGED <<policy, connected, sendQueue, queuedBytes, bucket, lastReceive, passed>>

SessionNext ==
    \/ OnReceive
    \/ \E size \in 1 .. MaxPayload : EnqueueSend(size)
    \/ DequeueSend
    \/ TickSession
    \/ Advance

SessionSpec == SessionInit /\ [][SessionNext]_sessionVars

-----------------------------------------------------------------------------
(* Type invariant of a Session object: the bucket never holds more than its  *)
(* capacity, and its last refill is not in the future.                       *)
SessionTypeOK ==
    /\ policy \in Policies
    /\ now \in Nat /\ lastReceive \in 0 .. now
    /\ connected \in BOOLEAN
    /\ sendQueue \in Seq(Nat) /\ queuedBytes \in Nat
    /\ bucket \in [tokens : 0 .. Capacity, lastRefill : 0 .. now]
    /\ passed \in Nat /\ passedBefore \in [0 .. now -> 0 .. passed]

(* send_queue_bytes_ is the number of bytes in the queue, whatever was       *)
(* dropped on overflow: Session::queuedBytes reports it.                     *)
BytesMatchQueue == queuedBytes = TotalOf(sendQueue)

(* The queue exceeds send_queue_limit_bytes only when it holds one single    *)
(* payload, one that is larger than the limit itself, under DropOldest.      *)
OverLimitAlone ==
    queuedBytes > Limit => policy = "DropOldest" /\ Len(sendQueue) = 1

(* The bytes that enter the queue in any interval of time are covered by     *)
(* one full bucket and the refill of that interval, however sends, rejected  *)
(* sends and pauses alternate.                                               *)
RateBounded ==
    \A t \in 0 .. now : passed - passedBefore[t] <= Capacity + RefillRate * (now - t)
=============================================================================
