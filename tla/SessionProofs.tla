--------------------------- MODULE SessionProofs ---------------------------
(***************************************************************************)
(* One session of net/session.cpp, for every capacity, refill rate, limit, *)
(* overflow policy and sequence of sends: the token bucket lets no more    *)
(* through than it promises, and the byte counter of the send queue is     *)
(* right, within its limit and within its type.                            *)
(***************************************************************************)
EXTENDS Session, WellFoundedInduction, TLAPS

(* The types the argument needs, a part of SessionTypeOK. *)
BucketTypes ==
    /\ now \in Nat
    /\ bucket = [tokens |-> bucket.tokens, lastRefill |-> bucket.lastRefill]
    /\ bucket.tokens \in 0 .. Capacity
    /\ bucket.lastRefill \in 0 .. now
    /\ passed \in Nat
    /\ passedBefore \in [0 .. now -> Nat]

(* What flows into the bucket from time a to time b. *)
Refill(a, b) == RefillRate * (b - a)

(* What is left in the bucket is part of the account of every interval that  *)
(* reaches back beyond the last refill; since then nothing has passed.       *)
Account ==
    \A t \in 0 .. now :
        /\ t <= bucket.lastRefill =>
             passed - passedBefore[t] + bucket.tokens
                <= Capacity + Refill(t, bucket.lastRefill)
        /\ t > bucket.lastRefill => passedBefore[t] = passed

RateInv == BucketTypes /\ Account

(* The refill of an interval is the sum of the refills of its parts. *)
LEMMA RefillAdds ==
    ASSUME NEW a \in Nat, NEW b \in Nat, NEW c \in Nat, a <= b, b <= c
    PROVE  /\ Refill(a, b) \in Nat
           /\ Refill(b, c) \in Nat
           /\ Refill(a, c) = Refill(a, b) + Refill(b, c)
           /\ Refill(b, c) = (c - b) * RefillRate
<1>1. RefillRate \in Nat
    BY SessionConstants
<1>2. PICK x \in Nat : b = a + x
    <2>1. b - a \in Nat /\ b = a + (b - a)
        OBVIOUS
    <2> QED BY <2>1
<1>3. PICK y \in Nat : c = b + y
    <2>1. c - b \in Nat /\ c = b + (c - b)
        OBVIOUS
    <2> QED BY <2>1
<1>4. b - a = x /\ c - b = y /\ c - a = x + y
    BY <1>2, <1>3
<1>5. RefillRate * x \in Nat /\ RefillRate * y \in Nat
    BY <1>1, SMT
<1>6. RefillRate * (x + y) = RefillRate * x + RefillRate * y
    BY <1>1, SMT
<1>7. y * RefillRate = RefillRate * y
    BY <1>1, SMT
<1> QED BY <1>4, <1>5, <1>6, <1>7 DEF Refill

(* The refill since time t, split at the last refill of the bucket. *)
LEMMA RefillSplit ==
    ASSUME RateInv, NEW t \in 0 .. now, t <= bucket.lastRefill
    PROVE  /\ Refill(t, bucket.lastRefill) \in Nat
           /\ Refill(bucket.lastRefill, now) \in Nat
           /\ Refill(t, now) = Refill(t, bucket.lastRefill) + Refill(bucket.lastRefill, now)
<1>1. /\ t \in Nat /\ bucket.lastRefill \in Nat /\ now \in Nat
      /\ t <= bucket.lastRefill /\ bucket.lastRefill <= now
    BY DEF RateInv, BucketTypes
<1>2. PICK a \in Nat : a = bucket.lastRefill
    BY <1>1
<1>3. PICK b \in Nat : b = now
    BY <1>1
<1>4. /\ Refill(t, a) \in Nat /\ Refill(a, b) \in Nat
      /\ Refill(t, b) = Refill(t, a) + Refill(a, b)
    <2>1. t \in Nat /\ t <= a /\ a <= b
        BY <1>1, <1>2, <1>3
    <2> QED BY <2>1, RefillAdds
<1> QED BY <1>2, <1>3, <1>4

(* What TokenBucket::consume finds after the refill.                         *)
LEMMA RefilledBounds ==
    ASSUME RateInv
    PROVE  /\ Refilled \in 0 .. Capacity
           /\ Refilled <= bucket.tokens + Refill(bucket.lastRefill, now)
<1> DEFINE lr == bucket.lastRefill
           r == Refill(lr, now)
           k == bucket.tokens
<1>1. /\ now \in Nat /\ lr \in Nat /\ lr <= now
      /\ k \in Nat /\ k <= Capacity /\ Capacity \in Nat
    BY SessionConstants DEF RateInv, BucketTypes
<1> HIDE DEF lr, k
<1>2. r \in Nat /\ (now - lr) * RefillRate = r
    <2>1. lr <= lr
        BY <1>1
    <2> QED BY <1>1, <2>1, RefillAdds
<1>3. Refilled = IF k + r < Capacity THEN k + r ELSE Capacity
    BY <1>2 DEF Refilled, lr, k
<1> HIDE DEF r
<1>4. Refilled \in 0 .. Capacity /\ Refilled <= k + r
    BY <1>1, <1>2, <1>3
<1> QED BY <1>4 DEF lr, r, k

(* A step that settles the bucket at the present time and lets size bytes    *)
(* through, for which it has taken the tokens, keeps the account.            *)
LEMMA SettleInv ==
    ASSUME RateInv, NEW size \in Nat, NEW through \in Nat, through <= size,
           size <= Refilled,
           bucket' = [tokens |-> Refilled - size, lastRefill |-> now],
           passed' = passed + through,
           UNCHANGED <<now, passedBefore>>
    PROVE  RateInv'
<1> DEFINE lr == bucket.lastRefill
           k == bucket.tokens
           f == Refilled
<1>1. /\ now \in Nat /\ lr \in Nat /\ lr <= now
      /\ k \in Nat /\ passed \in Nat /\ Capacity \in Nat
      /\ passedBefore \in [0 .. now -> Nat]
    BY SessionConstants DEF RateInv, BucketTypes
<1>2. f \in 0 .. Capacity /\ f <= k + Refill(lr, now)
    BY RefilledBounds
<1>3. bucket'.tokens = f - size /\ bucket'.lastRefill = now
    OBVIOUS
<1> HIDE DEF f, lr, k
<1>4. BucketTypes'
    <2>1. f - size \in 0 .. Capacity
        BY <1>1, <1>2 DEF f
    <2>2. passed' \in Nat
        BY <1>1
    <2> QED BY <1>1, <1>3, <2>1, <2>2 DEF BucketTypes, f
<1>5. ASSUME NEW t \in 0 .. now
      PROVE  passed' - passedBefore[t] + (f - size) <= Capacity + Refill(t, now)
    <2>1. t \in Nat /\ t <= now /\ passedBefore[t] \in Nat
        BY <1>1
    <2>2. CASE t <= lr
        <3>1. passed - passedBefore[t] + k <= Capacity + Refill(t, lr)
            BY <2>2 DEF RateInv, Account, lr, k
        <3>2. /\ Refill(t, lr) \in Nat /\ Refill(lr, now) \in Nat
              /\ Refill(t, now) = Refill(t, lr) + Refill(lr, now)
            BY <2>2, RefillSplit DEF lr
        <3> DEFINE A == Refill(t, lr)
                   B == Refill(lr, now)
                   b == passedBefore[t]
        <3> HIDE DEF A, B, b
        <3>3. /\ passed - b + k <= Capacity + A
              /\ A \in Nat /\ B \in Nat /\ b \in Nat /\ k \in Nat
              /\ f <= k + B /\ f \in 0 .. Capacity
            BY <1>1, <1>2, <2>1, <3>1, <3>2 DEF A, B, b
        <3>4. (passed + through) - b + (f - size) <= Capacity + (A + B)
            BY <1>1, <3>3
        <3> QED BY <3>2, <3>4 DEF A, B, b
    <2>3. CASE t > lr
        <3>1. passedBefore[t] = passed
            BY <2>3 DEF RateInv, Account, lr
        <3>2. Refill(t, now) \in Nat
            <4>1. t <= t
                BY <2>1
            <4> QED BY <1>1, <2>1, <4>1, RefillAdds
        <3> DEFINE A == Refill(t, now)
        <3> HIDE DEF A
        <3>3. (passed + through) - passed + (f - size) <= Capacity + A
            BY <1>1, <1>2, <3>2 DEF A
        <3> QED BY <3>1, <3>3 DEF A
    <2> QED BY <1>1, <2>1, <2>2, <2>3
<1>6. Account'
    <2>1. now' = now /\ passedBefore' = passedBefore
        OBVIOUS
    <2>2. ASSUME NEW t \in 0 .. now
          PROVE  ~(t > now)
        BY <1>1
    <2> QED BY <1>3, <1>5, <2>1, <2>2 DEF Account
<1> QED BY <1>4, <1>6 DEF RateInv

(* The account is kept by every step of a session. *)
LEMMA RateStep ==
    ASSUME RateInv, [SessionNext]_sessionVars
    PROVE  RateInv'
<1>1. CASE UNCHANGED <<now, bucket, passed, passedBefore>>
    BY <1>1 DEF RateInv, BucketTypes, Account
<1>2. ASSUME NEW size \in 1 .. MaxPayload, EnqueueSend(size)
      PROVE  RateInv'
    <2>0. /\ Refilled \in 0 .. Capacity /\ Capacity \in Nat /\ size \in Nat
          /\ MaxPayload \in Nat /\ passed \in Nat
        BY RefilledBounds, SessionConstants DEF RateInv, BucketTypes
    <2>1. UNCHANGED <<now, passedBefore>>
        BY <1>2 DEF EnqueueSend, RateLimited, history
    <2>2. CASE RateLimited(size)
        <3>1. passed' = passed + 0
            BY <2>0, <2>2 DEF RateLimited, history
        <3>2. bucket' = [tokens |-> Refilled - 0, lastRefill |-> now]
            BY <2>0, <2>2 DEF RateLimited
        <3>3. 0 \in Nat /\ 0 <= 0 /\ 0 <= Refilled
            BY <2>0
        <3> QED BY <2>1, <3>1, <3>2, <3>3, SettleInv
    <2>3. CASE Consume(size) /\ Enqueue(size)
        <3>1. /\ size <= Refilled
              /\ bucket' = [tokens |-> Refilled - size, lastRefill |-> now]
            BY <2>0, <2>3 DEF Consume
        <3>2. PICK through \in {0, size} : passed' = passed + through
            BY <2>0, <2>3 DEF Enqueue
        <3>3. through \in Nat /\ through <= size
            BY <2>0, <3>2
        <3> QED BY <2>0, <2>1, <3>1, <3>2, <3>3, SettleInv
    <2> QED BY <1>2, <2>2, <2>3 DEF EnqueueSend
<1>3. CASE Advance
    <2>1. /\ now \in Nat /\ now' = now + 1 /\ bucket' = bucket /\ passed' = passed
          /\ passed \in Nat /\ bucket.lastRefill \in 0 .. now
          /\ passedBefore \in [0 .. now -> Nat]
          /\ passedBefore' = [t \in 0 .. now + 1 |->
                                IF t = now + 1 THEN passed ELSE passedBefore[t]]
        BY <1>3 DEF Advance, RateInv, BucketTypes
    <2>2. BucketTypes'
        <3>1. passedBefore' \in [0 .. now' -> Nat]
            BY <2>1
        <3>2. now' \in Nat /\ bucket'.lastRefill \in 0 .. now'
            BY <2>1
        <3> QED BY <2>1, <3>1, <3>2 DEF BucketTypes, RateInv
    <2>3. Account'
        <3> SUFFICES ASSUME NEW t \in 0 .. now'
                     PROVE  /\ t <= bucket.lastRefill =>
                                 passed - passedBefore'[t] + bucket.tokens
                                    <= Capacity + Refill(t, bucket.lastRefill)
                            /\ t > bucket.lastRefill => passedBefore'[t] = passed
            BY <2>1 DEF Account, Refill
        <3>1. CASE t = now + 1
            BY <2>1, <3>1
        <3>2. CASE t \in 0 .. now
            <4>1. passedBefore'[t] = passedBefore[t]
                BY <2>1, <3>2
            <4> QED BY <3>2, <4>1 DEF RateInv, Account
        <3> QED BY <2>1, <3>1, <3>2
    <2> QED BY <2>2, <2>3 DEF RateInv
<1>4. CASE OnReceive \/ DequeueSend \/ TickSession
    <2>1. UNCHANGED <<now, bucket, passed, passedBefore>>
        BY <1>4 DEF OnReceive, DequeueSend, TickSession, history
    <2> QED BY <1>1, <2>1
<1>5. CASE UNCHANGED sessionVars
    <2>1. UNCHANGED <<now, bucket, passed, passedBefore>>
        BY <1>5 DEF sessionVars, history
    <2> QED BY <1>1, <2>1
<1> QED BY <1>2, <1>3, <1>4, <1>5 DEF SessionNext

(* Every state of the token bucket satisfies the account. *)
THEOREM RateInvariant == SessionSpec => []RateInv
<1>1. SessionInit => RateInv
    <2> SUFFICES ASSUME SessionInit PROVE RateInv
        OBVIOUS
    <2>1. BucketTypes
        BY SessionConstants DEF SessionInit, BucketTypes
    <2>2. Refill(0, 0) \in Nat
        BY RefillAdds
    <2>3. Account
        BY <2>2, SessionConstants DEF SessionInit, Account
    <2> QED BY <2>1, <2>3 DEF RateInv
<1>2. RateInv /\ [SessionNext]_sessionVars => RateInv'
    BY RateStep
<1> QED BY <1>1, <1>2, PTL DEF SessionSpec

(* Bytes enter the send queue no faster than the bucket allows, over every   *)
(* interval of time, for every capacity, refill rate and overflow policy:    *)
(* Session::enqueueSend with TokenBucket::consume.                           *)
THEOREM RateLimitHolds == SessionSpec => []RateBounded
<1>1. RateInv => RateBounded
    <2> SUFFICES ASSUME RateInv, NEW t \in 0 .. now
                 PROVE  passed - passedBefore[t] <= Capacity + Refill(t, now)
        BY DEF RateBounded, Refill
    <2>1. /\ now \in Nat /\ passed \in Nat /\ passedBefore[t] \in Nat /\ t \in Nat
          /\ t <= now /\ bucket.lastRefill \in Nat /\ bucket.lastRefill <= now
          /\ bucket.tokens \in Nat /\ Capacity \in Nat
        BY SessionConstants DEF RateInv, BucketTypes
    <2>2. CASE t <= bucket.lastRefill
        <3>1. /\ Refill(t, bucket.lastRefill) \in Nat /\ Refill(bucket.lastRefill, now) \in Nat
              /\ Refill(t, now) = Refill(t, bucket.lastRefill) + Refill(bucket.lastRefill, now)
            BY <2>2, RefillSplit
        <3>2. passed - passedBefore[t] + bucket.tokens
                <= Capacity + Refill(t, bucket.lastRefill)
            BY <2>2 DEF RateInv, Account
        <3> QED BY <2>1, <3>1, <3>2
    <2>3. CASE t > bucket.lastRefill
        <3>1. t <= t /\ passedBefore[t] = passed
            BY <2>1, <2>3 DEF RateInv, Account
        <3>2. Refill(t, now) \in Nat
            BY <2>1, <3>1, RefillAdds
        <3> QED BY <2>1, <3>1, <3>2
    <2> QED BY <2>1, <2>2, <2>3
<1> QED BY <1>1, RateInvariant, PTL

-----------------------------------------------------------------------------
(* The bytes of a queue *)

(* Induction over the numbers, for a set: a number missing from it would     *)
(* have a least one.                                                         *)
Below == {p \in Nat \X Nat : p[1] < p[2]}

LEMMA BelowWellFounded == IsWellFoundedOn(Below, Nat)
  BY NatLessThanWellFounded DEF OpToRel, Below

LEMMA SetInduction ==
    ASSUME NEW T, 0 \in T, \A n \in Nat : n \in T => n + 1 \in T
    PROVE  \A n \in Nat : n \in T
  <1> SUFFICES ASSUME Nat \ T # {}
               PROVE  FALSE
    OBVIOUS
  <1>1. PICK least \in Nat \ T : \A n \in Nat \ T : <<n, least>> \notin Below
    <2>1. Nat \ T \subseteq Nat
      OBVIOUS
    <2> QED
      BY <2>1, WFMin, BelowWellFounded
  <1>2. least - 1 \in Nat /\ least - 1 < least /\ least - 1 + 1 = least
    OBVIOUS
  <1>3. <<least - 1, least>> \in Below
    BY <1>2 DEF Below
  <1>4. least - 1 \in T
    BY <1>1, <1>2, <1>3
  <1> QED
    BY <1>2, <1>4

(* f counts the bytes of the first payloads of the queue, up to the k-th. *)
Counts(f, queue, k) == f = [i \in 0 .. k |-> IF i = 0 THEN 0 ELSE f[i - 1] + queue[i]]

LEMMA CountsValues ==
    ASSUME NEW f, NEW queue, NEW k \in Nat, Counts(f, queue, k)
    PROVE  /\ f[0] = 0
           /\ \A i \in 1 .. k : f[i] = f[i - 1] + queue[i]
  <1>1. \A i \in 0 .. k : f[i] = IF i = 0 THEN 0 ELSE f[i - 1] + queue[i]
    BY DEF Counts
  <1> QED
    BY <1>1

(* Every queue can be counted. *)
LEMMA CountsExist ==
    ASSUME NEW queue \in Seq(Nat)
    PROVE  \A k \in 0 .. Len(queue) : \E f \in [0 .. k -> Nat] : Counts(f, queue, k)
  <1> DEFINE T == {k \in Nat : k <= Len(queue) => \E f \in [0 .. k -> Nat] : Counts(f, queue, k)}
  <1>1. 0 \in T
    <2> DEFINE f == [i \in 0 .. 0 |-> 0]
    <2>1. f \in [0 .. 0 -> Nat] /\ Counts(f, queue, 0)
      BY DEF Counts
    <2> HIDE DEF f
    <2> QED
      BY <2>1
  <1>2. ASSUME NEW k \in Nat, k \in T
        PROVE  k + 1 \in T
    <2> SUFFICES ASSUME k + 1 <= Len(queue)
                 PROVE  \E g \in [0 .. k + 1 -> Nat] : Counts(g, queue, k + 1)
      OBVIOUS
    <2>1. Len(queue) \in Nat /\ k <= Len(queue) /\ queue[k + 1] \in Nat
      OBVIOUS
    <2>2. PICK f \in [0 .. k -> Nat] : Counts(f, queue, k)
      BY <1>2, <2>1
    <2> DEFINE g == [i \in 0 .. k + 1 |-> IF i = k + 1 THEN f[k] + queue[k + 1] ELSE f[i]]
    <2>3. /\ g \in [0 .. k + 1 -> Nat]
          /\ g[k + 1] = f[k] + queue[k + 1]
          /\ \A i \in 0 .. k : g[i] = f[i]
      BY <2>1
    <2>4. f[0] = 0 /\ \A i \in 1 .. k : f[i] = f[i - 1] + queue[i]
      BY <2>2, CountsValues
    <2> HIDE DEF g
    <2>5. ASSUME NEW i \in 0 .. k + 1
          PROVE  g[i] = IF i = 0 THEN 0 ELSE g[i - 1] + queue[i]
      <3>1. CASE i = 0
        BY <2>3, <2>4, <3>1
      <3>2. CASE i \in 1 .. k
        <4>1. i - 1 \in 0 .. k /\ i \in 0 .. k /\ i # 0
          BY <3>2
        <4> QED
          BY <2>3, <2>4, <3>2, <4>1
      <3>3. CASE i = k + 1
        <4>1. i - 1 = k /\ k \in 0 .. k /\ i # 0
          BY <3>3
        <4> QED
          BY <2>3, <3>3, <4>1
      <3> QED
        BY <3>1, <3>2, <3>3
    <2>6. Counts(g, queue, k + 1)
      BY <2>3, <2>5 DEF Counts
    <2> QED
      BY <2>3, <2>6
  <1> HIDE DEF T
  <1>3. \A k \in Nat : k \in T
    BY <1>1, <1>2, SetInduction
  <1> QED
    BY <1>3 DEF T

(* There is one way to count. *)
LEMMA CountsUnique ==
    ASSUME NEW queue, NEW k \in Nat, NEW f, Counts(f, queue, k), NEW g, Counts(g, queue, k)
    PROVE  f[k] = g[k]
  <1> DEFINE T == {i \in Nat : i <= k => f[i] = g[i]}
  <1>1. /\ f[0] = 0 /\ \A i \in 1 .. k : f[i] = f[i - 1] + queue[i]
        /\ g[0] = 0 /\ \A i \in 1 .. k : g[i] = g[i - 1] + queue[i]
    BY CountsValues
  <1>2. 0 \in T
    BY <1>1
  <1>3. ASSUME NEW i \in Nat, i \in T
        PROVE  i + 1 \in T
    <2> SUFFICES ASSUME i + 1 <= k
                 PROVE  f[i + 1] = g[i + 1]
      OBVIOUS
    <2>1. i + 1 \in 1 .. k /\ (i + 1) - 1 = i /\ f[i] = g[i]
      BY <1>3
    <2> QED
      BY <1>1, <2>1
  <1> HIDE DEF T
  <1>4. k \in T
    BY <1>2, <1>3, SetInduction
  <1> QED
    BY <1>4 DEF T

(* TotalOf is what any count of the whole queue ends with. *)
LEMMA TotalOfCounts ==
    ASSUME NEW queue \in Seq(Nat), NEW f, Counts(f, queue, Len(queue))
    PROVE  TotalOf(queue) = f[Len(queue)]
  <1>1. \E g : Counts(g, queue, Len(queue)) /\ TotalOf(queue) = g[Len(queue)]
    BY DEF Counts, TotalOf
  <1>2. Len(queue) \in Nat
    OBVIOUS
  <1> QED
    BY <1>1, <1>2, CountsUnique

LEMMA TotalOfNat ==
    ASSUME NEW queue \in Seq(Nat)
    PROVE  TotalOf(queue) \in Nat
  <1>1. Len(queue) \in 0 .. Len(queue) /\ Len(queue) \in Nat
    OBVIOUS
  <1>2. PICK f \in [0 .. Len(queue) -> Nat] : Counts(f, queue, Len(queue))
    BY <1>1, CountsExist
  <1> QED
    BY <1>1, <1>2, TotalOfCounts

(* One payload more. *)
LEMMA TotalOfAppend ==
    ASSUME NEW queue \in Seq(Nat), NEW size \in Nat
    PROVE  TotalOf(Append(queue, size)) = TotalOf(queue) + size
  <1> DEFINE more == Append(queue, size)
             k == Len(queue)
  <1>1. /\ k \in Nat /\ more \in Seq(Nat) /\ Len(more) = k + 1 /\ more[k + 1] = size
        /\ \A i \in 1 .. k : more[i] = queue[i]
    OBVIOUS
  <1> HIDE DEF more, k
  <1>2. PICK f \in [0 .. k + 1 -> Nat] : Counts(f, more, k + 1)
    <2>1. k + 1 \in 0 .. Len(more)
      BY <1>1
    <2> QED
      BY <1>1, <2>1, CountsExist
  <1>3. f[0] = 0 /\ \A i \in 1 .. k + 1 : f[i] = f[i - 1] + more[i]
    <2>1. k + 1 \in Nat
      BY <1>1
    <2> QED
      BY <1>2, <2>1, CountsValues
  <1> DEFINE g == [i \in 0 .. k |-> f[i]]
  <1>4. DOMAIN g = 0 .. k /\ \A i \in 0 .. k : g[i] = f[i]
    OBVIOUS
  <1>5. g = [i \in 0 .. k |-> g[i]]
    OBVIOUS
  <1> HIDE DEF g
  <1>6. ASSUME NEW i \in 0 .. k
        PROVE  g[i] = IF i = 0 THEN 0 ELSE g[i - 1] + queue[i]
    <2>1. CASE i = 0
      BY <1>3, <1>4, <2>1
    <2>2. CASE i # 0
      <3>1. i \in 1 .. k /\ i \in 1 .. k + 1 /\ i - 1 \in 0 .. k
        BY <1>1, <2>2
      <3> QED
        BY <1>1, <1>3, <1>4, <2>2, <3>1
    <2> QED
      BY <2>1, <2>2
  <1>7. Counts(g, queue, k)
    BY <1>5, <1>6 DEF Counts
  <1>8. TotalOf(queue) = f[k]
    <2>1. k \in 0 .. k
      BY <1>1
    <2> QED
      BY <1>4, <1>7, <2>1, TotalOfCounts DEF k
  <1>9. TotalOf(more) = f[k + 1]
    BY <1>1, <1>2, TotalOfCounts
  <1>10. f[k + 1] = f[k] + size
    <2>1. k + 1 \in 1 .. k + 1 /\ (k + 1) - 1 = k
      BY <1>1
    <2> QED
      BY <1>1, <1>3, <2>1
  <1> QED
    BY <1>8, <1>9, <1>10 DEF more

(* The part of a queue between two places. *)
LEMMA TotalOfPart ==
    ASSUME NEW queue \in Seq(Nat),
           NEW f \in [0 .. Len(queue) -> Nat], Counts(f, queue, Len(queue)),
           NEW a \in 0 .. Len(queue), NEW b \in 0 .. Len(queue), a <= b
    PROVE  TotalOf(SubSeq(queue, a + 1, b)) = f[b] - f[a]
  <1> DEFINE part == SubSeq(queue, a + 1, b)
             n == Len(queue)
             k == b - a
             g == [i \in 0 .. k |-> f[a + i] - f[a]]
  <1>1. /\ n \in Nat /\ a \in Nat /\ b \in Nat /\ b <= n /\ k \in Nat
        /\ part \in Seq(Nat) /\ Len(part) = k
        /\ \A i \in 1 .. k : part[i] = queue[a + i]
    OBVIOUS
  <1>3. f \in [0 .. n -> Nat] /\ \A i \in 1 .. n : queue[i] \in Nat
    OBVIOUS
  <1>4. \A i \in 0 .. k : a + i \in 0 .. n
    BY <1>1
  <1>5. g = [i \in 0 .. k |-> g[i]] /\ \A i \in 0 .. k : g[i] = f[a + i] - f[a]
    OBVIOUS
  <1>6. a + k = b /\ k \in 0 .. k
    BY <1>1
  <1>c. Counts(f, queue, n)
    OBVIOUS
  <1> HIDE DEF part, n, k, g
  <1>2. f[0] = 0 /\ \A i \in 1 .. n : f[i] = f[i - 1] + queue[i]
    <2>1. n \in Nat
      BY <1>1
    <2> QED
      BY <1>c, <2>1, CountsValues, Zenon
  <1>7. ASSUME NEW i \in 0 .. k
        PROVE  g[i] = IF i = 0 THEN 0 ELSE g[i - 1] + part[i]
    <2>1. CASE i = 0
      <3>1. a + 0 = a /\ f[a] \in Nat
        BY <1>1, <1>3
      <3> QED
        BY <1>5, <2>1, <3>1
    <2>2. CASE i # 0
      <3>1. /\ i \in 1 .. k /\ i - 1 \in 0 .. k /\ a + i \in 1 .. n
            /\ (a + i) - 1 = a + (i - 1)
        BY <1>1, <1>6, <2>2
      <3>2. f[a + i] = f[a + (i - 1)] + queue[a + i]
        BY <1>2, <3>1
      <3>3. g[i] = f[a + i] - f[a] /\ g[i - 1] = f[a + (i - 1)] - f[a]
        BY <1>5, <3>1
      <3>4. f[a] \in Nat /\ f[a + (i - 1)] \in Nat /\ queue[a + i] \in Nat
        <4>1. a \in 0 .. n /\ a + (i - 1) \in 0 .. n
          BY <1>1, <1>4, <3>1
        <4> QED
          BY <1>3, <3>1, <4>1
      <3>5. part[i] = queue[a + i]
        BY <1>1, <3>1
      <3>6. g[i] = g[i - 1] + part[i]
        BY <3>2, <3>3, <3>4, <3>5
      <3> QED
        BY <2>2, <3>6
    <2> QED
      BY <2>1, <2>2
  <1>8. Counts(g, part, k)
    BY <1>5, <1>7 DEF Counts
  <1>9. TotalOf(part) = g[k]
    BY <1>1, <1>8, TotalOfCounts
  <1> QED
    BY <1>5, <1>6, <1>9 DEF part

(* What is dropped in front and what is left add up. *)
LEMMA TotalOfSplit ==
    ASSUME NEW queue \in Seq(Nat), NEW n \in 0 .. Len(queue)
    PROVE  /\ TotalOf(queue) = TotalOf(SubSeq(queue, 1, n))
                                + TotalOf(SubSeq(queue, n + 1, Len(queue)))
           /\ TotalOf(SubSeq(queue, 1, n)) \in Nat
           /\ TotalOf(SubSeq(queue, n + 1, Len(queue))) \in Nat
           /\ SubSeq(queue, n + 1, Len(queue)) \in Seq(Nat)
  <1> DEFINE k == Len(queue)
             left == SubSeq(queue, n + 1, k)
             dropped == SubSeq(queue, 1, n)
  <1>1. k \in Nat /\ k \in 0 .. k /\ 0 \in 0 .. k /\ n \in Nat /\ n <= k
    OBVIOUS
  <1>2. left \in Seq(Nat) /\ dropped \in Seq(Nat)
    OBVIOUS
  <1>3. PICK f \in [0 .. k -> Nat] : Counts(f, queue, k)
    BY <1>1, CountsExist
  <1>4. f[0] = 0 /\ f[n] \in Nat /\ f[k] \in Nat
    BY <1>1, <1>3, CountsValues
  <1>5. TotalOf(queue) = f[k]
    BY <1>3, TotalOfCounts
  <1>6. TotalOf(dropped) = f[n] - f[0]
    <2>1. PICK z : z = 0
      OBVIOUS
    <2>2. z \in 0 .. k /\ z <= n /\ z + 1 = 1
      BY <1>1, <2>1
    <2>3. TotalOf(SubSeq(queue, z + 1, n)) = f[n] - f[z]
      BY <1>1, <1>3, <2>2, TotalOfPart
    <2> QED
      BY <2>1, <2>2, <2>3
  <1>7. TotalOf(left) = f[k] - f[n]
    BY <1>1, <1>3, TotalOfPart
  <1>8. TotalOf(left) \in Nat /\ TotalOf(dropped) \in Nat
    BY <1>2, TotalOfNat
  <1> HIDE DEF k
  <1> QED
    BY <1>2, <1>4, <1>5, <1>6, <1>7, <1>8 DEF k

LEMMA TotalOfShort ==
    /\ TotalOf(<<>>) = 0
    /\ \A size \in Nat : TotalOf(<<size>>) = size
  <1>1. TotalOf(<<>>) = 0
    <2>1. <<>> \in Seq(Nat) /\ Len(<<>>) = 0 /\ 0 \in 0 .. Len(<<>>)
      OBVIOUS
    <2>2. PICK f \in [0 .. 0 -> Nat] : Counts(f, <<>>, 0)
      BY <2>1, CountsExist
    <2>3. f[0] = 0
      BY <2>2, CountsValues
    <2> QED
      BY <2>1, <2>2, <2>3, TotalOfCounts
  <1>2. ASSUME NEW size \in Nat
        PROVE  TotalOf(<<size>>) = size
    <2>1. <<>> \in Seq(Nat) /\ Append(<<>>, size) = <<size>>
      OBVIOUS
    <2>2. PICK none : none = <<>>
      OBVIOUS
    <2>3. TotalOf(Append(none, size)) = TotalOf(none) + size
      BY <2>1, <2>2, TotalOfAppend
    <2> QED
      BY <1>1, <2>1, <2>2, <2>3
  <1> QED
    BY <1>1, <1>2

(* The first payload and the others. *)
LEMMA TotalOfTail ==
    ASSUME NEW queue \in Seq(Nat), queue # <<>>
    PROVE  /\ TotalOf(Tail(queue)) = TotalOf(queue) - Head(queue)
           /\ Tail(queue) \in Seq(Nat) /\ TotalOf(Tail(queue)) \in Nat
           /\ Len(Tail(queue)) = Len(queue) - 1
  <1>1. Len(queue) \in Nat /\ Len(queue) # 0 /\ Len(Tail(queue)) = Len(queue) - 1
    OBVIOUS
  <1>2. PICK one : one = 1
    OBVIOUS
  <1>3. one \in 0 .. Len(queue) /\ one + 1 = 2
    BY <1>1, <1>2
  <1>4. Head(queue) \in Nat
    OBVIOUS
  <1>5. Tail(queue) = SubSeq(queue, 2, Len(queue))
    OBVIOUS
  <1>6. SubSeq(queue, 1, 1) = <<Head(queue)>>
    <2>1. PICK first : first = SubSeq(queue, 1, 1)
      OBVIOUS
    <2>2. first \in Seq(Nat) /\ Len(first) = 1 /\ first[1] = Head(queue)
      BY <1>1, <2>1
    <2>3. first = <<first[1]>>
      BY <2>2
    <2> QED
      BY <2>1, <2>2, <2>3
  <1>7. /\ TotalOf(queue) = TotalOf(SubSeq(queue, 1, one))
                              + TotalOf(SubSeq(queue, one + 1, Len(queue)))
        /\ TotalOf(SubSeq(queue, one + 1, Len(queue))) \in Nat
        /\ SubSeq(queue, one + 1, Len(queue)) \in Seq(Nat)
    BY <1>3, TotalOfSplit
  <1>8. TotalOf(<<Head(queue)>>) = Head(queue)
    BY <1>4, TotalOfShort
  <1>9. /\ TotalOf(queue) = Head(queue) + TotalOf(Tail(queue))
        /\ TotalOf(Tail(queue)) \in Nat /\ Tail(queue) \in Seq(Nat)
    BY <1>2, <1>3, <1>5, <1>6, <1>7, <1>8
  <1> QED
    BY <1>1, <1>4, <1>9

-----------------------------------------------------------------------------
(* The send queue *)

(* The byte counter is a natural number only because it is the total of the  *)
(* queue; that the limit is exceeded by one payload alone needs both.        *)
QueueInv ==
    /\ policy \in Policies
    /\ sendQueue \in Seq(Nat) /\ queuedBytes = TotalOf(sendQueue)
    /\ queuedBytes > Limit => policy = "DropOldest" /\ Len(sendQueue) = 1

(* A payload at the end of what is left after dropping n in front. *)
LEMMA QueueAfterDrop ==
    ASSUME QueueInv, NEW n \in 0 .. Len(sendQueue), NEW size \in Nat,
           sendQueue' = Append(SubSeq(sendQueue, n + 1, Len(sendQueue)), size),
           queuedBytes' = queuedBytes - TotalOf(SubSeq(sendQueue, 1, n)) + size
    PROVE  sendQueue' \in Seq(Nat) /\ queuedBytes' = TotalOf(sendQueue')
  <1> DEFINE left == SubSeq(sendQueue, n + 1, Len(sendQueue))
             dropped == SubSeq(sendQueue, 1, n)
  <1>1. sendQueue \in Seq(Nat) /\ queuedBytes = TotalOf(sendQueue)
    BY DEF QueueInv
  <1>2. /\ TotalOf(sendQueue) = TotalOf(dropped) + TotalOf(left)
        /\ TotalOf(dropped) \in Nat /\ TotalOf(left) \in Nat /\ left \in Seq(Nat)
    BY <1>1, TotalOfSplit
  <1> HIDE DEF left
  <1>3. TotalOf(Append(left, size)) = TotalOf(left) + size
    BY <1>2, TotalOfAppend
  <1>4. Append(left, size) \in Seq(Nat)
    BY <1>2
  <1>5. sendQueue' = Append(left, size)
    BY DEF left
  <1>6. queuedBytes' = TotalOf(left) + size
    BY <1>1, <1>2
  <1> QED
    BY <1>3, <1>4, <1>5, <1>6

LEMMA EnqueueQueueInv ==
    ASSUME QueueInv, NEW size \in Nat, Enqueue(size), UNCHANGED policy
    PROVE  QueueInv'
  <1>1. policy' \in Policies /\ sendQueue \in Seq(Nat) /\ Limit \in Nat
    BY SessionConstants DEF QueueInv
  <1>2. queuedBytes = TotalOf(sendQueue) /\ queuedBytes \in Nat
    BY TotalOfNat DEF QueueInv
  <1>3. CASE queuedBytes + size <= Limit
    <2>1. sendQueue' = Append(sendQueue, size) /\ queuedBytes' = queuedBytes + size
      BY <1>1, <1>2, <1>3 DEF Enqueue
    <2>2. TotalOf(Append(sendQueue, size)) = TotalOf(sendQueue) + size
      BY <1>1, TotalOfAppend
    <2>3. sendQueue' \in Seq(Nat) /\ queuedBytes' = TotalOf(sendQueue')
      BY <1>1, <1>2, <2>1, <2>2
    <2>4. ~(queuedBytes' > Limit)
      BY <1>1, <1>2, <1>3, <2>1
    <2> QED
      BY <1>1, <2>3, <2>4 DEF QueueInv
  <1>4. CASE policy = "DropOldest" /\ DropOldest(size)
    <2> DEFINE fits(n) == queuedBytes - TotalOf(SubSeq(sendQueue, 1, n)) + size <= Limit
    <2>1. PICK n \in 0 .. Len(sendQueue) :
            /\ fits(n) \/ n = Len(sendQueue)
            /\ sendQueue' = Append(SubSeq(sendQueue, n + 1, Len(sendQueue)), size)
            /\ queuedBytes' = queuedBytes - TotalOf(SubSeq(sendQueue, 1, n)) + size
      BY <1>4 DEF DropOldest
    <2>2. sendQueue' \in Seq(Nat) /\ queuedBytes' = TotalOf(sendQueue')
      BY <2>1, QueueAfterDrop
    <2>3. CASE fits(n)
      <3>1. queuedBytes' <= Limit /\ queuedBytes' \in Nat
        BY <2>1, <2>2, <2>3, TotalOfNat
      <3>2. ~(queuedBytes' > Limit)
        BY <1>1, <3>1
      <3> QED
        BY <1>1, <2>2, <3>2 DEF QueueInv
    <2>4. CASE n = Len(sendQueue)
      <3>1. Len(sendQueue') = 1
        BY <1>1, <2>1, <2>4
      <3> QED
        BY <1>1, <1>4, <2>2, <3>1 DEF QueueInv
    <2> QED
      BY <2>1, <2>3, <2>4
  <1>5. CASE UNCHANGED <<sendQueue, queuedBytes>>
    BY <1>5 DEF QueueInv
  <1> QED
    BY <1>3, <1>4, <1>5 DEF Enqueue

LEMMA QueueStep == QueueInv /\ [SessionNext]_sessionVars => QueueInv'
  <1> SUFFICES ASSUME QueueInv, [SessionNext]_sessionVars
               PROVE  QueueInv'
    OBVIOUS
  <1>1. CASE UNCHANGED <<policy, sendQueue, queuedBytes>>
    BY <1>1 DEF QueueInv
  <1>2. ASSUME NEW size \in 1 .. MaxPayload, EnqueueSend(size)
        PROVE  QueueInv'
    <2>1. size \in Nat
      BY SessionConstants
    <2>2. CASE RateLimited(size)
      <3>1. UNCHANGED <<policy, sendQueue, queuedBytes>>
        BY <1>2, <2>2 DEF EnqueueSend, RateLimited
      <3> QED
        BY <1>1, <3>1
    <2>3. CASE Enqueue(size)
      <3>1. UNCHANGED policy
        BY <1>2 DEF EnqueueSend
      <3> QED
        BY <2>1, <2>3, <3>1, EnqueueQueueInv
    <2> QED
      BY <1>2, <2>2, <2>3 DEF EnqueueSend
  <1>3. CASE DequeueSend
    <2>1. /\ sendQueue # <<>> /\ queuedBytes' = queuedBytes - Head(sendQueue)
          /\ sendQueue' = Tail(sendQueue) /\ policy' = policy
      BY <1>3 DEF DequeueSend
    <2>2. /\ sendQueue \in Seq(Nat) /\ queuedBytes = TotalOf(sendQueue)
          /\ policy \in Policies /\ Limit \in Nat /\ queuedBytes \in Nat
      BY SessionConstants, TotalOfNat DEF QueueInv
    <2>3. /\ TotalOf(Tail(sendQueue)) = TotalOf(sendQueue) - Head(sendQueue)
          /\ Tail(sendQueue) \in Seq(Nat) /\ TotalOf(Tail(sendQueue)) \in Nat
          /\ Len(Tail(sendQueue)) = Len(sendQueue) - 1
      BY <2>1, <2>2, TotalOfTail
    <2>4. Head(sendQueue) \in Nat
      BY <2>1, <2>2
    <2>5. ASSUME queuedBytes' > Limit
          PROVE  FALSE
      <3>1. queuedBytes > Limit
        BY <2>1, <2>2, <2>4, <2>5
      <3>2. Len(Tail(sendQueue)) = 0
        BY <2>3, <3>1 DEF QueueInv
      <3>3. Tail(sendQueue) = <<>>
        <4>1. \A rest \in Seq(Nat) : Len(rest) = 0 => rest = <<>>
          OBVIOUS
        <4> QED
          BY <2>3, <3>2, <4>1
      <3>4. queuedBytes' = 0
        BY <2>1, <2>2, <2>3, <3>3, TotalOfShort
      <3> QED
        BY <2>2, <2>5, <3>4
    <2>6. sendQueue' \in Seq(Nat) /\ queuedBytes' = TotalOf(sendQueue')
      BY <2>1, <2>2, <2>3
    <2> QED
      BY <2>1, <2>2, <2>5, <2>6 DEF QueueInv
  <1>4. CASE OnReceive \/ TickSession \/ Advance \/ UNCHANGED sessionVars
    <2>1. UNCHANGED <<policy, sendQueue, queuedBytes>>
      BY <1>4 DEF OnReceive, TickSession, Advance, sessionVars
    <2> QED
      BY <1>1, <2>1
  <1> QED
    BY <1>2, <1>3, <1>4 DEF SessionNext

(* Every state of a session's queue satisfies the invariant. *)
THEOREM QueueInvariant == SessionSpec => []QueueInv
  <1>1. SessionInit => QueueInv
    <2> SUFFICES ASSUME SessionInit
                 PROVE  QueueInv
      OBVIOUS
    <2>1. /\ policy \in Policies /\ sendQueue = <<>> /\ queuedBytes = 0
          /\ Limit \in Nat
      BY SessionConstants DEF SessionInit
    <2>2. sendQueue \in Seq(Nat) /\ queuedBytes = TotalOf(sendQueue)
      BY <2>1, TotalOfShort
    <2> QED
      BY <2>1, <2>2 DEF QueueInv
  <1> QED
    BY <1>1, QueueStep, PTL DEF SessionSpec

(* Session::queuedBytes reports the bytes in the queue, for every limit,     *)
(* policy and length of the queue, also after payloads were dropped.         *)
THEOREM SessionBytesMatch == SessionSpec => []BytesMatchQueue
  <1>1. QueueInv => BytesMatchQueue
    BY DEF QueueInv, BytesMatchQueue
  <1> QED
    BY <1>1, QueueInvariant, PTL

(* The send queue of Session::enqueueSend exceeds its limit only by one      *)
(* payload that is alone in it, under DropOldest.                            *)
THEOREM SessionOverLimit == SessionSpec => []OverLimitAlone
  <1>1. QueueInv => OverLimitAlone
    BY DEF QueueInv, OverLimitAlone
  <1> QED
    BY <1>1, QueueInvariant, PTL

-----------------------------------------------------------------------------
(* The types *)

(* What SessionTypeOK says beyond RateInv and QueueInv. *)
ClockTypes ==
    /\ lastReceive \in 0 .. now
    /\ connected \in BOOLEAN
    /\ \A t \in 0 .. now : passedBefore[t] <= passed

LEMMA ClockStep ==
    ASSUME RateInv, ClockTypes, [SessionNext]_sessionVars
    PROVE  ClockTypes'
  <1>1. /\ now \in Nat /\ passed \in Nat /\ passedBefore \in [0 .. now -> Nat]
        /\ lastReceive \in 0 .. now
    BY DEF RateInv, BucketTypes, ClockTypes
  <1>2. CASE UNCHANGED sessionVars
    BY <1>2 DEF sessionVars, history, ClockTypes
  <1>3. CASE OnReceive
    <2>1. lastReceive' = now /\ UNCHANGED <<now, connected, passed, passedBefore>>
      BY <1>3 DEF OnReceive, history
    <2> QED
      BY <1>1, <2>1 DEF ClockTypes
  <1>4. ASSUME NEW size \in 1 .. MaxPayload, EnqueueSend(size)
        PROVE  ClockTypes'
    <2>1. UNCHANGED <<now, lastReceive, passedBefore>>
      BY <1>4 DEF EnqueueSend, RateLimited, history
    <2>2. connected' \in BOOLEAN
      BY <1>4 DEF EnqueueSend, RateLimited, Enqueue, ClockTypes
    <2>3. passed' = passed \/ passed' = passed + size
      BY <1>4 DEF EnqueueSend, RateLimited, Enqueue, history
    <2>4. size \in Nat
      BY SessionConstants
    <2>5. ASSUME NEW t \in 0 .. now
          PROVE  passedBefore[t] <= passed'
      <3>1. passedBefore[t] <= passed /\ passedBefore[t] \in Nat
        BY <1>1 DEF ClockTypes
      <3> QED
        BY <1>1, <2>3, <2>4, <3>1
    <2> QED
      BY <1>1, <2>1, <2>2, <2>5 DEF ClockTypes
  <1>5. CASE DequeueSend
    BY <1>5 DEF DequeueSend, history, ClockTypes
  <1>6. CASE TickSession
    BY <1>6 DEF TickSession, history, ClockTypes
  <1>7. CASE Advance
    <2>1. /\ now' = now + 1 /\ UNCHANGED <<connected, lastReceive, passed>>
          /\ \A t \in 0 .. now + 1 :
                passedBefore'[t] = IF t = now + 1 THEN passed ELSE passedBefore[t]
      BY <1>7 DEF Advance
    <2>2. lastReceive' \in 0 .. now'
      BY <1>1, <2>1
    <2>3. ASSUME NEW t \in 0 .. now'
          PROVE  passedBefore'[t] <= passed
      <3>1. CASE t = now + 1
        BY <1>1, <2>1, <3>1
      <3>2. CASE t \in 0 .. now
        <4>1. passedBefore'[t] = passedBefore[t]
          BY <1>1, <2>1, <3>2
        <4> QED
          BY <3>2, <4>1 DEF ClockTypes
      <3> QED
        BY <1>1, <2>1, <3>1, <3>2
    <2> QED
      BY <2>1, <2>2, <2>3 DEF ClockTypes
  <1> QED
    BY <1>2, <1>3, <1>4, <1>5, <1>6, <1>7 DEF SessionNext

(* The type invariant of a Session: in particular the bucket never holds     *)
(* more than its capacity and the byte counter does not go below zero.       *)
THEOREM SessionTypeCorrect == SessionSpec => []SessionTypeOK
  <1>1. SessionInit => ClockTypes
    BY DEF SessionInit, ClockTypes
  <1>2. RateInv /\ ClockTypes /\ [SessionNext]_sessionVars => ClockTypes'
    BY ClockStep
  <1>3. RateInv /\ ClockTypes /\ QueueInv => SessionTypeOK
    <2> SUFFICES ASSUME RateInv, ClockTypes, QueueInv
                 PROVE  SessionTypeOK
      OBVIOUS
    <2>1. /\ now \in Nat /\ passed \in Nat /\ passedBefore \in [0 .. now -> Nat]
          /\ bucket = [tokens |-> bucket.tokens, lastRefill |-> bucket.lastRefill]
          /\ bucket.tokens \in 0 .. Capacity /\ bucket.lastRefill \in 0 .. now
      BY DEF RateInv, BucketTypes
    <2>2. bucket \in [tokens : 0 .. Capacity, lastRefill : 0 .. now]
      BY <2>1
    <2>3. passedBefore \in [0 .. now -> 0 .. passed]
      <3>1. \A t \in 0 .. now : passedBefore[t] \in 0 .. passed
        BY <2>1 DEF ClockTypes
      <3> QED
        BY <2>1, <3>1
    <2>4. policy \in Policies /\ sendQueue \in Seq(Nat) /\ queuedBytes \in Nat
      BY TotalOfNat DEF QueueInv
    <2>5. lastReceive \in 0 .. now /\ connected \in BOOLEAN
      BY DEF ClockTypes
    <2> QED
      BY <2>1, <2>2, <2>3, <2>4, <2>5 DEF SessionTypeOK
  <1> QED
    BY <1>1, <1>2, <1>3, RateInvariant, QueueInvariant, PTL DEF SessionSpec
=============================================================================
