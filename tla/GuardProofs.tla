---------------------------- MODULE GuardProofs ----------------------------
(***************************************************************************)
(* What it takes for handlePacket to let a packet through twice, for every *)
(* width of the numbers, every limit of the nonce cache (0 included), any  *)
(* number of packets and reconnects that name any number whatever: THEOREM *)
(* NoReplayWithoutReset. The cache keeps its limit: THEOREM                *)
(* GuardTypeCorrect.                                                       *)
(***************************************************************************)
EXTENDS PacketGuard, TLAPS

SentPackets == [seq : Numbers, payload : Payloads]

LogEntries == [nonce : Nat, after : Numbers]

GuardTypes ==
    /\ clientSeq \in Numbers /\ lastSeq \in Numbers
    /\ sent \in Seq(SentPackets)
    /\ log \in Seq(LogEntries)
    /\ \A i \in 1 .. Len(log) : log[i].nonce \in 1 .. Len(sent)

(* The cache holds the nonces of the packets handled last, as many as it     *)
(* has room for, and no nonce twice.                                         *)
NewestNonces ==
    LET n == Len(nonceOrder)
    IN  /\ nonceOrder \in Seq(1 .. Len(sent))
        /\ n <= NonceLimit /\ n <= Len(log)
        /\ n = NonceLimit \/ n = Len(log)
        /\ \A k \in 1 .. n : nonceOrder[k] = log[Len(log) - n + k].nonce
        /\ \A a, b \in 1 .. n : nonceOrder[a] = nonceOrder[b] => a = b

(* Only a reconnect puts last_seq_ below the number of a packet handled. *)
LastSeqCovers ==
    \A i \in 1 .. Len(log) :
        \/ sent[log[i].nonce].seq <= lastSeq
        \/ PutBack(sent[log[i].nonce].seq, i, Len(log) + 1)

GuardInv == GuardTypes /\ NewestNonces /\ LastSeqCovers /\ ReplayNeedsReset

(* The packet handled i-th was sent, with a number in range. *)
LEMMA HandledPacket ==
    ASSUME GuardTypes, NEW i \in 1 .. Len(log)
    PROVE  /\ log[i].nonce \in 1 .. Len(sent) /\ log[i].after \in Nat
           /\ sent[log[i].nonce] \in SentPackets
           /\ sent[log[i].nonce].seq \in Nat
  <1>1. log[i] \in LogEntries
    BY DEF GuardTypes
  <1>2. log[i].nonce \in 1 .. Len(sent) /\ log[i].after \in Numbers
    BY <1>1 DEF LogEntries, GuardTypes
  <1>3. sent[log[i].nonce] \in SentPackets
    BY <1>2 DEF GuardTypes
  <1>4. sent[log[i].nonce].seq \in Numbers
    BY <1>3 DEF SentPackets
  <1> QED
    BY <1>2, <1>3, <1>4, GuardConstants DEF Numbers

(* A session that has received nothing. *)
LEMMA GuardInitInv == GuardInit => GuardInv
  <1> SUFFICES ASSUME GuardInit PROVE GuardInv
    OBVIOUS
  <1>1. GuardTypes
    BY GuardConstants DEF GuardInit, GuardTypes, Numbers
  <1>2. NewestNonces
    BY GuardConstants DEF GuardInit, NewestNonces
  <1>3. LastSeqCovers /\ ReplayNeedsReset
    BY DEF GuardInit, LastSeqCovers, ReplayNeedsReset
  <1> QED
    BY <1>1, <1>2, <1>3 DEF GuardInv

(* The client's next packet, on a counter that wraps. *)
LEMMA SendPacketInv ==
    ASSUME GuardInv, NEW payload \in Payloads, SendPacket(payload)
    PROVE  GuardInv'
  <1> DEFINE n == (clientSeq + 1) % NumberMod
  <1>1. n \in Numbers
    BY GuardConstants DEF GuardInv, GuardTypes, Numbers
  <1>2. /\ clientSeq' = n
        /\ sent' = Append(sent, [seq |-> n, payload |-> payload])
        /\ UNCHANGED <<lastSeq, nonceOrder, log>>
    BY DEF SendPacket
  <1> HIDE DEF n
  <1>3. [seq |-> n, payload |-> payload] \in SentPackets
    BY <1>1 DEF SentPackets
  <1>4. /\ sent' \in Seq(SentPackets) /\ Len(sent') = Len(sent) + 1
        /\ \A k \in 1 .. Len(sent) : sent'[k] = sent[k]
        /\ 1 .. Len(sent) \subseteq 1 .. Len(sent')
    BY <1>2, <1>3 DEF GuardInv, GuardTypes
  <1>5. GuardTypes'
    <2>1. \A i \in 1 .. Len(log) : log[i].nonce \in 1 .. Len(sent')
      BY <1>4 DEF GuardInv, GuardTypes
    <2> QED
      BY <1>1, <1>2, <1>4, <2>1 DEF GuardInv, GuardTypes
  <1>6. NewestNonces'
    <2>1. nonceOrder \in Seq(1 .. Len(sent'))
      BY <1>4 DEF GuardInv, NewestNonces
    <2> QED
      BY <1>2, <2>1 DEF GuardInv, NewestNonces
  <1>7. \A i \in 1 .. Len(log) : sent'[log[i].nonce] = sent[log[i].nonce]
    BY <1>4, HandledPacket DEF GuardInv
  <1> DEFINE PutBackThen(number, i, j) ==
               \E k \in i .. j - 1 :
                 /\ sent'[log'[k].nonce].payload.type = "SessionReconnectReq"
                 /\ log'[k].after < number
  <1>8. ASSUME NEW number, NEW i \in 1 .. Len(log), NEW j \in 1 .. Len(log) + 1,
               PutBack(number, i, j)
        PROVE  PutBackThen(number, i, j)
    <2>1. PICK k \in i .. j - 1 :
            /\ sent[log[k].nonce].payload.type = "SessionReconnectReq"
            /\ log[k].after < number
      BY <1>8 DEF PutBack
    <2>2. k \in 1 .. Len(log)
      BY <2>1 DEF GuardInv, GuardTypes
    <2> QED
      BY <1>2, <1>7, <2>1, <2>2 DEF PutBack
  <1>9. LastSeqCovers'
    <2> SUFFICES ASSUME NEW i \in 1 .. Len(log)
                 PROVE  \/ sent'[log[i].nonce].seq <= lastSeq
                        \/ PutBackThen(sent'[log[i].nonce].seq, i, Len(log) + 1)
      BY <1>2 DEF LastSeqCovers, PutBack
    <2>1. Len(log) + 1 \in 1 .. Len(log) + 1
      BY DEF GuardInv, GuardTypes
    <2> HIDE DEF PutBackThen
    <2> QED
      BY <1>7, <1>8, <2>1 DEF GuardInv, LastSeqCovers
  <1>10. ReplayNeedsReset'
    <2> SUFFICES ASSUME NEW i \in 1 .. Len(log), NEW j \in 1 .. Len(log),
                        i < j, log[i].nonce = log[j].nonce
                 PROVE  PutBackThen(sent'[log[i].nonce].seq, i, j) /\ j - i > NonceLimit
      BY <1>2 DEF ReplayNeedsReset, PutBack
    <2>1. j \in 1 .. Len(log) + 1
      BY DEF GuardInv, GuardTypes
    <2> HIDE DEF PutBackThen
    <2> QED
      BY <1>7, <1>8, <2>1 DEF GuardInv, ReplayNeedsReset
  <1> QED
    BY <1>5, <1>6, <1>9, <1>10 DEF GuardInv

(* recordNonce keeps the newest nonces, each once. *)
LEMMA RecordNonceKeeps ==
    ASSUME GuardInv, NEW nonce \in 1 .. Len(sent), HandlePacket(nonce)
    PROVE  NewestNonces'
  <1> DEFINE order == Append(nonceOrder, nonce)
             m == Len(order)
             e == IF m > NonceLimit THEN m - NonceLimit ELSE 0
             new == [nonce |-> nonce, after |-> lastSeq']
  <1>1. /\ order \in Seq(1 .. Len(sent)) /\ m = Len(nonceOrder) + 1
        /\ \A k \in 1 .. Len(nonceOrder) : order[k] = nonceOrder[k]
        /\ order[m] = nonce
    BY DEF GuardInv, NewestNonces
  <1>2. nonceOrder' = SubSeq(order, e + 1, m)
    BY DEF HandlePacket, RecordNonce
  <1>3. \A k \in 1 .. Len(nonceOrder) : nonceOrder[k] # nonce
    BY DEF HandlePacket, PassesGuard, Range, GuardInv, NewestNonces
  <1>4. \A a, b \in 1 .. m : order[a] = order[b] => a = b
    <2>1. \A a, b \in 1 .. Len(nonceOrder) : nonceOrder[a] = nonceOrder[b] => a = b
      BY DEF GuardInv, NewestNonces
    <2>2. Len(nonceOrder) \in Nat /\ m = Len(nonceOrder) + 1
      BY <1>1 DEF GuardInv, NewestNonces
    <2> HIDE DEF order, m
    <2>3. \A k \in 1 .. m : k = m \/ k \in 1 .. Len(nonceOrder)
      BY <2>2
    <2>4. \A k \in 1 .. Len(nonceOrder) : order[k] = nonceOrder[k] /\ order[k] # nonce
      BY <1>1, <1>3
    <2> QED
      BY <1>1, <2>1, <2>3, <2>4
  <1>5. /\ log' = Append(log, new) /\ UNCHANGED sent
    BY DEF HandlePacket
  <1>6. /\ Len(log) \in Nat /\ Len(log') = Len(log) + 1
        /\ \A k \in 1 .. Len(log) : log'[k] = log[k]
        /\ log'[Len(log) + 1].nonce = nonce
    BY <1>5 DEF GuardInv, GuardTypes
  <1>7. \A k \in 1 .. m : order[k] = log'[Len(log') - m + k].nonce
    <2> SUFFICES ASSUME NEW k \in 1 .. m
                 PROVE  order[k] = log'[Len(log') - m + k].nonce
      OBVIOUS
    <2>1. Len(nonceOrder) \in Nat /\ Len(nonceOrder) <= Len(log)
      BY DEF GuardInv, NewestNonces
    <2>2. CASE k = m
      <3>1. Len(log') - m + k = Len(log) + 1
        BY <1>1, <1>6, <2>1, <2>2
      <3> QED
        BY <1>1, <1>6, <2>2, <3>1
    <2>3. CASE k # m
      <3>1. /\ k \in 1 .. Len(nonceOrder)
            /\ Len(log') - m + k = Len(log) - Len(nonceOrder) + k
            /\ Len(log) - Len(nonceOrder) + k \in 1 .. Len(log)
        BY <1>1, <1>6, <2>1, <2>3
      <3>2. nonceOrder[k] = log[Len(log) - Len(nonceOrder) + k].nonce
        BY <3>1 DEF GuardInv, NewestNonces
      <3> QED
        BY <1>1, <1>6, <3>1, <3>2
    <2> QED
      BY <2>2, <2>3
  <1>8. /\ NonceLimit \in Nat /\ m \in Nat /\ m <= Len(log')
        /\ m > NonceLimit \/ m = Len(log')
    <2>1. /\ Len(nonceOrder) \in Nat /\ Len(nonceOrder) <= Len(log)
          /\ Len(nonceOrder) = NonceLimit \/ Len(nonceOrder) = Len(log)
      BY DEF GuardInv, NewestNonces
    <2> QED
      BY <1>1, <1>6, <2>1, GuardConstants
  <1> HIDE DEF order, m
  <1>9. /\ e \in 0 .. m /\ m - e <= NonceLimit
        /\ m - e = NonceLimit \/ m - e = Len(log')
    BY <1>6, <1>8
  <1> HIDE DEF e, new
  <1>10. /\ nonceOrder' \in Seq(1 .. Len(sent)) /\ Len(nonceOrder') = m - e
         /\ \A k \in 1 .. m - e : nonceOrder'[k] = order[e + k]
    <2>1. order \in Seq(1 .. Len(sent)) /\ Len(order) = m
      BY <1>1 DEF m
    <2>2. m \in Nat /\ e \in 0 .. m
      BY <1>8, <1>9
    <2> DEFINE NonceSet == 1 .. Len(sent)
    <2>3. order \in Seq(NonceSet)
      BY <2>1
    <2> HIDE DEF NonceSet
    <2>4. /\ nonceOrder' \in Seq(NonceSet) /\ Len(nonceOrder') = m - e
          /\ \A k \in 1 .. m - e : nonceOrder'[k] = order[e + k]
      BY <1>2, <2>1, <2>2, <2>3
    <2> QED
      BY <2>4 DEF NonceSet
  <1>11. \A a, b \in 1 .. m - e : nonceOrder'[a] = nonceOrder'[b] => a = b
    <2> SUFFICES ASSUME NEW a \in 1 .. m - e, NEW b \in 1 .. m - e,
                        nonceOrder'[a] = nonceOrder'[b]
                 PROVE  a = b
      OBVIOUS
    <2>1. e + a \in 1 .. m /\ e + b \in 1 .. m
      BY <1>8, <1>9
    <2>2. order[e + a] = order[e + b]
      BY <1>10
    <2>3. e + a = e + b
      BY <1>4, <2>1, <2>2
    <2> QED
      BY <1>9, <2>3
  <1>12. \A k \in 1 .. m - e : nonceOrder'[k] = log'[Len(log') - (m - e) + k].nonce
    <2> SUFFICES ASSUME NEW k \in 1 .. m - e
                 PROVE  nonceOrder'[k] = log'[Len(log') - (m - e) + k].nonce
      OBVIOUS
    <2>1. /\ e + k \in 1 .. m
          /\ Len(log') - m + (e + k) = Len(log') - (m - e) + k
      BY <1>6, <1>8, <1>9
    <2>2. order[e + k] = log'[Len(log') - m + (e + k)].nonce
      BY <1>7, <2>1
    <2> QED
      BY <1>10, <2>1, <2>2
  <1>13. m - e <= Len(log')
    BY <1>6, <1>8, <1>9
  <1> QED
    BY <1>5, <1>9, <1>10, <1>11, <1>12, <1>13 DEF NewestNonces

(* A packet that passes the guard is above last_seq_; handling it lowers     *)
(* last_seq_ only if it is a reconnect.                                      *)
LEMMA HandlePacketInv ==
    ASSUME GuardInv, NEW nonce \in 1 .. Len(sent), HandlePacket(nonce)
    PROVE  GuardInv'
  <1> DEFINE new == [nonce |-> nonce, after |-> lastSeq']
             m == Len(log)
  <1>1. /\ sent[nonce].seq > lastSeq /\ nonce \notin Range(nonceOrder)
        /\ log' = Append(log, new)
        /\ UNCHANGED sent
    BY DEF HandlePacket, PassesGuard
  <1>2. sent[nonce] \in SentPackets /\ sent[nonce].seq \in Numbers
    <2>1. sent[nonce] \in SentPackets
      BY DEF GuardInv, GuardTypes
    <2> QED
      BY <2>1 DEF SentPackets
  <1>3. /\ lastSeq' \in Numbers /\ clientSeq' \in Numbers
        /\ \/ lastSeq' = sent[nonce].seq
           \/ sent[nonce].payload.type = "SessionReconnectReq"
    <2>1. CASE lastSeq' = sent[nonce].seq /\ UNCHANGED clientSeq
      BY <1>2, <2>1 DEF GuardInv, GuardTypes
    <2>2. CASE RestoreSeq(nonce)
      <3>1. sent[nonce].payload.type = "SessionReconnectReq"
        BY <2>2 DEF RestoreSeq
      <3>2. sent[nonce].payload \in Payloads
        BY <1>2 DEF SentPackets
      <3>3. sent[nonce].payload \in [type : {"SessionReconnectReq"}, last_seq : Numbers]
        BY <3>1, <3>2 DEF Payloads
      <3>4. sent[nonce].payload.last_seq \in Numbers
        BY <3>3
      <3>5. lastSeq' \in Numbers /\ clientSeq' \in {clientSeq, lastSeq'}
        BY <2>2, <3>4 DEF RestoreSeq
      <3> QED
        BY <3>1, <3>5 DEF GuardInv, GuardTypes
    <2> QED
      BY <2>1, <2>2 DEF HandlePacket
  <1>4. /\ m \in Nat /\ Len(log') = m + 1
        /\ \A k \in 1 .. m : log'[k] = log[k]
        /\ log'[m + 1] = new
        /\ log' \in Seq(LogEntries)
    <2>1. new \in LogEntries
      BY <1>3 DEF LogEntries
    <2> HIDE DEF new
    <2> QED
      BY <1>1, <2>1 DEF GuardInv, GuardTypes
  <1>5. new.nonce = nonce /\ new.after = lastSeq'
    OBVIOUS
  <1>6. \A n \in Numbers : n \in Int
    BY GuardConstants DEF Numbers
  <1>7. lastSeq \in Int /\ lastSeq' \in Int /\ sent[nonce].seq \in Int
    BY <1>2, <1>3, <1>6 DEF GuardInv, GuardTypes
  <1> HIDE DEF new, m
  <1>8. GuardTypes'
    <2>1. \A i \in 1 .. m + 1 : log'[i].nonce \in 1 .. Len(sent)
      BY <1>4, <1>5 DEF GuardInv, GuardTypes, m
    <2> QED
      BY <1>1, <1>3, <1>4, <2>1 DEF GuardInv, GuardTypes
  <1>9. NewestNonces'
    BY RecordNonceKeeps
  <1> DEFINE PutBackThen(number, i, j) ==
               \E k \in i .. j - 1 :
                 /\ sent'[log'[k].nonce].payload.type = "SessionReconnectReq"
                 /\ log'[k].after < number
  <1>10. ASSUME NEW number, NEW i \in 1 .. m, NEW j \in 1 .. m + 1, NEW l \in j .. m + 2,
                PutBack(number, i, j)
         PROVE  PutBackThen(number, i, l)
    <2>1. PICK k \in i .. j - 1 :
            /\ sent[log[k].nonce].payload.type = "SessionReconnectReq"
            /\ log[k].after < number
      BY <1>10 DEF PutBack
    <2>2. k \in 1 .. m /\ k \in i .. l - 1
      BY <1>4, <2>1
    <2> QED
      BY <1>1, <1>4, <2>1, <2>2 DEF PutBack
  <1>11. ASSUME NEW number \in Int, NEW i \in 1 .. m + 1, lastSeq' < number,
                sent[nonce].payload.type = "SessionReconnectReq"
         PROVE  PutBackThen(number, i, m + 2)
    <2>1. m + 1 \in i .. (m + 2) - 1
      BY <1>4
    <2> QED
      BY <1>1, <1>4, <1>5, <1>11, <2>1 DEF PutBack
  <1>12. LastSeqCovers'
    <2> SUFFICES ASSUME NEW i \in 1 .. m + 1
                 PROVE  \/ sent'[log'[i].nonce].seq <= lastSeq'
                        \/ PutBackThen(sent'[log'[i].nonce].seq, i, m + 2)
      <3>1. Len(log') + 1 = m + 2
        BY <1>4
      <3> QED
        BY <1>1, <1>4, <3>1 DEF LastSeqCovers, PutBack
    <2> HIDE DEF PutBackThen
    <2>1. CASE i = m + 1
      <3>1. sent'[log'[i].nonce].seq = sent[nonce].seq
        BY <1>1, <1>4, <1>5, <2>1
      <3>2. CASE lastSeq' < sent[nonce].seq
        <4>1. sent[nonce].payload.type = "SessionReconnectReq"
          BY <1>3, <1>7, <3>2
        <4>2. PutBackThen(sent[nonce].seq, i, m + 2)
          BY <1>1, <1>7, <1>11, <3>2, <4>1
        <4> QED
          BY <1>1, <3>1, <4>2
      <3> QED
        BY <1>7, <3>1, <3>2
    <2>2. CASE i # m + 1
      <3>1. i \in 1 .. m /\ log'[i] = log[i]
        BY <1>4, <2>2
      <3> DEFINE q == sent[log[i].nonce].seq
      <3>2. q \in Int
        BY <3>1, HandledPacket DEF GuardInv, m
      <3>3. q <= lastSeq \/ PutBack(q, i, m + 1)
        BY <3>1 DEF GuardInv, LastSeqCovers, m
      <3>4. sent'[log'[i].nonce].seq = q
        BY <1>1, <3>1
      <3> HIDE DEF q
      <3>5. CASE PutBack(q, i, m + 1)
        <4>1. m + 1 \in 1 .. m + 1 /\ m + 2 \in m + 1 .. m + 2
          BY <1>4
        <4>2. PutBackThen(q, i, m + 2)
          BY <1>10, <3>1, <3>5, <4>1
        <4> QED
          BY <1>1, <3>4, <4>2
      <3>6. CASE q <= lastSeq /\ lastSeq' < q
        <4>1. sent[nonce].payload.type = "SessionReconnectReq"
          BY <1>1, <1>3, <1>7, <3>2, <3>6
        <4>2. PutBackThen(q, i, m + 2)
          BY <1>11, <3>2, <3>6, <4>1
        <4> QED
          BY <1>1, <3>4, <4>2
      <3>7. CASE q <= lastSeq'
        BY <1>1, <3>4, <3>7
      <3> QED
        BY <1>7, <3>2, <3>3, <3>5, <3>6, <3>7
    <2> QED
      BY <2>1, <2>2
  <1>13. ReplayNeedsReset'
    <2> SUFFICES ASSUME NEW i \in 1 .. m + 1, NEW j \in 1 .. m + 1,
                        i < j, log'[i].nonce = log'[j].nonce
                 PROVE  PutBackThen(sent'[log'[i].nonce].seq, i, j) /\ j - i > NonceLimit
      BY <1>1, <1>4 DEF ReplayNeedsReset, PutBack
    <2> HIDE DEF PutBackThen
    <2>1. i \in 1 .. m /\ log'[i] = log[i]
      BY <1>4
    <2> DEFINE q == sent[log[i].nonce].seq
    <2>2. q \in Int /\ sent'[log'[i].nonce].seq = q
      <3>1. q \in Nat
        BY <2>1, HandledPacket DEF GuardInv, m
      <3>2. sent' = sent
        BY <1>1
      <3>3. sent'[log'[i].nonce].seq = q
        BY <2>1, <3>2
      <3> HIDE DEF q
      <3> QED
        BY <3>1, <3>3
    <2>3. CASE j \in 1 .. m
      <3>1. PutBack(q, i, j) /\ j - i > NonceLimit
        <4>1. log[i].nonce = log[j].nonce /\ i \in 1 .. Len(log) /\ j \in 1 .. Len(log)
          BY <1>4, <2>1, <2>3 DEF m
        <4> QED
          BY <4>1 DEF GuardInv, ReplayNeedsReset
      <3>2. j \in 1 .. m + 1 /\ j \in j .. m + 2
        BY <1>4, <2>3
      <3> HIDE DEF q
      <3>3. PutBackThen(q, i, j)
        BY <1>10, <2>1, <3>1, <3>2
      <3> QED
        BY <2>2, <3>1, <3>3
    <2>4. CASE j = m + 1
      <3>1. log[i].nonce = nonce
        BY <1>4, <1>5, <2>1, <2>4
      <3>2. q > lastSeq
        BY <1>1, <3>1
      <3>3. PutBack(q, i, m + 1)
        BY <1>7, <2>1, <2>2, <3>2 DEF GuardInv, LastSeqCovers, m
      <3>4. j \in 1 .. m + 1 /\ j \in m + 1 .. m + 2
        BY <1>4, <2>4
      <3> HIDE DEF q
      <3>5. PutBackThen(q, i, j)
        BY <1>10, <2>1, <2>4, <3>3, <3>4
      <3> DEFINE c == Len(nonceOrder)
      <3>6. /\ c \in Nat /\ c <= m
            /\ c = NonceLimit \/ c = m
            /\ \A k \in 1 .. c : nonceOrder[k] = log[m - c + k].nonce
            /\ DOMAIN nonceOrder = 1 .. c
        BY DEF GuardInv, NewestNonces, m
      <3> HIDE DEF c
      <3>7. ~(i > m - c)
        <4> SUFFICES ASSUME i > m - c PROVE FALSE
          OBVIOUS
        <4>1. i - (m - c) \in 1 .. c /\ m - c + (i - (m - c)) = i
          BY <1>4, <2>1, <3>6
        <4>2. nonceOrder[i - (m - c)] = nonce
          BY <3>1, <3>6, <4>1
        <4> QED
          BY <1>1, <3>6, <4>1, <4>2 DEF Range
      <3>8. j - i > NonceLimit
        BY <1>4, <2>1, <2>4, <3>6, <3>7, GuardConstants
      <3> QED
        BY <2>2, <3>5, <3>8
    <2> QED
      BY <1>4, <2>3, <2>4
  <1> QED
    BY <1>8, <1>9, <1>12, <1>13 DEF GuardInv

(* The invariant is inductive. *)
LEMMA GuardNextInv == GuardInv /\ [GuardNext]_guardVars => GuardInv'
  <1> SUFFICES ASSUME GuardInv, [GuardNext]_guardVars
               PROVE  GuardInv'
    OBVIOUS
  <1>1. ASSUME NEW payload \in Payloads, SendPacket(payload)
        PROVE  GuardInv'
    BY <1>1, SendPacketInv
  <1>2. ASSUME NEW nonce \in 1 .. Len(sent), HandlePacket(nonce)
        PROVE  GuardInv'
    BY <1>2, HandlePacketInv
  <1>3. CASE UNCHANGED guardVars
    BY <1>3 DEF guardVars, GuardInv, GuardTypes, NewestNonces, LastSeqCovers,
                ReplayNeedsReset, PutBack
  <1> QED
    BY <1>1, <1>2, <1>3 DEF GuardNext

(* In every behaviour of a session the invariant holds. *)
THEOREM GuardInvariant == GuardSpec => []GuardInv
  BY GuardInitInv, GuardNextInv, PTL DEF GuardSpec

(* recordNonce never lets the cache grow beyond nonce_cache_limit and never  *)
(* holds a nonce twice; the numbers stay within their width.                 *)
THEOREM GuardTypeCorrect == GuardSpec => []GuardTypeOK
  <1>1. GuardInv => GuardTypeOK
    <2> SUFFICES ASSUME GuardInv PROVE GuardTypeOK
      OBVIOUS
    <2>1. DOMAIN nonceOrder = 1 .. Len(nonceOrder)
      BY DEF GuardInv, NewestNonces
    <2>2. \A k \in 1 .. Len(nonceOrder) : nonceOrder[k] \in 1 .. Len(sent)
      BY DEF GuardInv, NewestNonces
    <2>3. IsInjective(nonceOrder)
      BY <2>1 DEF GuardInv, NewestNonces, IsInjective
    <2>4. Range(nonceOrder) \subseteq 1 .. Len(sent)
      BY <2>1, <2>2 DEF Range
    <2> QED
      BY <2>3, <2>4 DEF GuardInv, GuardTypes, NewestNonces, GuardTypeOK
  <1> QED
    BY <1>1, GuardInvariant, PTL

(* However often the connection delivers a packet, it reaches a handler      *)
(* again only after a reconnect has put last_seq_ below its number (a        *)
(* reconnect may name any number) and after nonce_cache_limit other packets  *)
(* have pushed its nonce out of the cache.                                   *)
THEOREM NoReplayWithoutReset == GuardSpec => []ReplayNeedsReset
  BY GuardInvariant, PTL DEF GuardInv
=============================================================================
