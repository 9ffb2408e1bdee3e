---------------------------- MODULE MatchProofs ----------------------------
(***************************************************************************)
(* The match queue holds a party at most once and never lets one overtake  *)
(* another, for every rule and any number of parties.                      *)
(***************************************************************************)
EXTENDS MatchQueue, SequenceTheorems, TLAPS

Candidates == [party : Parties, mmr : Ratings, size : Sizes, wait : 0 .. MaxWait]

(* Removing an element moves those behind it up by one. *)
LEMMA RemoveAtFacts ==
    ASSUME NEW S, NEW s \in Seq(S), NEW k \in 1 .. Len(s)
    PROVE  /\ RemoveAt(s, k) \in Seq(S)
           /\ Len(RemoveAt(s, k)) = Len(s) - 1
           /\ \A i \in 1 .. Len(s) - 1 : RemoveAt(s, k)[i] = s[IF i < k THEN i ELSE i + 1]
  <1> DEFINE a == SubSeq(s, 1, k - 1)
             b == SubSeq(s, k + 1, Len(s))
  <1>1. a \in Seq(S) /\ Len(a) = k - 1 /\ \A i \in 1 .. k - 1 : a[i] = s[i]
    OBVIOUS
  <1>2. b \in Seq(S) /\ Len(b) = Len(s) - k /\ \A i \in 1 .. Len(s) - k : b[i] = s[k + i]
    OBVIOUS
  <1> HIDE DEF a, b
  <1>3. /\ a \o b \in Seq(S) /\ Len(a \o b) = Len(s) - 1
        /\ \A i \in 1 .. Len(s) - 1 : (a \o b)[i] = IF i <= k - 1 THEN a[i] ELSE b[i - (k - 1)]
    <2>1. /\ a \o b \in Seq(S) /\ Len(a \o b) = Len(a) + Len(b)
          /\ \A i \in 1 .. Len(a) + Len(b) :
                (a \o b)[i] = IF i <= Len(a) THEN a[i] ELSE b[i - Len(a)]
      BY <1>1, <1>2, ConcatProperties
    <2>2. Len(a) + Len(b) = Len(s) - 1
      BY <1>1, <1>2
    <2> QED
      BY <1>1, <2>1, <2>2
  <1>4. ASSUME NEW i \in 1 .. Len(s) - 1
        PROVE  (a \o b)[i] = s[IF i < k THEN i ELSE i + 1]
    <2>1. CASE i < k
      BY <1>1, <1>3, <2>1
    <2>2. CASE ~(i < k)
      <3>1. i - (k - 1) \in 1 .. Len(s) - k /\ k + (i - (k - 1)) = i + 1 /\ ~(i <= k - 1)
        BY <2>2
      <3> QED
        BY <1>2, <1>3, <2>2, <3>1
    <2> QED
      BY <2>1, <2>2
  <1> QED
    BY <1>3, <1>4 DEF RemoveAt, a, b

(* q holds some of the candidates of the queue, in their order. *)
Thinned(q) ==
    /\ q \in Seq(Candidates)
    /\ \E f \in [1 .. Len(q) -> 1 .. Len(queue)] :
        /\ \A i, j \in 1 .. Len(q) : i < j => f[i] < f[j]
        /\ \A i \in 1 .. Len(q) : q[i] = queue[f[i]]

(* Every candidate that is in both queues has those before it that were      *)
(* before it.                                                                *)
OrderKept ==
    \A i, j \in 1 .. Len(queue') : \A a, b \in 1 .. Len(queue) :
        /\ i < j
        /\ queue'[i].party = queue[a].party
        /\ queue'[j].party = queue[b].party
        => a < b

(* A queue that was only thinned out is in order. *)
LEMMA ThinnedKeeps ==
    ASSUME MatchTypeOK, Thinned(queue')
    PROVE  MatchTypeOK' /\ OrderKept
  <1>1. PICK f \in [1 .. Len(queue') -> 1 .. Len(queue)] :
            /\ \A i, j \in 1 .. Len(queue') : i < j => f[i] < f[j]
            /\ \A i \in 1 .. Len(queue') : queue'[i] = queue[f[i]]
    BY DEF Thinned
  <1>2. /\ queue \in Seq(Candidates) /\ DOMAIN queue = 1 .. Len(queue)
        /\ queue' \in Seq(Candidates) /\ DOMAIN queue' = 1 .. Len(queue')
        /\ Len(queue) \in Nat /\ Len(queue') \in Nat
    BY DEF Thinned, MatchTypeOK, Candidates
  <1>3. \A a, b \in 1 .. Len(queue) : queue[a].party = queue[b].party => a = b
    BY <1>2 DEF MatchTypeOK
  <1>4. \A i \in 1 .. Len(queue') : InRule(queue'[i].size)
    BY <1>1, <1>2 DEF MatchTypeOK
  <1>5. ASSUME NEW i \in 1 .. Len(queue'), NEW j \in 1 .. Len(queue'),
               queue'[i].party = queue'[j].party
        PROVE  i = j
    <2>1. f[i] = f[j]
      BY <1>1, <1>3, <1>5
    <2>2. ~(i < j) /\ ~(j < i)
      BY <1>1, <1>2, <2>1
    <2> QED
      BY <1>2, <2>2
  <1>6. MatchTypeOK'
    BY <1>2, <1>4, <1>5 DEF MatchTypeOK, Candidates
  <1>7. OrderKept
    BY <1>1, <1>3 DEF OrderKept
  <1> QED
    BY <1>6, <1>7

(* Removing one candidate. *)
LEMMA RemoveOne ==
    ASSUME MatchTypeOK, NEW k \in DOMAIN queue
    PROVE  Thinned(RemoveAt(queue, k))
  <1> DEFINE q == RemoveAt(queue, k)
             f == [i \in 1 .. Len(queue) - 1 |-> IF i < k THEN i ELSE i + 1]
  <1>1. queue \in Seq(Candidates) /\ DOMAIN queue = 1 .. Len(queue) /\ Len(queue) \in Nat
    BY DEF MatchTypeOK, Candidates
  <1>2. /\ q \in Seq(Candidates) /\ Len(q) = Len(queue) - 1
        /\ \A i \in 1 .. Len(queue) - 1 : q[i] = queue[IF i < k THEN i ELSE i + 1]
    BY <1>1, RemoveAtFacts
  <1> HIDE DEF q
  <1>3. /\ f \in [1 .. Len(q) -> 1 .. Len(queue)]
        /\ \A i, j \in 1 .. Len(q) : i < j => f[i] < f[j]
        /\ \A i \in 1 .. Len(q) : q[i] = queue[f[i]]
    BY <1>1, <1>2
  <1> HIDE DEF f
  <1>4. Thinned(q)
    BY <1>2, <1>3 DEF Thinned
  <1> QED
    BY <1>4 DEF q

(* Removing another one. *)
LEMMA RemoveTwo ==
    ASSUME MatchTypeOK, NEW q, Thinned(q), NEW k \in 1 .. Len(q)
    PROVE  Thinned(RemoveAt(q, k))
  <1>1. PICK f \in [1 .. Len(q) -> 1 .. Len(queue)] :
            /\ \A i, j \in 1 .. Len(q) : i < j => f[i] < f[j]
            /\ \A i \in 1 .. Len(q) : q[i] = queue[f[i]]
    BY DEF Thinned
  <1> DEFINE r == RemoveAt(q, k)
             up(i) == IF i < k THEN i ELSE i + 1
             g == [i \in 1 .. Len(q) - 1 |-> f[up(i)]]
  <1>2. /\ q \in Seq(Candidates) /\ Len(q) \in Nat
        /\ r \in Seq(Candidates) /\ Len(r) = Len(q) - 1
        /\ \A i \in 1 .. Len(q) - 1 : r[i] = q[up(i)]
    BY RemoveAtFacts DEF Thinned
  <1>3. \A i \in 1 .. Len(q) - 1 : up(i) \in 1 .. Len(q)
    BY <1>2
  <1>4. \A i, j \in 1 .. Len(q) - 1 : i < j => up(i) < up(j)
    BY <1>2
  <1> HIDE DEF up, r
  <1>5. /\ g \in [1 .. Len(r) -> 1 .. Len(queue)]
        /\ \A i \in 1 .. Len(r) : g[i] = f[up(i)]
    BY <1>1, <1>2, <1>3
  <1> HIDE DEF g
  <1>6. ASSUME NEW i \in 1 .. Len(r), NEW j \in 1 .. Len(r), i < j
        PROVE  g[i] < g[j]
    <2>1. up(i) \in 1 .. Len(q) /\ up(j) \in 1 .. Len(q) /\ up(i) < up(j)
      BY <1>2, <1>3, <1>4, <1>6
    <2>2. f[up(i)] < f[up(j)]
      BY <1>1, <2>1
    <2> QED
      BY <1>5, <2>2
  <1>7. ASSUME NEW i \in 1 .. Len(r)
        PROVE  r[i] = queue[g[i]]
    <2>1. up(i) \in 1 .. Len(q) /\ r[i] = q[up(i)]
      BY <1>2, <1>3
    <2>2. q[up(i)] = queue[f[up(i)]]
      BY <1>1, <2>1
    <2> QED
      BY <1>5, <2>1, <2>2
  <1>8. Thinned(r)
    BY <1>2, <1>5, <1>6, <1>7 DEF Thinned
  <1> QED
    BY <1>8 DEF r

(* A queue whose candidates keep their places and their parties is in order. *)
LEMMA InPlaceKeeps ==
    ASSUME MatchTypeOK, queue' \in Seq(Candidates), Len(queue') = Len(queue),
           \A i \in 1 .. Len(queue) :
              queue'[i].party = queue[i].party /\ InRule(queue'[i].size)
    PROVE  MatchTypeOK' /\ OrderKept
  <1>1. /\ DOMAIN queue = 1 .. Len(queue) /\ DOMAIN queue' = 1 .. Len(queue)
    BY DEF MatchTypeOK
  <1>2. \A a, b \in 1 .. Len(queue) : queue[a].party = queue[b].party => a = b
    BY <1>1 DEF MatchTypeOK
  <1>3. MatchTypeOK'
    BY <1>1, <1>2 DEF MatchTypeOK, Candidates
  <1>4. OrderKept
    BY <1>2 DEF OrderKept
  <1> QED
    BY <1>3, <1>4

(* Assigning a candidate of the same party. *)
LEMMA AssignKeeps ==
    ASSUME MatchTypeOK, NEW i \in DOMAIN queue, NEW c \in Candidates,
           c.party = queue[i].party, InRule(c.size),
           queue' = [queue EXCEPT ![i] = c]
    PROVE  MatchTypeOK' /\ OrderKept
  <1>1. queue \in Seq(Candidates) /\ DOMAIN queue = 1 .. Len(queue)
    BY DEF MatchTypeOK, Candidates
  <1>2. /\ queue' \in Seq(Candidates) /\ Len(queue') = Len(queue)
        /\ \A j \in 1 .. Len(queue) : queue'[j] = IF j = i THEN c ELSE queue[j]
    BY <1>1
  <1>3. \A j \in 1 .. Len(queue) :
            queue'[j].party = queue[j].party /\ InRule(queue'[j].size)
    BY <1>1, <1>2 DEF MatchTypeOK
  <1> QED
    BY <1>2, <1>3, InPlaceKeeps

(* enqueue *)
LEMMA EnqueueKeeps ==
    ASSUME MatchTypeOK, NEW p \in Parties, NEW mmr \in Ratings, NEW size \in Sizes,
           Enqueue(p, mmr, size)
    PROVE  MatchTypeOK' /\ OrderKept
  <1> DEFINE c == [party |-> p, mmr |-> mmr, size |-> size, wait |-> 0]
  <1>1. c \in Candidates /\ c.party = p /\ c.size = size /\ InRule(size)
    BY MatchConstants DEF Candidates, Enqueue
  <1>2. \/ PlaceOf(p) = {} /\ queue' = Append(queue, c)
        \/ \E i \in PlaceOf(p) : queue' = [queue EXCEPT ![i] = c]
    BY DEF Enqueue
  <1> HIDE DEF c
  <1>3. CASE PlaceOf(p) = {} /\ queue' = Append(queue, c)
    <2>1. queue \in Seq(Candidates) /\ DOMAIN queue = 1 .. Len(queue) /\ Len(queue) \in Nat
      BY DEF MatchTypeOK, Candidates
    <2>2. /\ queue' \in Seq(Candidates) /\ Len(queue') = Len(queue) + 1
          /\ DOMAIN queue' = 1 .. Len(queue) + 1
          /\ \A j \in 1 .. Len(queue) : queue'[j] = queue[j]
          /\ queue'[Len(queue) + 1] = c
      BY <1>1, <1>3, <2>1
    <2>3. /\ \A j \in 1 .. Len(queue) : queue[j].party # p
          /\ \A a, b \in 1 .. Len(queue) : queue[a].party = queue[b].party => a = b
          /\ \A a \in 1 .. Len(queue) : InRule(queue[a].size)
      BY <1>3, <2>1 DEF PlaceOf, MatchTypeOK
    <2>4. \A j \in 1 .. Len(queue) + 1 : j \in 1 .. Len(queue) \/ j = Len(queue) + 1
      BY <2>1
    <2>5. \A i \in 1 .. Len(queue') : InRule(queue'[i].size)
      BY <1>1, <2>2, <2>3, <2>4
    <2>6. \A i, j \in 1 .. Len(queue') : queue'[i].party = queue'[j].party => i = j
      BY <1>1, <2>2, <2>3, <2>4
    <2>7. MatchTypeOK'
      BY <2>2, <2>5, <2>6 DEF MatchTypeOK, Candidates
    <2>8. OrderKept
      <3> SUFFICES ASSUME NEW i \in 1 .. Len(queue'), NEW j \in 1 .. Len(queue'),
                          NEW a \in 1 .. Len(queue), NEW b \in 1 .. Len(queue),
                          i < j, queue'[i].party = queue[a].party,
                          queue'[j].party = queue[b].party
                   PROVE  a < b
        BY DEF OrderKept
      <3>1. i \in 1 .. Len(queue) /\ j \in 1 .. Len(queue)
        BY <1>1, <2>2, <2>3, <2>4
      <3> QED
        BY <2>2, <2>3, <3>1
    <2> QED
      BY <2>7, <2>8
  <1>4. ASSUME NEW i \in PlaceOf(p), queue' = [queue EXCEPT ![i] = c]
        PROVE  MatchTypeOK' /\ OrderKept
    <2>1. i \in DOMAIN queue /\ queue[i].party = p
      BY DEF PlaceOf
    <2> QED
      BY <1>1, <1>4, <2>1, AssignKeeps
  <1> QED
    BY <1>2, <1>3, <1>4

(* The candidate that updatePartySize leaves in place of r. *)
LEMMA ResizedCandidate ==
    ASSUME NEW r \in Candidates, NEW size \in Sizes
    PROVE  [r EXCEPT !.size = size, !.wait = 0]
             = [party |-> r.party, mmr |-> r.mmr, size |-> size, wait |-> 0]
  <1> DEFINE c == [party |-> r.party, mmr |-> r.mmr, size |-> size, wait |-> r.wait]
  <1>1. [r EXCEPT !.size = size] = c
    BY DEF Candidates
  <1>2. [c EXCEPT !.wait = 0]
          = [party |-> r.party, mmr |-> r.mmr, size |-> size, wait |-> 0]
    OBVIOUS
  <1>3. [r EXCEPT !.size = size, !.wait = 0] = [[r EXCEPT !.size = size] EXCEPT !.wait = 0]
    OBVIOUS
  <1> QED
    BY <1>1, <1>2, <1>3

(* updatePartySize *)
LEMMA UpdatePartySizeKeeps ==
    ASSUME MatchTypeOK, NEW p, NEW size \in Sizes, UpdatePartySize(p, size)
    PROVE  MatchTypeOK' /\ OrderKept
  <1>0. \A j \in DOMAIN queue : queue[j] \in Candidates
    <2>1. queue \in Seq(Candidates)
      BY DEF MatchTypeOK, Candidates
    <2> QED
      BY <2>1
  <1>1. PICK i \in PlaceOf(p) :
            \/ ~InRule(size) /\ queue' = RemoveAt(queue, i)
            \/ InRule(size)
               /\ queue' = [queue EXCEPT ![i] = [@ EXCEPT !.size = size, !.wait = 0]]
    BY DEF UpdatePartySize
  <1>2. i \in DOMAIN queue /\ queue[i] \in Candidates
    <2>1. i \in DOMAIN queue
      BY DEF PlaceOf
    <2> QED
      BY <1>0, <2>1
  <1>3. CASE queue' = RemoveAt(queue, i)
    BY <1>2, <1>3, RemoveOne, ThinnedKeeps
  <1>4. CASE /\ InRule(size)
             /\ queue' = [queue EXCEPT ![i] = [@ EXCEPT !.size = size, !.wait = 0]]
    <2> DEFINE c == [party |-> queue[i].party, mmr |-> queue[i].mmr,
                     size |-> size, wait |-> 0]
    <2>1. queue[i] \in Candidates
      BY <1>2
    <2>2. [queue[i] EXCEPT !.size = size, !.wait = 0] = c
      BY <2>1, ResizedCandidate
    <2>3. c \in Candidates /\ c.party = queue[i].party /\ c.size = size
      BY <2>1, MatchConstants DEF Candidates
    <2>4. queue' = [queue EXCEPT ![i] = c]
      BY <1>4, <2>2
    <2> HIDE DEF c
    <2> QED
      BY <1>2, <1>4, <2>3, <2>4, AssignKeeps
  <1> QED
    BY <1>1, <1>3, <1>4

(* findMatch takes out the later candidate of the pair, then the earlier. *)
LEMMA FindMatchKeeps ==
    ASSUME MatchTypeOK, FindMatch
    PROVE  MatchTypeOK' /\ OrderKept
  <1>1. PICK p \in Pairs : queue' = RemoveAt(RemoveAt(queue, p[2]), p[1])
    BY DEF FindMatch, FirstPair
  <1>2. /\ queue \in Seq(Candidates) /\ DOMAIN queue = 1 .. Len(queue)
        /\ Len(queue) \in Nat
    BY DEF MatchTypeOK, Candidates
  <1>3. p[1] \in 1 .. Len(queue) /\ p[2] \in 1 .. Len(queue) /\ p[1] < p[2]
    BY <1>2 DEF Pairs
  <1> DEFINE q == RemoveAt(queue, p[2])
  <1>4. Thinned(q) /\ Len(q) = Len(queue) - 1
    BY <1>2, <1>3, RemoveOne, RemoveAtFacts
  <1>5. p[1] \in 1 .. Len(q)
    BY <1>2, <1>3, <1>4
  <1>6. queue' = RemoveAt(q, p[1])
    BY <1>1
  <1> HIDE DEF q
  <1> QED
    BY <1>4, <1>5, <1>6, RemoveTwo, ThinnedKeeps

(* The passing of time changes nothing but the waits. *)
LEMMA ElapseKeeps ==
    ASSUME MatchTypeOK, Elapse
    PROVE  MatchTypeOK' /\ OrderKept
  <1>1. queue \in Seq(Candidates) /\ DOMAIN queue = 1 .. Len(queue) /\ Len(queue) \in Nat
    BY DEF MatchTypeOK, Candidates
  <1> DEFINE w(i) == IF queue[i].wait < MaxWait THEN queue[i].wait + 1 ELSE queue[i].wait
             c(i) == [party |-> queue[i].party, mmr |-> queue[i].mmr,
                      size |-> queue[i].size, wait |-> w(i)]
  <1>2. ASSUME NEW i \in 1 .. Len(queue)
        PROVE  /\ [queue[i] EXCEPT !.wait = IF @ < MaxWait THEN @ + 1 ELSE @] = c(i)
               /\ c(i) \in Candidates
               /\ c(i).party = queue[i].party /\ InRule(c(i).size)
    <2>1. queue[i] \in Candidates
      BY <1>1
    <2>2. queue[i].wait \in 0 .. MaxWait /\ MaxWait \in Nat
      BY <2>1, MatchConstants DEF Candidates
    <2>3. w(i) \in 0 .. MaxWait
      BY <2>2
    <2>4. [queue[i] EXCEPT !.wait = w(i)] = c(i)
      <3> HIDE DEF w
      <3> QED BY <2>1 DEF Candidates
    <2>5. c(i) \in Candidates /\ c(i).party = queue[i].party /\ c(i).size = queue[i].size
      <3> HIDE DEF w
      <3> QED BY <2>1, <2>3 DEF Candidates
    <2> QED
      BY <1>1, <2>4, <2>5 DEF MatchTypeOK
  <1> HIDE DEF c
  <1>3. queue' = [i \in 1 .. Len(queue) |-> c(i)]
    BY <1>1, <1>2 DEF Elapse
  <1>4. queue' \in Seq(Candidates) /\ Len(queue') = Len(queue)
    BY <1>1, <1>2, <1>3
  <1>5. \A i \in 1 .. Len(queue) :
            queue'[i].party = queue[i].party /\ InRule(queue'[i].size)
    BY <1>2, <1>3
  <1> QED
    BY <1>4, <1>5, InPlaceKeeps

(* Every call keeps the queue in order. *)
LEMMA MatchNextKeeps ==
    ASSUME MatchTypeOK, MatchNext
    PROVE  MatchTypeOK' /\ OrderKept
  <1>1. ASSUME NEW p \in Parties, NEW mmr \in Ratings, NEW size \in Sizes,
               Enqueue(p, mmr, size)
        PROVE  MatchTypeOK' /\ OrderKept
    BY <1>1, EnqueueKeeps
  <1>2. ASSUME NEW p \in Parties, NEW size \in Sizes, UpdatePartySize(p, size)
        PROVE  MatchTypeOK' /\ OrderKept
    BY <1>2, UpdatePartySizeKeeps
  <1>3. ASSUME NEW p \in Parties, Cancel(p)
        PROVE  MatchTypeOK' /\ OrderKept
    BY <1>3, RemoveOne, ThinnedKeeps DEF Cancel, PlaceOf
  <1> QED
    BY <1>1, <1>2, <1>3, FindMatchKeeps, ElapseKeeps DEF MatchNext

(* Every candidate in the queue fits the rule, and no party waits twice, so  *)
(* findMatch never pairs a party with itself.                                *)
THEOREM MatchTypeCorrect == MatchSpec => []MatchTypeOK
  <1>1. MatchInit => MatchTypeOK
    BY DEF MatchInit, MatchTypeOK
  <1>2. MatchTypeOK /\ [MatchNext]_queue => MatchTypeOK'
    BY MatchNextKeeps DEF MatchTypeOK, PlaceOf
  <1> QED
    BY <1>1, <1>2, PTL DEF MatchSpec

(* enqueue, cancel, updatePartySize and findMatch never let a party overtake *)
(* another one.                                                              *)
THEOREM MatchNoOvertaking == MatchSpec => NoOvertaking
  <1>1. ASSUME MatchTypeOK, MatchTypeOK', OrderKept, NEW p, NEW r,
               Before(queue, p, r), Before(queue', r, p)
        PROVE  FALSE
    <2>1. /\ DOMAIN queue = 1 .. Len(queue) /\ Len(queue) \in Nat
          /\ DOMAIN queue' = 1 .. Len(queue')
      BY <1>1 DEF MatchTypeOK
    <2>2. PICK a \in 1 .. Len(queue), b \in 1 .. Len(queue) :
              a < b /\ queue[a].party = p /\ queue[b].party = r
      BY <1>1, <2>1 DEF Before
    <2>3. PICK i \in 1 .. Len(queue'), j \in 1 .. Len(queue') :
              i < j /\ queue'[i].party = r /\ queue'[j].party = p
      BY <1>1, <2>1 DEF Before
    <2>4. b < a
      BY <1>1, <2>2, <2>3 DEF OrderKept
    <2> QED
      BY <2>1, <2>2, <2>4
  <1>2. MatchTypeOK /\ [MatchNext]_queue =>
            [\A p, r \in Parties : Before(queue, p, r) => ~Before(queue', r, p)]_queue
    BY <1>1, MatchNextKeeps
  <1> QED
    BY <1>2, MatchTypeCorrect, PTL DEF MatchSpec, NoOvertaking
=============================================================================
