----------------------------- MODULE WireProofs -----------------------------
(***************************************************************************)
(* Proofs about the frames and the messages (Protocol) and about the       *)
(* pipeline that takes them out of the bytes of a connection               *)
(* (PacketPipeline): for every size of a byte from six values on, every    *)
(* message with its fields in range, any cut of the stream.                *)
(***************************************************************************)
EXTENDS PacketPipeline, SequenceTheorems, WellFoundedInduction, TLAPS

-----------------------------------------------------------------------------
(* Induction and recursion *)

(* Induction over the numbers, for a set: a number missing from it would     *)
(* have a least one.                                                         *)
Smaller == {p \in Nat \X Nat : p[1] < p[2]}

LEMMA SmallerWellFounded == IsWellFoundedOn(Smaller, Nat)
  BY NatLessThanWellFounded DEF OpToRel, Smaller

LEMMA NumberInduction ==
    ASSUME NEW T, 0 \in T, \A n \in Nat : n \in T => n + 1 \in T
    PROVE  \A n \in Nat : n \in T
  <1> SUFFICES ASSUME Nat \ T # {}
               PROVE  FALSE
    OBVIOUS
  <1>1. PICK least \in Nat \ T : \A n \in Nat \ T : <<n, least>> \notin Smaller
    <2>1. Nat \ T \subseteq Nat
      OBVIOUS
    <2> QED
      BY <2>1, WFMin, SmallerWellFounded
  <1>2. least - 1 \in Nat /\ least - 1 < least /\ least - 1 + 1 = least
    OBVIOUS
  <1>3. <<least - 1, least>> \in Smaller
    BY <1>2 DEF Smaller
  <1>4. least - 1 \in T
    BY <1>1, <1>2, <1>3
  <1> QED
    BY <1>2, <1>4

(* A loop that starts with a member of X and stays in X has its values. *)
StaysIn(X, step) == \A k \in Nat, x \in X : step[k][x] \in X

Loop(f, n, X, base, step) ==
    /\ f \in [0 .. n -> X]
    /\ f[0] = base
    /\ \A i \in 1 .. n : f[i] = step[i][f[i - 1]]

LEMMA Iterates ==
    ASSUME NEW X, NEW base \in X, NEW step, StaysIn(X, step), NEW n \in Nat
    PROVE  \E f : Loop(f, n, X, base, step)
  <1> DEFINE Runs(f, k) == f[0] = base /\ \A i \in 1 .. k : f[i] = step[i][f[i - 1]]
             T == {k \in Nat : \E f \in [0 .. k -> X] : Runs(f, k)}
  <1>1. 0 \in T
    <2> DEFINE f == [i \in 0 .. 0 |-> base]
    <2>1. f \in [0 .. 0 -> X] /\ f[0] = base
      OBVIOUS
    <2>2. Runs(f, 0)
      BY <2>1
    <2> HIDE DEF f, Runs
    <2> QED
      BY <2>1, <2>2
  <1>2. ASSUME NEW k \in Nat, k \in T
        PROVE  k + 1 \in T
    <2>1. PICK f \in [0 .. k -> X] : Runs(f, k)
      BY <1>2
    <2> DEFINE g == [i \in 0 .. k + 1 |-> IF i = k + 1 THEN step[k + 1][f[k]] ELSE f[i]]
    <2>2. f[k] \in X /\ step[k + 1][f[k]] \in X
      BY DEF StaysIn
    <2>3. /\ g \in [0 .. k + 1 -> X]
          /\ g[k + 1] = step[k + 1][f[k]]
          /\ \A i \in 0 .. k : g[i] = f[i]
      BY <2>2
    <2> HIDE DEF g
    <2>4. ASSUME NEW i \in 1 .. k + 1
          PROVE  g[i] = step[i][g[i - 1]]
      <3>1. CASE i = k + 1
        <4>1. i - 1 = k /\ k \in 0 .. k
          BY <3>1
        <4> QED
          BY <2>3, <3>1, <4>1
      <3>2. CASE i \in 1 .. k
        <4>1. i \in 0 .. k /\ i - 1 \in 0 .. k
          BY <3>2
        <4> QED
          BY <2>1, <2>3, <3>2, <4>1
      <3> QED
        BY <3>1, <3>2
    <2>5. g[0] = base
      BY <2>1, <2>3
    <2>6. Runs(g, k + 1)
      BY <2>4, <2>5
    <2> HIDE DEF Runs
    <2> QED
      BY <2>3, <2>6
  <1> HIDE DEF T
  <1>3. n \in T
    BY <1>1, <1>2, NumberInduction
  <1> QED
    BY <1>3 DEF T, Loop

(* Two loops that start together and take the same steps end together. *)
InStep(f, g, n) ==
    f[0] = g[0] /\ \A i \in 1 .. n : f[i - 1] = g[i - 1] => f[i] = g[i]

LEMMA SameSteps ==
    ASSUME NEW n \in Nat, NEW f, NEW g, InStep(f, g, n)
    PROVE  f[n] = g[n]
  <1> DEFINE T == {i \in Nat : i <= n => f[i] = g[i]}
  <1>1. 0 \in T
    BY DEF InStep
  <1>2. ASSUME NEW i \in Nat, i \in T
        PROVE  i + 1 \in T
    <2> SUFFICES ASSUME i + 1 <= n
                 PROVE  f[i + 1] = g[i + 1]
      OBVIOUS
    <2>1. i + 1 \in 1 .. n /\ (i + 1) - 1 = i /\ f[i] = g[i]
      BY <1>2
    <2> QED
      BY <2>1 DEF InStep
  <1> HIDE DEF T
  <1>3. \A i \in Nat : i \in T
    BY <1>1, <1>2, NumberInduction
  <1> QED
    BY <1>3 DEF T

-----------------------------------------------------------------------------
(* Numbers and their bytes *)

LEMMA ByteModNat == ByteMod \in Nat /\ ByteMod >= 6 /\ ByteMod \in Nat \ {0}
  BY ProtocolConstants

(* Division with a rest is unique. *)
LEMMA Division ==
    ASSUME NEW n \in Nat, NEW d \in Nat \ {0}
    PROVE  /\ n \div d \in Nat /\ n % d \in 0 .. d - 1
           /\ n = (n \div d) * d + (n % d)
  OBVIOUS

LEMMA DivisionUnique ==
    ASSUME NEW n \in Nat, NEW d \in Nat \ {0}, NEW q \in Nat, NEW r \in 0 .. d - 1,
           n = q * d + r
    PROVE  n \div d = q /\ n % d = r
  OBVIOUS

(* Dividing twice is dividing by the product. *)
LEMMA DivideTwice ==
    ASSUME NEW n \in Nat, NEW d \in Nat \ {0}, NEW e \in Nat \ {0}
    PROVE  n \div (d * e) = (n \div d) \div e
  <1>1. PICK q \in Nat, r \in 0 .. d - 1 : n = q * d + r /\ n \div d = q
    BY Division
  <1>2. PICK p \in Nat, s \in 0 .. e - 1 : q = p * e + s /\ q \div e = p
    BY Division
  <1>3. n = p * (d * e) + (s * d + r)
    <2>1. (p * e + s) * d = p * (d * e) + s * d
      BY SMT
    <2> QED
      BY <1>1, <1>2, <2>1
  <1>4. s * d + r \in 0 .. d * e - 1
    <2>1. s * d \in Nat /\ (e - 1 - s) * d \in Nat
      BY SMT
    <2>2. d * e = (e - 1 - s) * d + s * d + d
      BY SMT
    <2> QED
      BY <2>1, <2>2
  <1>5. PICK m \in Nat \ {0} : m = d * e
    <2>1. d * e \in Nat \ {0}
      BY SMT
    <2> QED
      BY <2>1
  <1>6. n \div m = p
    <2>1. PICK t \in 0 .. m - 1 : t = s * d + r
      BY <1>4, <1>5
    <2>2. n = p * m + t
      BY <1>3, <1>5, <2>1
    <2> QED
      BY <2>2, DivisionUnique
  <1> QED
    BY <1>1, <1>2, <1>5, <1>6

(* The powers of ByteMod *)
LEMMA PowerStep ==
    ASSUME NEW k \in Nat
    PROVE  /\ Power(k) \in Nat \ {0}
           /\ k = 0 => Power(k) = 1
           /\ k > 0 => Power(k) = Power(k - 1) * ByteMod
  <1> DEFINE Powers(f, n) == f = [i \in 0 .. n |-> IF i = 0 THEN 1 ELSE f[i - 1] * ByteMod]
             X == Nat \ {0}
             step == [i \in Nat |-> [x \in X |-> x * ByteMod]]
  <1>1. \A i \in Nat, x \in X : step[i][x] = x * ByteMod /\ step[i][x] \in X
    <2>1. \A x \in X : x * ByteMod \in X
      BY ByteModNat, SMT
    <2> QED
      BY <2>1
  <1>2. ASSUME NEW n \in Nat
        PROVE  \E f \in [0 .. n -> X] : Powers(f, n)
    <2>1. 1 \in X
      OBVIOUS
    <2> HIDE DEF X, step
    <2>2. PICK f \in [0 .. n -> X] : f[0] = 1 /\ \A i \in 1 .. n : f[i] = step[i][f[i - 1]]
      <3>1. StaysIn(X, step)
        BY <1>1 DEF StaysIn
      <3>2. \E f : Loop(f, n, X, 1, step)
        BY <2>1, <3>1, Iterates
      <3> QED
        BY <3>2 DEF Loop
    <2>3. ASSUME NEW i \in 0 .. n
          PROVE  f[i] = IF i = 0 THEN 1 ELSE f[i - 1] * ByteMod
      <3>1. CASE i = 0
        BY <2>2, <3>1
      <3>2. CASE i # 0
        <4>1. i \in 1 .. n /\ i - 1 \in 0 .. n /\ i \in Nat
          BY <3>2
        <4>2. f[i - 1] \in X
          BY <4>1
        <4> QED
          BY <1>1, <2>2, <3>2, <4>1, <4>2
      <3> QED
        BY <3>1, <3>2
    <2> QED
      BY <2>3
  <1>3. ASSUME NEW n \in Nat, NEW f \in [0 .. n -> X], Powers(f, n)
        PROVE  Power(n) = f[n]
    <2>1. PICK g : Powers(g, n) /\ Power(n) = g[n]
      BY <1>3 DEF Power
    <2>2. /\ f[0] = 1 /\ \A i \in 1 .. n : f[i] = f[i - 1] * ByteMod
      BY <1>3
    <2>3. /\ g[0] = 1 /\ \A i \in 1 .. n : g[i] = g[i - 1] * ByteMod
      BY <2>1
    <2> HIDE DEF Powers
    <2>4. InStep(g, f, n)
      BY <2>2, <2>3, Zenon DEF InStep
    <2>5. g[n] = f[n]
      BY <2>4, SameSteps
    <2> QED
      BY <2>1, <2>5
  <1>4. PICK f \in [0 .. k -> X] : Powers(f, k)
    BY <1>2
  <1>5. Power(k) = f[k]
    BY <1>3, <1>4
  <1>6. CASE k = 0
    BY <1>4, <1>5, <1>6
  <1>7. CASE k > 0
    <2> DEFINE g == [i \in 0 .. k - 1 |-> f[i]]
    <2>1. k - 1 \in Nat /\ g \in [0 .. k - 1 -> X]
      BY <1>7
    <2>2. /\ f[0] = 1 /\ \A i \in 1 .. k : f[i] = f[i - 1] * ByteMod
      BY <1>4
    <2>3. \A i \in 0 .. k - 1 : g[i] = f[i]
      BY <2>1
    <2>4. \A i \in 0 .. k - 1 : g[i] = IF i = 0 THEN 1 ELSE g[i - 1] * ByteMod
      <3> SUFFICES ASSUME NEW i \in 0 .. k - 1, i # 0
                   PROVE  g[i] = g[i - 1] * ByteMod
        BY <1>7, <2>2, <2>3
      <3>1. i \in 1 .. k /\ i - 1 \in 0 .. k - 1
        BY <1>7
      <3> QED
        BY <2>2, <2>3, <3>1
    <2>5. Powers(g, k - 1)
      BY <2>4
    <2>6. Power(k - 1) = g[k - 1]
      <3> HIDE DEF g, Powers
      <3> QED
        BY <1>3, <2>1, <2>5
    <2>7. k \in 1 .. k /\ k - 1 \in 0 .. k - 1 /\ f[k] \in X
      BY <1>7
    <2>8. Power(k - 1) = f[k - 1] /\ f[k] = f[k - 1] * ByteMod
      BY <2>2, <2>3, <2>6, <2>7
    <2> QED
      BY <1>5, <1>7, <2>7, <2>8
  <1> QED
    BY <1>6, <1>7

(* Each byte of a number is the remainder of what the bytes in front of it   *)
(* and itself make.                                                          *)
LEMMA PowerDivides ==
    ASSUME NEW n \in Nat, NEW k \in Nat \ {0}
    PROVE  /\ n \div Power(k - 1) \in Nat /\ n \div Power(k) \in Nat
           /\ n \div Power(k - 1)
                = (n \div Power(k)) * ByteMod + ((n \div Power(k - 1)) % ByteMod)
           /\ (n \div Power(k - 1)) % ByteMod \in Byte
  <1>1. k - 1 \in Nat /\ k > 0
    OBVIOUS
  <1>2. PICK d \in Nat \ {0} : d = Power(k - 1)
    BY <1>1, PowerStep
  <1>3. Power(k) = d * ByteMod
    BY <1>1, <1>2, PowerStep
  <1>4. PICK q \in Nat : q = n \div d
    BY Division
  <1>5. n \div (d * ByteMod) = q \div ByteMod
    <2>1. ByteMod \in Nat \ {0}
      BY ByteModNat
    <2> QED
      BY <1>4, <2>1, DivideTwice, Zenon
  <1>6. /\ q \div ByteMod \in Nat /\ q % ByteMod \in 0 .. ByteMod - 1
        /\ q = (q \div ByteMod) * ByteMod + (q % ByteMod)
    BY ByteModNat, Division
  <1>7. n \div Power(k - 1) = q /\ n \div Power(k) = q \div ByteMod
    BY <1>2, <1>3, <1>4, <1>5, Zenon
  <1> QED
    BY <1>6, <1>7, Zenon DEF Byte

LEMMA WrittenBytes ==
    ASSUME NEW w \in Nat, NEW n \in Nat
    PROVE  /\ WriteUnsigned(w, n) \in Seq(Byte) /\ Len(WriteUnsigned(w, n)) = w
           /\ \A k \in 1 .. w : WriteUnsigned(w, n)[k] = (n \div Power(w - k)) % ByteMod
  <1> DEFINE b(k) == (n \div Power(w - k)) % ByteMod
  <1>1. ASSUME NEW k \in 1 .. w
        PROVE  b(k) \in Byte
    <2>1. PICK j \in Nat \ {0} : j = (w - k) + 1 /\ j - 1 = w - k
      OBVIOUS
    <2>2. (n \div Power(j - 1)) % ByteMod \in Byte
      BY PowerDivides
    <2> QED
      BY <2>1, <2>2
  <1>2. WriteUnsigned(w, n) = [k \in 1 .. w |-> b(k)]
    BY DEF WriteUnsigned
  <1> HIDE DEF b
  <1>3. [k \in 1 .. w |-> b(k)] \in Seq(Byte)
    BY <1>1
  <1>4. Len([k \in 1 .. w |-> b(k)]) = w
    OBVIOUS
  <1>5. \A k \in 1 .. w : [j \in 1 .. w |-> b(j)][k] = b(k)
    OBVIOUS
  <1> QED
    BY <1>2, <1>3, <1>4, <1>5 DEF b

(* read_u16, read_u32 and read_u64 give back what was written. *)
LEMMA NumberWritten ==
    ASSUME NEW w \in Nat, NEW n \in Unsigned(w)
    PROVE  Number(WriteUnsigned(w, n)) = n
  <1> DEFINE bytes == WriteUnsigned(w, n)
             f == [k \in 0 .. w |-> n \div Power(w - k)]
             Sums(g) == g = [k \in 0 .. Len(bytes) |->
                                IF k = 0 THEN 0 ELSE g[k - 1] * ByteMod + bytes[k]]
  <1>1. n \in Nat /\ n < Power(w) /\ Power(w) \in Nat \ {0}
    <2>1. PICK d \in Nat \ {0} : d = Power(w)
      BY PowerStep
    <2> QED
      BY <2>1 DEF Unsigned, UnsignedMax
  <1>2. Len(bytes) = w /\ \A k \in 1 .. w : bytes[k] = (n \div Power(w - k)) % ByteMod
    BY <1>1, WrittenBytes
  <1>3. \A k \in 0 .. w : f[k] = n \div Power(w - k)
    OBVIOUS
  <1>4. f[0] = 0
    <2>1. PICK d \in Nat \ {0} : d = Power(w)
      BY <1>1
    <2>2. n \div d = 0
      BY <1>1, <2>1, DivisionUnique
    <2>3. f[0] = n \div Power(w)
      BY <1>3
    <2> QED
      BY <2>1, <2>2, <2>3
  <1>5. f[w] = n
    <2>1. Power(0) = 1 /\ w - w = 0 /\ w \in 0 .. w
      BY PowerStep
    <2>2. n \div 1 = n
      BY <1>1
    <2> QED
      BY <1>3, <2>1, <2>2
  <1>6. ASSUME NEW k \in 1 .. w
        PROVE  f[k] = f[k - 1] * ByteMod + bytes[k]
    <2>1. PICK j \in Nat \ {0} : j = w - (k - 1) /\ j - 1 = w - k
      OBVIOUS
    <2>2. n \div Power(j - 1) = (n \div Power(j)) * ByteMod + ((n \div Power(j - 1)) % ByteMod)
      BY <1>1, PowerDivides
    <2>3. f[k] = n \div Power(j - 1) /\ f[k - 1] = n \div Power(j)
      BY <1>3, <2>1
    <2>4. bytes[k] = (n \div Power(j - 1)) % ByteMod
      BY <1>2, <2>1
    <2> HIDE DEF f, bytes
    <2> QED
      BY <2>2, <2>3, <2>4, Zenon
  <1>7. f = [k \in 0 .. w |-> f[k]]
    OBVIOUS
  <1> HIDE DEF f, bytes
  <1>8. Sums(f)
    <2>1. ASSUME NEW k \in 0 .. w
          PROVE  f[k] = IF k = 0 THEN 0 ELSE f[k - 1] * ByteMod + bytes[k]
      <3>1. CASE k = 0
        BY <1>4, <3>1
      <3>2. CASE k # 0
        <4>1. k \in 1 .. w
          BY <3>2
        <4> QED
          BY <1>6, <3>2, <4>1, Zenon
      <3> QED
        BY <3>1, <3>2
    <2> QED
      BY <1>2, <1>7, <2>1
  <1>9. PICK g : Sums(g) /\ Number(bytes) = g[w]
    BY <1>2, <1>8 DEF Number
  <1>10. InStep(g, f, w)
    <2>1. g[0] = 0 /\ \A k \in 1 .. w : g[k] = g[k - 1] * ByteMod + bytes[k]
      BY <1>2, <1>9
    <2> QED
      BY <1>4, <1>6, <2>1, Zenon DEF InStep
  <1>11. g[w] = f[w]
    BY <1>10, SameSteps
  <1> QED
    BY <1>5, <1>9, <1>11 DEF bytes

-----------------------------------------------------------------------------
(* Cutting sequences *)

LEMMA JoinFacts ==
    ASSUME NEW S, NEW a \in Seq(S), NEW b \in Seq(S)
    PROVE  /\ a \o b \in Seq(S) /\ Len(a \o b) = Len(a) + Len(b)
           /\ Len(a) \in Nat /\ Len(b) \in Nat
           /\ \A i \in 1 .. Len(a) : (a \o b)[i] = a[i]
           /\ \A i \in 1 .. Len(b) : (a \o b)[Len(a) + i] = b[i]
  BY ConcatProperties

LEMMA Cut ==
    ASSUME NEW S, NEW a \in Seq(S), NEW b \in Seq(S)
    PROVE  /\ a \o b \in Seq(S) /\ Len(a \o b) = Len(a) + Len(b)
           /\ Take(a \o b, Len(a)) = a /\ Drop(a \o b, Len(a)) = b
  <1>1. /\ a \o b \in Seq(S) /\ Len(a \o b) = Len(a) + Len(b)
        /\ Len(a) \in Nat /\ Len(b) \in Nat
        /\ \A i \in 1 .. Len(a) : (a \o b)[i] = a[i]
        /\ \A i \in 1 .. Len(b) : (a \o b)[Len(a) + i] = b[i]
    BY JoinFacts
  <1> DEFINE ab == a \o b
  <1> HIDE DEF ab
  <1>2. Take(ab, Len(a)) = a
    <2>1. /\ Take(ab, Len(a)) \in Seq(S) /\ Len(Take(ab, Len(a))) = Len(a)
          /\ \A i \in 1 .. Len(a) : Take(ab, Len(a))[i] = a[i]
      BY <1>1 DEF Take, ab
    <2> QED
      BY <2>1, SeqEqual
  <1>3. Drop(ab, Len(a)) = b
    <2>1. /\ Drop(ab, Len(a)) \in Seq(S) /\ Len(Drop(ab, Len(a))) = Len(b)
          /\ \A i \in 1 .. Len(b) : Drop(ab, Len(a))[i] = b[i]
      BY <1>1 DEF Drop, ab
    <2> QED
      BY <2>1, SeqEqual
  <1> QED
    BY <1>1, <1>2, <1>3 DEF ab

LEMMA TakeFacts ==
    ASSUME NEW S, NEW s \in Seq(S), NEW n \in 0 .. Len(s)
    PROVE  /\ Take(s, n) \in Seq(S) /\ Len(Take(s, n)) = n
           /\ \A i \in 1 .. n : Take(s, n)[i] = s[i]
           /\ Drop(s, n) \in Seq(S) /\ Len(Drop(s, n)) = Len(s) - n
           /\ \A i \in 1 .. Len(s) - n : Drop(s, n)[i] = s[n + i]
  <1>1. Len(s) \in Nat /\ n \in Nat /\ n <= Len(s) /\ \A i \in 1 .. Len(s) : s[i] \in S
    BY ElementOfSeq
  <1>2. /\ Take(s, n) \in Seq(S) /\ Len(Take(s, n)) = n
        /\ \A i \in 1 .. n : Take(s, n)[i] = s[i]
    BY <1>1 DEF Take
  <1>3. /\ Drop(s, n) \in Seq(S) /\ Len(Drop(s, n)) = Len(s) - n
        /\ \A i \in 1 .. Len(s) - n : Drop(s, n)[i] = s[n + i]
    BY <1>1 DEF Drop
  <1> QED
    BY <1>2, <1>3

(* Taking less than a first part, and taking more than it. *)
LEMMA TakeOfJoin ==
    ASSUME NEW S, NEW a \in Seq(S), NEW b \in Seq(S)
    PROVE  /\ \A n \in 0 .. Len(a) : Take(a \o b, n) = Take(a, n)
           /\ \A n \in 0 .. Len(b) : Take(a \o b, Len(a) + n) = a \o Take(b, n)
  <1>1. /\ a \o b \in Seq(S) /\ Len(a \o b) = Len(a) + Len(b)
        /\ Len(a) \in Nat /\ Len(b) \in Nat
        /\ \A i \in 1 .. Len(a) : (a \o b)[i] = a[i]
        /\ \A i \in 1 .. Len(b) : (a \o b)[Len(a) + i] = b[i]
    BY JoinFacts
  <1>2. PICK ab \in Seq(S) : ab = a \o b
    BY <1>1
  <1>3. ASSUME NEW n \in 0 .. Len(a)
        PROVE  Take(ab, n) = Take(a, n)
    <2>1. n \in 0 .. Len(ab)
      BY <1>1, <1>2
    <2>2. /\ Take(ab, n) \in Seq(S) /\ Len(Take(ab, n)) = n
          /\ \A i \in 1 .. n : Take(ab, n)[i] = ab[i]
      BY <2>1, TakeFacts
    <2>3. /\ Take(a, n) \in Seq(S) /\ Len(Take(a, n)) = n
          /\ \A i \in 1 .. n : Take(a, n)[i] = a[i]
      BY TakeFacts
    <2>4. \A i \in 1 .. n : Take(ab, n)[i] = Take(a, n)[i]
      <3> SUFFICES ASSUME NEW i \in 1 .. n
                   PROVE  Take(ab, n)[i] = Take(a, n)[i]
        OBVIOUS
      <3>1. i \in 1 .. Len(a)
        BY <1>1
      <3>2. ab[i] = a[i]
        BY <1>1, <1>2, <3>1, Zenon
      <3> QED
        BY <2>2, <2>3, <3>2, Zenon
    <2> QED
      BY <2>2, <2>3, <2>4, SeqEqual
  <1>4. ASSUME NEW n \in 0 .. Len(b)
        PROVE  Take(ab, Len(a) + n) = a \o Take(b, n)
    <2>1. PICK m \in 0 .. Len(ab) : m = Len(a) + n
      BY <1>1, <1>2
    <2>2. /\ Take(ab, m) \in Seq(S) /\ Len(Take(ab, m)) = m
          /\ \A i \in 1 .. m : Take(ab, m)[i] = ab[i]
      BY TakeFacts
    <2>3. PICK t \in Seq(S) : t = Take(b, n) /\ Len(t) = n /\ \A i \in 1 .. n : t[i] = b[i]
      BY TakeFacts
    <2>4. /\ \A i \in 1 .. Len(a) : (a \o t)[i] = a[i]
          /\ \A i \in 1 .. Len(t) : (a \o t)[Len(a) + i] = t[i]
      BY JoinFacts
    <2>7. a \o t \in Seq(S) /\ Len(a \o t) = m
      <3>1. a \o t \in Seq(S) /\ Len(a \o t) = Len(a) + Len(t)
        BY JoinFacts, Zenon
      <3> QED
        BY <2>1, <2>3, <3>1
    <2>5. ASSUME NEW i \in 1 .. m
          PROVE  Take(ab, m)[i] = (a \o t)[i]
      <3>1. CASE i <= Len(a)
        <4>1. i \in 1 .. Len(a)
          BY <1>1, <3>1
        <4>2. ab[i] = a[i] /\ (a \o t)[i] = a[i]
          BY <1>1, <1>2, <2>4, <4>1, Zenon
        <4> QED
          BY <2>2, <4>2, Zenon
      <3>2. CASE i > Len(a)
        <4>1. PICK j \in 1 .. n : i = Len(a) + j
          <5>1. i - Len(a) \in 1 .. n /\ i = Len(a) + (i - Len(a))
            BY <1>1, <2>1, <3>2
          <5> QED
            BY <5>1
        <4>2. j \in 1 .. Len(b) /\ j \in 1 .. Len(t)
          BY <1>1, <2>3
        <4>3. ab[i] = b[j] /\ (a \o t)[i] = t[j] /\ t[j] = b[j]
          BY <1>1, <1>2, <2>3, <2>4, <4>1, <4>2, Zenon
        <4> QED
          BY <2>2, <4>3, Zenon
      <3>3. i <= Len(a) \/ i > Len(a)
        BY <1>1
      <3> QED
        BY <3>1, <3>2, <3>3, Zenon
    <2>6. Take(ab, m) = a \o t
      BY <2>2, <2>5, <2>7, SeqEqual
    <2> QED
      BY <2>1, <2>3, <2>6
  <1> QED
    BY <1>2, <1>3, <1>4

LEMMA TakeBeyond ==
    ASSUME NEW S, NEW a \in Seq(S), NEW b \in Seq(S), NEW n \in 0 .. Len(b)
    PROVE  Take(a \o b, Len(a) + n) = a \o Take(b, n)
  BY TakeOfJoin

-----------------------------------------------------------------------------
(* Readers and what they undo *)

(* What a reader gives that finds a value in front of other bytes *)
Found(v, rest) == {<<v, rest>>}

(* The reader R, a function of the bytes in front of it, finds the value v   *)
(* where the bytes w stand, whatever follows them, and reads nothing from a  *)
(* part of w that breaks off.                                                *)
Undoes(R, w, v) ==
    /\ w \in Seq(Byte)
    /\ \A rest \in Seq(Byte) : R[w \o rest] = Found(v, rest)
    /\ \A n \in 0 .. Len(w) - 1 : R[Take(w, n)] = {}

(* R reads with R1 first and then, having found v1, as R2 does. *)
GoesOn(R, R1, v1, R2) ==
    \A b \in Seq(Byte) :
        /\ R1[b] = {} => R[b] = {}
        /\ \A rest \in Seq(Byte) : R1[b] = Found(v1, rest) => R[b] = R2[rest]

LEMMA UndoneTwice ==
    ASSUME NEW R, NEW R1, NEW R2, NEW w1, NEW w2, NEW v1, NEW v2,
           Undoes(R1, w1, v1), Undoes(R2, w2, v2), GoesOn(R, R1, v1, R2)
    PROVE  Undoes(R, w1 \o w2, v2)
  <1>1. w1 \in Seq(Byte) /\ w2 \in Seq(Byte) /\ Len(w1) \in Nat /\ Len(w2) \in Nat
    BY DEF Undoes
  <1>2. w1 \o w2 \in Seq(Byte) /\ Len(w1 \o w2) = Len(w1) + Len(w2)
    BY <1>1
  <1>3. ASSUME NEW rest \in Seq(Byte)
        PROVE  R[(w1 \o w2) \o rest] = Found(v2, rest)
    <2>1. (w1 \o w2) \o rest = w1 \o (w2 \o rest)
      BY <1>1, ConcatAssociative
    <2>2. PICK more \in Seq(Byte) : more = w2 \o rest
      <3>1. w2 \o rest \in Seq(Byte)
        BY <1>1, JoinFacts
      <3> QED
        BY <3>1
    <2>3. PICK all \in Seq(Byte) : all = w1 \o more
      <3>1. w1 \o more \in Seq(Byte)
        BY <1>1, JoinFacts
      <3> QED
        BY <3>1
    <2>4. R1[all] = Found(v1, more) /\ R2[more] = Found(v2, rest)
      BY <2>2, <2>3 DEF Undoes
    <2>5. R[all] = R2[more]
      BY <2>4, Zenon DEF GoesOn
    <2> QED
      BY <2>1, <2>2, <2>3, <2>4, <2>5, Zenon
  <1>4. ASSUME NEW n \in 0 .. Len(w1 \o w2) - 1
        PROVE  R[Take(w1 \o w2, n)] = {}
    <2>1. CASE n < Len(w1)
      <3>1. n \in 0 .. Len(w1) - 1 /\ n \in 0 .. Len(w1)
        BY <1>1, <1>2, <2>1
      <3>2. PICK t \in Seq(Byte) : t = Take(w1, n)
        BY <1>1, <3>1, TakeFacts
      <3>3. Take(w1 \o w2, n) = t
        BY <1>1, <3>1, <3>2, TakeOfJoin, Zenon
      <3>4. R1[t] = {}
        BY <3>1, <3>2, Zenon DEF Undoes
      <3> QED
        BY <3>3, <3>4, Zenon DEF GoesOn
    <2>2. CASE n >= Len(w1)
      <3>1. PICK k \in 0 .. Len(w2) - 1 : n = Len(w1) + k
        <4>1. n - Len(w1) \in 0 .. Len(w2) - 1 /\ n = Len(w1) + (n - Len(w1))
          BY <1>1, <1>2, <2>2
        <4> QED
          BY <4>1
      <3>2. k \in 0 .. Len(w2)
        BY <1>1
      <3>3. PICK t \in Seq(Byte) : t = Take(w2, k)
        BY <1>1, <3>2, TakeFacts
      <3>4. Take(w1 \o w2, n) = w1 \o t
        <4>1. Take(w1 \o w2, Len(w1) + k) = w1 \o Take(w2, k)
          BY <1>1, <3>2, TakeBeyond
        <4> QED
          BY <3>1, <3>3, <4>1, Zenon
      <3>5. PICK all \in Seq(Byte) : all = w1 \o t
        <4>1. w1 \o t \in Seq(Byte)
          BY <1>1, JoinFacts
        <4> QED
          BY <4>1
      <3>6. R1[all] = Found(v1, t) /\ R2[t] = {}
        BY <3>3, <3>5, Zenon DEF Undoes
      <3>7. R[all] = R2[t]
        BY <3>6, Zenon DEF GoesOn
      <3> QED
        BY <3>4, <3>5, <3>6, <3>7, Zenon
    <2>3. n < Len(w1) \/ n >= Len(w1)
      BY <1>1, <1>2
    <2> QED
      BY <2>1, <2>2, <2>3, Zenon
  <1> QED
    BY <1>2, <1>3, <1>4, Zenon DEF Undoes

BytesReader(n) == [b \in Seq(Byte) |-> ReadBytes(n, b)]

LEMMA BytesUndone ==
    ASSUME NEW s \in Seq(Byte)
    PROVE  Undoes(BytesReader(Len(s)), s, s)
  <1>1. Len(s) \in Nat
    OBVIOUS
  <1>2. ASSUME NEW rest \in Seq(Byte)
        PROVE  BytesReader(Len(s))[s \o rest] = Found(s, rest)
    <2>1. PICK all \in Seq(Byte) : /\ all = s \o rest /\ Len(all) = Len(s) + Len(rest)
                                   /\ Take(all, Len(s)) = s /\ Drop(all, Len(s)) = rest
      BY Cut
    <2>2. ~(Len(all) < Len(s))
      BY <1>1, <2>1
    <2>3. ReadBytes(Len(s), all) = Found(s, rest)
      BY <2>1, <2>2 DEF ReadBytes, Found
    <2> QED
      BY <2>1, <2>3 DEF BytesReader
  <1>3. ASSUME NEW n \in 0 .. Len(s) - 1
        PROVE  BytesReader(Len(s))[Take(s, n)] = {}
    <2>1. n \in 0 .. Len(s) /\ n < Len(s)
      BY <1>1
    <2>2. PICK t \in Seq(Byte) : t = Take(s, n) /\ Len(t) = n
      BY <2>1, TakeFacts
    <2> QED
      BY <2>1, <2>2 DEF BytesReader, ReadBytes
  <1> QED
    BY <1>2, <1>3 DEF Undoes

UnsignedReader(w) == [b \in Seq(Byte) |-> ReadUnsigned(w, b)]

(* read_u16, read_u32, read_u64: what was written is read, and nothing from  *)
(* too few bytes.                                                            *)
LEMMA UnsignedUndone ==
    ASSUME NEW w \in Nat, NEW n \in Unsigned(w)
    PROVE  Undoes(UnsignedReader(w), WriteUnsigned(w, n), n)
  <1>1. n \in Nat
    <2>1. PICK d \in Nat \ {0} : d = Power(w)
      BY PowerStep
    <2> QED
      BY <2>1 DEF Unsigned, UnsignedMax
  <1>2. PICK s \in Seq(Byte) : s = WriteUnsigned(w, n) /\ Len(s) = w /\ Number(s) = n
    BY <1>1, WrittenBytes, NumberWritten
  <1>3. Undoes(BytesReader(w), s, s)
    BY <1>2, BytesUndone
  <1>4. ASSUME NEW rest \in Seq(Byte)
        PROVE  UnsignedReader(w)[s \o rest] = Found(n, rest)
    <2>1. s \o rest \in Seq(Byte)
      OBVIOUS
    <2>2. BytesReader(w)[s \o rest] = Found(s, rest)
      BY <1>3 DEF Undoes
    <2>3. ReadBytes(w, s \o rest) = {<<s, rest>>}
      BY <2>1, <2>2 DEF BytesReader, Found
    <2>4. ReadUnsigned(w, s \o rest) = {<<Number(s), rest>>}
      BY <2>3 DEF ReadUnsigned
    <2> QED
      BY <1>2, <2>1, <2>4 DEF UnsignedReader, Found
  <1>5. ASSUME NEW k \in 0 .. Len(s) - 1
        PROVE  UnsignedReader(w)[Take(s, k)] = {}
    <2>1. k \in 0 .. Len(s)
      BY <1>2
    <2>2. PICK t \in Seq(Byte) : t = Take(s, k)
      BY <2>1, TakeFacts
    <2>3. BytesReader(w)[t] = {}
      BY <1>3, <2>2 DEF Undoes
    <2>4. ReadBytes(w, t) = {}
      BY <2>3 DEF BytesReader
    <2>5. ReadUnsigned(w, t) = {}
      BY <2>4 DEF ReadUnsigned
    <2> QED
      BY <2>2, <2>5 DEF UnsignedReader
  <1> QED
    BY <1>2, <1>4, <1>5 DEF Undoes

(* Limited cuts a string or a list to what a 16-bit length can say. *)
LEMMA LimitedFacts ==
    ASSUME NEW S, NEW s \in Seq(S)
    PROVE  /\ Limited(s) \in Seq(S) /\ Len(Limited(s)) \in Unsigned(2)
           /\ Len(Limited(s)) <= Len(s)
           /\ \A k \in 1 .. Len(Limited(s)) : Limited(s)[k] = s[k]
  <1>1. PICK m \in Nat : m = UnsignedMax(2)
    <2>1. PICK d \in Nat \ {0} : d = Power(2)
      BY PowerStep
    <2> QED
      BY <2>1 DEF UnsignedMax
  <1>2. Len(s) \in Nat
    OBVIOUS
  <1>3. CASE Len(s) > m
    <2>1. m \in 0 .. Len(s)
      BY <1>2, <1>3
    <2>2. /\ Take(s, m) \in Seq(S) /\ Len(Take(s, m)) = m
          /\ \A i \in 1 .. m : Take(s, m)[i] = s[i]
      BY <2>1, TakeFacts
    <2>3. Limited(s) = Take(s, m)
      BY <1>1, <1>3 DEF Limited
    <2> QED
      BY <1>1, <2>1, <2>2, <2>3 DEF Unsigned
  <1>4. CASE ~(Len(s) > m)
    <2>1. Limited(s) = s
      BY <1>1, <1>4 DEF Limited
    <2> QED
      BY <1>1, <1>2, <1>4, <2>1 DEF Unsigned
  <1> QED
    BY <1>3, <1>4

LEMMA ReadStringOf ==
    ASSUME NEW b, NEW n, NEW rest, ReadUnsigned(2, b) = {<<n, rest>>}
    PROVE  ReadString(b) = ReadBytes(n, rest)
  <1>1. \A r \in ReadUnsigned(2, b) : r[1] = n /\ r[2] = rest
    OBVIOUS
  <1>2. ReadUnsigned(2, b) # {}
    OBVIOUS
  <1> QED
    BY <1>1, <1>2 DEF ReadString

StringReader == [b \in Seq(Byte) |-> ReadString(b)]

(* read_string undoes write_string, up to the limit on its length. *)
LEMMA StringUndone ==
    ASSUME NEW s \in Seq(Byte)
    PROVE  Undoes(StringReader, WriteString(s), Limited(s))
  <1>1. PICK t \in Seq(Byte) : t = Limited(s) /\ Len(t) \in Unsigned(2)
    BY LimitedFacts
  <1>2. Undoes(UnsignedReader(2), WriteUnsigned(2, Len(t)), Len(t))
    BY <1>1, UnsignedUndone
  <1>3. Undoes(BytesReader(Len(t)), t, t)
    BY BytesUndone
  <1>4. GoesOn(StringReader, UnsignedReader(2), Len(t), BytesReader(Len(t)))
    <2>1. ASSUME NEW b \in Seq(Byte), UnsignedReader(2)[b] = {}
          PROVE  StringReader[b] = {}
      <3>1. ReadUnsigned(2, b) = {}
        BY <2>1 DEF UnsignedReader
      <3>2. ReadString(b) = {}
        BY <3>1 DEF ReadString
      <3> QED
        BY <3>2 DEF StringReader
    <2>2. ASSUME NEW b \in Seq(Byte), NEW rest \in Seq(Byte),
                 UnsignedReader(2)[b] = Found(Len(t), rest)
          PROVE  StringReader[b] = BytesReader(Len(t))[rest]
      <3>1. ReadUnsigned(2, b) = {<<Len(t), rest>>}
        BY <2>2 DEF UnsignedReader, Found
      <3>2. ReadString(b) = ReadBytes(Len(t), rest)
        BY <3>1, ReadStringOf
      <3> QED
        BY <3>2 DEF StringReader, BytesReader
    <2> QED
      BY <2>1, <2>2 DEF GoesOn
  <1>5. Undoes(StringReader, WriteUnsigned(2, Len(t)) \o t, t)
    BY <1>2, <1>3, <1>4, UndoneTwice
  <1> QED
    BY <1>1, <1>5 DEF WriteString

ItemReader == [b \in Seq(Byte) |-> ReadItem(b)]

ItemSet == [item_id : Unsigned(4), count : Unsigned(4)]

(* The second half of an item, once its id is known *)
Counted(id, b) == {<<[item_id |-> id, count |-> n[1]], n[2]>> : n \in ReadUnsigned(4, b)}

CountReader(id) == [b \in Seq(Byte) |-> Counted(id, b)]

LEMMA CountedOf ==
    ASSUME NEW id, NEW n, NEW b, NEW rest, ReadUnsigned(4, b) = {<<n, rest>>}
    PROVE  Counted(id, b) = {<<[item_id |-> id, count |-> n], rest>>}
  <1>1. \A r \in ReadUnsigned(4, b) : r[1] = n /\ r[2] = rest
    OBVIOUS
  <1>2. ReadUnsigned(4, b) # {}
    OBVIOUS
  <1> QED
    BY <1>1, <1>2 DEF Counted

LEMMA ReadItemOf ==
    ASSUME NEW b, NEW id, NEW rest, ReadUnsigned(4, b) = {<<id, rest>>}
    PROVE  ReadItem(b) = Counted(id, rest)
  <1>1. \A r \in ReadUnsigned(4, b) : r[1] = id /\ r[2] = rest
    OBVIOUS
  <1>2. ReadUnsigned(4, b) # {}
    OBVIOUS
  <1>3. ReadItem(b) = UNION {Counted(r[1], r[2]) : r \in ReadUnsigned(4, b)}
    BY DEF ReadItem, Counted
  <1> QED
    BY <1>1, <1>2, <1>3

(* An item of read_reward_items and write_reward_items *)
LEMMA ItemUndone ==
    ASSUME NEW item \in ItemSet
    PROVE  Undoes(ItemReader, WriteItem(item), item)
  <1>1. PICK id \in Unsigned(4), n \in Unsigned(4) : item = [item_id |-> id, count |-> n]
    BY DEF ItemSet
  <1>2. /\ Undoes(UnsignedReader(4), WriteUnsigned(4, id), id)
        /\ Undoes(UnsignedReader(4), WriteUnsigned(4, n), n)
    BY UnsignedUndone
  <1>3. Undoes(CountReader(id), WriteUnsigned(4, n), item)
    <2>1. PICK s : s = WriteUnsigned(4, n)
      OBVIOUS
    <2>2. s \in Seq(Byte)
      BY <1>2, <2>1 DEF Undoes
    <2>3. ASSUME NEW b \in Seq(Byte), NEW rest, UnsignedReader(4)[b] = Found(n, rest)
          PROVE  CountReader(id)[b] = Found(item, rest)
      <3>1. ReadUnsigned(4, b) = {<<n, rest>>}
        BY <2>3 DEF UnsignedReader, Found
      <3>2. Counted(id, b) = {<<[item_id |-> id, count |-> n], rest>>}
        BY <3>1, CountedOf
      <3> QED
        BY <1>1, <3>2 DEF CountReader, Found
    <2>4. ASSUME NEW b \in Seq(Byte), UnsignedReader(4)[b] = {}
          PROVE  CountReader(id)[b] = {}
      <3>1. ReadUnsigned(4, b) = {}
        BY <2>4 DEF UnsignedReader
      <3> QED
        BY <3>1 DEF CountReader, Counted
    <2>5. ASSUME NEW rest \in Seq(Byte)
          PROVE  CountReader(id)[s \o rest] = Found(item, rest)
      <3>1. s \o rest \in Seq(Byte)
        BY <2>2, JoinFacts
      <3>2. UnsignedReader(4)[s \o rest] = Found(n, rest)
        BY <1>2, <2>1 DEF Undoes
      <3> QED
        BY <2>3, <3>1, <3>2
    <2>6. ASSUME NEW k \in 0 .. Len(s) - 1
          PROVE  CountReader(id)[Take(s, k)] = {}
      <3>1. k \in 0 .. Len(s)
        BY <2>2
      <3>2. Take(s, k) \in Seq(Byte)
        BY <2>2, <3>1, TakeFacts
      <3>3. UnsignedReader(4)[Take(s, k)] = {}
        BY <1>2, <2>1 DEF Undoes
      <3> QED
        BY <2>4, <3>2, <3>3
    <2> QED
      BY <2>1, <2>2, <2>5, <2>6 DEF Undoes
  <1>4. GoesOn(ItemReader, UnsignedReader(4), id, CountReader(id))
    <2>1. ASSUME NEW b \in Seq(Byte), UnsignedReader(4)[b] = {}
          PROVE  ItemReader[b] = {}
      <3>1. ReadUnsigned(4, b) = {}
        BY <2>1 DEF UnsignedReader
      <3>2. ReadItem(b) = {}
        BY <3>1 DEF ReadItem
      <3> QED
        BY <3>2 DEF ItemReader
    <2>2. ASSUME NEW b \in Seq(Byte), NEW rest \in Seq(Byte),
                 UnsignedReader(4)[b] = Found(id, rest)
          PROVE  ItemReader[b] = CountReader(id)[rest]
      <3>1. ReadUnsigned(4, b) = {<<id, rest>>}
        BY <2>2 DEF UnsignedReader, Found
      <3>2. ReadItem(b) = Counted(id, rest)
        BY <3>1, ReadItemOf
      <3> QED
        BY <3>2 DEF ItemReader, CountReader
    <2> QED
      BY <2>1, <2>2 DEF GoesOn
  <1>5. Undoes(ItemReader, WriteUnsigned(4, id) \o WriteUnsigned(4, n), item)
    BY <1>2, <1>3, <1>4, UndoneTwice
  <1> QED
    BY <1>1, <1>5 DEF WriteItem

-----------------------------------------------------------------------------
(* Parts written one after the other *)

(* all is made of the first m of the parts; the k-th ends at off[k]. *)
Pieces(all, off, parts, m) ==
    /\ all \in Seq(Byte)
    /\ off[0] = 0 /\ off[m] = Len(all)
    /\ \A k \in 0 .. m : off[k] \in 0 .. Len(all)
    /\ \A k \in 1 .. m : /\ off[k] = off[k - 1] + Len(parts[k])
                         /\ SubSeq(all, off[k - 1] + 1, off[k]) = parts[k]

(* A part of a first part is a part of the whole. *)
LEMMA SubSeqOfJoin ==
    ASSUME NEW a \in Seq(Byte), NEW b \in Seq(Byte), NEW i \in Nat, NEW j \in 0 .. Len(a)
    PROVE  SubSeq(a \o b, i + 1, j) = SubSeq(a, i + 1, j)
  <1>1. PICK ab \in Seq(Byte) : /\ ab = a \o b /\ Len(ab) = Len(a) + Len(b)
                                /\ \A k \in 1 .. Len(a) : ab[k] = a[k]
    <2>1. a \o b \in Seq(Byte) /\ Len(a \o b) = Len(a) + Len(b)
      BY JoinFacts
    <2>2. \A k \in 1 .. Len(a) : (a \o b)[k] = a[k]
      BY JoinFacts
    <2> QED
      BY <2>1, <2>2
  <1>2. Len(a) \in Nat /\ Len(b) \in Nat /\ j \in Nat /\ j <= Len(a)
    OBVIOUS
  <1>3. CASE j <= i
    <2>1. SubSeq(ab, i + 1, j) = <<>> /\ SubSeq(a, i + 1, j) = <<>>
      BY <1>2, <1>3, SubSeqEmpty
    <2> QED
      BY <1>1, <2>1
  <1>4. CASE j > i
    <2> DEFINE x == SubSeq(ab, i + 1, j)
               y == SubSeq(a, i + 1, j)
    <2>1. /\ x \in Seq(Byte) /\ Len(x) = j - i
          /\ \A k \in 1 .. j - i : x[k] = ab[i + k]
      BY <1>1, <1>2, <1>4
    <2>2. /\ y \in Seq(Byte) /\ Len(y) = j - i
          /\ \A k \in 1 .. j - i : y[k] = a[i + k]
      BY <1>2, <1>4
    <2> HIDE DEF x, y
    <2>3. ASSUME NEW k \in 1 .. j - i
          PROVE  x[k] = y[k]
      <3>1. i + k \in 1 .. Len(a)
        BY <1>2
      <3>2. ab[i + k] = a[i + k]
        BY <1>1, <3>1
      <3> QED
        BY <2>1, <2>2, <3>2
    <2>4. x = y
      BY <2>1, <2>2, <2>3, SeqEqual
    <2> QED
      BY <1>1, <2>4 DEF x, y
  <1> QED
    BY <1>2, <1>3, <1>4

LEMMA PiecesGrow ==
    ASSUME NEW all, NEW off, NEW parts, NEW m \in Nat, Pieces(all, off, parts, m),
           parts[m + 1] \in Seq(Byte), off[m + 1] = Len(all \o parts[m + 1])
    PROVE  Pieces(all \o parts[m + 1], off, parts, m + 1)
  <1>1. PICK b \in Seq(Byte) : b = parts[m + 1]
    OBVIOUS
  <1>2. PICK a \in Seq(Byte) : a = all
    BY DEF Pieces
  <1>3. PICK ab \in Seq(Byte) : /\ ab = a \o b /\ Len(ab) = Len(a) + Len(b)
                                /\ Drop(ab, Len(a)) = b
    BY Cut
  <1>4. Len(a) \in Nat /\ Len(b) \in Nat
    OBVIOUS
  <1>5. /\ off[0] = 0 /\ off[m] = Len(a)
        /\ \A k \in 0 .. m : off[k] \in 0 .. Len(a)
        /\ \A k \in 1 .. m : /\ off[k] = off[k - 1] + Len(parts[k])
                             /\ SubSeq(a, off[k - 1] + 1, off[k]) = parts[k]
    BY <1>2 DEF Pieces
  <1>6. off[m + 1] = Len(ab)
    BY <1>1, <1>2, <1>3
  <1>7. ASSUME NEW k \in 0 .. m + 1
        PROVE  off[k] \in 0 .. Len(ab)
    <2>1. CASE k \in 0 .. m
      <3>1. off[k] \in 0 .. Len(a)
        BY <1>5, <2>1
      <3> QED
        BY <1>3, <1>4, <3>1
    <2>2. CASE k = m + 1
      BY <1>3, <1>4, <1>6, <2>2
    <2> QED
      BY <2>1, <2>2
  <1>8. ASSUME NEW k \in 1 .. m + 1
        PROVE  /\ off[k] = off[k - 1] + Len(parts[k])
               /\ SubSeq(ab, off[k - 1] + 1, off[k]) = parts[k]
    <2>1. CASE k \in 1 .. m
      <3>1. k - 1 \in 0 .. m /\ k \in 0 .. m
        BY <2>1
      <3>2. PICK i \in Nat, j \in 0 .. Len(a) : i = off[k - 1] /\ j = off[k]
        <4>1. off[k - 1] \in 0 .. Len(a) /\ off[k] \in 0 .. Len(a)
          BY <1>5, <3>1
        <4>2. off[k - 1] \in Nat
          BY <1>4, <4>1
        <4> QED
          BY <4>1, <4>2
      <3>3. SubSeq(ab, i + 1, j) = SubSeq(a, i + 1, j)
        BY <1>3, SubSeqOfJoin
      <3>4. off[k] = off[k - 1] + Len(parts[k])
        BY <1>5, <2>1
      <3>5. SubSeq(a, off[k - 1] + 1, off[k]) = parts[k]
        BY <1>5, <2>1
      <3> QED
        BY <3>2, <3>3, <3>4, <3>5, Zenon
    <2>2. CASE k = m + 1
      <3>1. off[k - 1] = Len(a) /\ off[k] = Len(ab) /\ parts[k] = b
        BY <1>1, <1>5, <1>6, <2>2
      <3>2. SubSeq(ab, Len(a) + 1, Len(ab)) = b
        BY <1>3 DEF Drop
      <3> QED
        BY <1>3, <3>1, <3>2
    <2> QED
      BY <2>1, <2>2
  <1>9. Pieces(ab, off, parts, m + 1)
    BY <1>5, <1>6, <1>7, <1>8 DEF Pieces
  <1> QED
    BY <1>1, <1>2, <1>3, <1>9

(* f[k] is made of the first k parts. *)
Grows(f, parts, n) ==
    /\ f[0] = <<>>
    /\ \A k \in 0 .. n : f[k] \in Seq(Byte)
    /\ \A k \in 1 .. n : f[k] = f[k - 1] \o parts[k]

(* FlattenSeq puts the parts one after the other. *)
LEMMA FlattenGrows ==
    ASSUME NEW parts \in Seq(Seq(Byte))
    PROVE  \E f : Grows(f, parts, Len(parts)) /\ FlattenSeq(parts) = f[Len(parts)]
  <1>1. PICK n \in Nat : n = Len(parts)
    OBVIOUS
  <1>2. \A k \in 1 .. n : parts[k] \in Seq(Byte)
    BY <1>1
  <1>3. CASE n = 0
    <2> DEFINE f == [k \in 0 .. 0 |-> <<>>]
    <2>1. FlattenSeq(parts) = <<>>
      <3>1. Len(parts) = 0
        BY <1>1, <1>3
      <3>2. FlattenSeq(parts) = parts
        BY <3>1, Zenon DEF FlattenSeq
      <3> QED
        BY <3>1, <3>2, EmptySeq
    <2>2. f[0] = <<>> /\ <<>> \in Seq(Byte)
      OBVIOUS
    <2> HIDE DEF f
    <2>3. Grows(f, parts, 0)
      <3>1. (\A k \in 0 .. 0 : k = 0) /\ 1 .. 0 = {}
        OBVIOUS
      <3> QED
        BY <2>2, <3>1 DEF Grows
    <2> QED
      BY <1>1, <1>3, <2>1, <2>2, <2>3
  <1>4. CASE n # 0
    <2> DEFINE X == Seq(Byte)
               step == [k \in Nat |-> [x \in X |-> IF k \in 1 .. n THEN x \o parts[k] ELSE x]]
    <2>1. StaysIn(X, step)
      <3> SUFFICES ASSUME NEW k \in Nat, NEW x \in X
                   PROVE  step[k][x] \in X
        BY DEF StaysIn
      <3>1. step[k][x] = IF k \in 1 .. n THEN x \o parts[k] ELSE x
        OBVIOUS
      <3>2. CASE k \in 1 .. n
        <4>1. parts[k] \in Seq(Byte)
          BY <1>2, <3>2
        <4>2. x \o parts[k] \in Seq(Byte)
          BY <4>1, JoinFacts
        <4> QED
          BY <3>1, <3>2, <4>2
      <3>3. CASE k \notin 1 .. n
        BY <3>1, <3>3
      <3> QED
        BY <3>2, <3>3
    <2>2. <<>> \in X
      OBVIOUS
    <2>3. \A k \in 1 .. n, x \in X : step[k][x] = x \o parts[k]
      OBVIOUS
    <2> HIDE DEF X, step
    <2>4. PICK f : Loop(f, n, X, <<>>, step)
      BY <2>1, <2>2, Iterates
    <2>5. /\ f[0] = <<>> /\ \A k \in 0 .. n : f[k] \in Seq(Byte)
          /\ \A k \in 1 .. n : f[k] = f[k - 1] \o parts[k]
      <3>1. f[0] = <<>> /\ \A k \in 0 .. n : f[k] \in X
        BY <2>4 DEF Loop
      <3>2. ASSUME NEW k \in 1 .. n
            PROVE  f[k] = f[k - 1] \o parts[k]
        <4>1. k - 1 \in 0 .. n
          OBVIOUS
        <4>2. f[k] = step[k][f[k - 1]]
          BY <2>4 DEF Loop
        <4> QED
          BY <2>3, <3>1, <4>1, <4>2
      <3> QED
        BY <3>1, <3>2 DEF X
    <2>6. FlattenSeq(parts) = f[n]
      <3> DEFINE Flattens(g) ==
                   g = [i \in 1 .. Len(parts) |-> IF i = 1 THEN parts[i] ELSE g[i - 1] \o parts[i]]
                 h == [i \in 1 .. n |-> f[i]]
      <3>1. f[1] = parts[1]
        <4>1. 1 \in 1 .. n /\ 1 - 1 = 0
          BY <1>4
        <4>2. <<>> \o parts[1] = parts[1]
          BY <1>2, <4>1, ConcatEmptySeq
        <4>3. f[1] = f[1 - 1] \o parts[1]
          BY <2>5, <4>1
        <4> QED
          BY <2>5, <4>1, <4>2, <4>3
      <3>2. \A i \in 1 .. n : h[i] = f[i]
        OBVIOUS
      <3>3. h = [i \in 1 .. n |-> h[i]]
        OBVIOUS
      <3> HIDE DEF h
      <3>4. ASSUME NEW i \in 1 .. n
            PROVE  h[i] = IF i = 1 THEN parts[i] ELSE h[i - 1] \o parts[i]
        <4>1. CASE i = 1
          BY <3>1, <3>2, <4>1
        <4>2. CASE i # 1
          <5>1. i - 1 \in 1 .. n
            BY <4>2
          <5>2. f[i] = f[i - 1] \o parts[i]
            BY <2>5
          <5> QED
            BY <3>2, <4>2, <5>1, <5>2
        <4> QED
          BY <4>1, <4>2
      <3>5. Flattens(h)
        BY <1>1, <3>3, <3>4
      <3>6. PICK g : Flattens(g) /\ FlattenSeq(parts) = g[n]
        BY <1>1, <1>4, <3>5 DEF FlattenSeq
      <3> DEFINE e == [i \in 0 .. n |-> IF i = 0 THEN <<>> ELSE g[i]]
      <3>7. e[0] = <<>> /\ \A i \in 1 .. n : e[i] = g[i]
        OBVIOUS
      <3>8. \A i \in 1 .. n : g[i] = IF i = 1 THEN parts[i] ELSE g[i - 1] \o parts[i]
        BY <1>1, <3>6
      <3> HIDE DEF e, Flattens
      <3>9. InStep(e, f, n)
        <4>1. ASSUME NEW i \in 1 .. n, e[i - 1] = f[i - 1]
              PROVE  e[i] = f[i]
          <5>1. CASE i = 1
            BY <3>1, <3>7, <3>8, <5>1
          <5>2. CASE i # 1
            <6>1. i - 1 \in 1 .. n
              BY <5>2
            <6>2. e[i] = g[i] /\ e[i - 1] = g[i - 1]
              BY <3>7, <6>1
            <6>3. g[i] = g[i - 1] \o parts[i] /\ f[i] = f[i - 1] \o parts[i]
              BY <2>5, <3>8, <5>2
            <6> QED
              BY <4>1, <6>2, <6>3
          <5> QED
            BY <5>1, <5>2
        <4> QED
          BY <2>5, <3>7, <4>1 DEF InStep
      <3>10. e[n] = f[n]
        BY <3>9, SameSteps
      <3>11. n \in 1 .. n
        BY <1>4
      <3> QED
        BY <3>6, <3>7, <3>10, <3>11
    <2>7. Grows(f, parts, n)
      BY <2>5 DEF Grows
    <2> QED
      BY <1>1, <2>6, <2>7
  <1> QED
    BY <1>3, <1>4

LEMMA PiecesOf ==
    ASSUME NEW f, NEW parts, NEW n \in Nat, Grows(f, parts, n),
           \A k \in 1 .. n : parts[k] \in Seq(Byte)
    PROVE  Pieces(f[n], [k \in 0 .. n |-> Len(f[k])], parts, n)
  <1> DEFINE off == [k \in 0 .. n |-> Len(f[k])]
             T == {m \in Nat : m <= n => Pieces(f[m], off, parts, m)}
  <1>1. \A k \in 0 .. n : off[k] = Len(f[k])
    OBVIOUS
  <1> HIDE DEF off
  <1>2. 0 \in T
    <2>1. Pieces(f[0], off, parts, 0)
      <3>1. off[0] = 0 /\ f[0] = <<>> /\ <<>> \in Seq(Byte) /\ Len(<<>>) = 0
        BY <1>1 DEF Grows
      <3> QED
        BY <3>1 DEF Pieces
    <2> QED
      BY <2>1
  <1>3. ASSUME NEW m \in Nat, m \in T
        PROVE  m + 1 \in T
    <2> SUFFICES ASSUME m + 1 <= n
                 PROVE  Pieces(f[m + 1], off, parts, m + 1)
      OBVIOUS
    <2>1. /\ m + 1 \in 1 .. n /\ m + 1 \in 0 .. n /\ (m + 1) - 1 = m
          /\ Pieces(f[m], off, parts, m)
      BY <1>3
    <2>2. f[m + 1] = f[m] \o parts[m + 1] /\ parts[m + 1] \in Seq(Byte)
      BY <2>1 DEF Grows
    <2>3. off[m + 1] = Len(f[m] \o parts[m + 1])
      BY <1>1, <2>1, <2>2
    <2> QED
      BY <2>1, <2>2, <2>3, PiecesGrow
  <1> HIDE DEF T
  <1>4. n \in T
    BY <1>2, <1>3, NumberInduction
  <1>5. Pieces(f[n], off, parts, n)
    BY <1>4 DEF T
  <1> QED
    BY <1>5 DEF off

LEMMA FlattenedPieces ==
    ASSUME NEW parts \in Seq(Seq(Byte))
    PROVE  \E off : Pieces(FlattenSeq(parts), off, parts, Len(parts))
  <1>1. PICK f : Grows(f, parts, Len(parts)) /\ FlattenSeq(parts) = f[Len(parts)]
    BY FlattenGrows
  <1>2. Len(parts) \in Nat /\ \A k \in 1 .. Len(parts) : parts[k] \in Seq(Byte)
    OBVIOUS
  <1>3. Pieces(f[Len(parts)], [k \in 0 .. Len(parts) |-> Len(f[k])], parts, Len(parts))
    BY <1>1, <1>2, PiecesOf
  <1> QED
    BY <1>1, <1>3

-----------------------------------------------------------------------------
(* Values read one after the other *)

(* H[b] is a run of readers R[1], R[2], ... over the bytes b: H[b][k] is     *)
(* what has been read after k of them, with the values so far.               *)
ReadsOn(H, R, n) ==
    \A b \in Seq(Byte) :
        /\ H[b][0] = Found(<<>>, b)
        /\ \A k \in 1 .. n :
            /\ H[b][k - 1] = {} => H[b][k] = {}
            /\ \A x : \A rest \in Seq(Byte) :
                H[b][k - 1] = Found(x, rest) => H[b][k] = Extend(x, R[k][rest])

EachReader(H, k) == [b \in Seq(Byte) |-> H[b][k]]

ExtendReader(x, R) == [b \in Seq(Byte) |-> Extend(x, R[b])]

LEMMA ExtendUndone ==
    ASSUME NEW R, NEW w, NEW v, NEW x, Undoes(R, w, v)
    PROVE  Undoes(ExtendReader(x, R), w, Append(x, v))
  <1>1. w \in Seq(Byte)
    BY DEF Undoes
  <1>2. ASSUME NEW rest \in Seq(Byte)
        PROVE  ExtendReader(x, R)[w \o rest] = Found(Append(x, v), rest)
    <2>1. w \o rest \in Seq(Byte)
      BY <1>1, JoinFacts
    <2>2. R[w \o rest] = {<<v, rest>>}
      BY DEF Undoes, Found
    <2>3. Extend(x, R[w \o rest]) = {<<Append(x, v), rest>>}
      BY <2>2 DEF Extend
    <2> QED
      BY <2>1, <2>3 DEF ExtendReader, Found
  <1>3. ASSUME NEW n \in 0 .. Len(w) - 1
        PROVE  ExtendReader(x, R)[Take(w, n)] = {}
    <2>1. n \in 0 .. Len(w)
      BY <1>1
    <2>2. Take(w, n) \in Seq(Byte)
      BY <1>1, <2>1, TakeFacts
    <2>3. R[Take(w, n)] = {}
      BY DEF Undoes
    <2>4. Extend(x, R[Take(w, n)]) = {}
      BY <2>3 DEF Extend
    <2> QED
      BY <2>2, <2>4 DEF ExtendReader
  <1> QED
    BY <1>1, <1>2, <1>3 DEF Undoes

(* Values written one after the other are read one after the other. *)
LEMMA EachUndone ==
    ASSUME NEW H, NEW R, NEW w, NEW v, NEW n \in Nat, NEW f, NEW u,
           ReadsOn(H, R, n), Grows(f, w, n),
           u[0] = <<>>, \A k \in 1 .. n : u[k] = Append(u[k - 1], v[k]),
           \A k \in 1 .. n : Undoes(R[k], w[k], v[k])
    PROVE  Undoes(EachReader(H, n), f[n], u[n])
  <1> DEFINE T == {k \in Nat : k <= n => Undoes(EachReader(H, k), f[k], u[k])}
  <1>1. 0 \in T
    <2>1. f[0] = <<>> /\ <<>> \in Seq(Byte) /\ Len(<<>>) = 0
      BY DEF Grows
    <2>2. ASSUME NEW rest \in Seq(Byte)
          PROVE  EachReader(H, 0)[<<>> \o rest] = Found(<<>>, rest)
      <3>1. <<>> \o rest = rest
        BY ConcatEmptySeq
      <3>2. H[rest][0] = Found(<<>>, rest)
        BY DEF ReadsOn
      <3> QED
        BY <3>1, <3>2 DEF EachReader
    <2>3. Undoes(EachReader(H, 0), <<>>, <<>>)
      BY <2>1, <2>2 DEF Undoes
    <2> QED
      BY <2>1, <2>3
  <1>2. ASSUME NEW i \in Nat, i \in T
        PROVE  i + 1 \in T
    <2> SUFFICES ASSUME i + 1 <= n
                 PROVE  Undoes(EachReader(H, i + 1), f[i + 1], u[i + 1])
      OBVIOUS
    <2>1. PICK k \in 1 .. n : k = i + 1 /\ k - 1 = i
      OBVIOUS
    <2>2. Undoes(EachReader(H, k - 1), f[k - 1], u[k - 1])
      BY <1>2, <2>1
    <2>3. Undoes(ExtendReader(u[k - 1], R[k]), w[k], Append(u[k - 1], v[k]))
      BY ExtendUndone
    <2>4. GoesOn(EachReader(H, k), EachReader(H, k - 1), u[k - 1],
                 ExtendReader(u[k - 1], R[k]))
      <3>1. ASSUME NEW b \in Seq(Byte)
            PROVE  EachReader(H, k)[b] = H[b][k] /\ EachReader(H, k - 1)[b] = H[b][k - 1]
        BY DEF EachReader
      <3>2. ASSUME NEW b \in Seq(Byte), H[b][k - 1] = {}
            PROVE  H[b][k] = {}
        BY <3>2 DEF ReadsOn
      <3>3. ASSUME NEW b \in Seq(Byte), NEW rest \in Seq(Byte),
                   H[b][k - 1] = Found(u[k - 1], rest)
            PROVE  H[b][k] = ExtendReader(u[k - 1], R[k])[rest]
        <4>0. \A x : \A r \in Seq(Byte) :
                H[b][k - 1] = Found(x, r) => H[b][k] = Extend(x, R[k][r])
          BY Zenon DEF ReadsOn
        <4>1. H[b][k] = Extend(u[k - 1], R[k][rest])
          BY <3>3, <4>0
        <4> QED
          BY <4>1 DEF ExtendReader
      <3>4. ASSUME NEW b \in Seq(Byte), EachReader(H, k - 1)[b] = {}
            PROVE  EachReader(H, k)[b] = {}
        <4>1. H[b][k - 1] = {}
          BY <3>1, <3>4
        <4>2. H[b][k] = {}
          BY <3>2, <4>1
        <4> QED
          BY <3>1, <4>2
      <3>5. ASSUME NEW b \in Seq(Byte), NEW rest \in Seq(Byte),
                   EachReader(H, k - 1)[b] = Found(u[k - 1], rest)
            PROVE  EachReader(H, k)[b] = ExtendReader(u[k - 1], R[k])[rest]
        <4>1. H[b][k - 1] = Found(u[k - 1], rest)
          BY <3>1, <3>5
        <4>2. H[b][k] = ExtendReader(u[k - 1], R[k])[rest]
          BY <3>3, <4>1
        <4> QED
          BY <3>1, <4>2
      <3> QED
        BY <3>4, <3>5 DEF GoesOn
    <2>5. Undoes(EachReader(H, k), f[k - 1] \o w[k], Append(u[k - 1], v[k]))
      BY <2>2, <2>3, <2>4, UndoneTwice
    <2>6. f[k] = f[k - 1] \o w[k] /\ u[k] = Append(u[k - 1], v[k])
      BY DEF Grows
    <2> QED
      BY <2>1, <2>5, <2>6, Zenon
  <1> HIDE DEF T
  <1>3. n \in T
    BY <1>1, <1>2, NumberInduction
  <1> QED
    BY <1>3 DEF T

(* The fields of a message, one reader for each *)
FieldReader(field) == [b \in Seq(Byte) |-> ReadField(field, b)]

FieldsOf(reads, b) == ReadEach(ReadField, reads, b)

FieldReaders(reads, n) == [k \in 1 .. n |-> FieldReader(reads[k])]

LEMMA FieldsReadOn ==
    ASSUME NEW reads, NEW n \in Nat, Len(reads) = n
    PROVE  \E H : /\ ReadsOn(H, FieldReaders(reads, n), n)
                  /\ \A b \in Seq(Byte) : FieldsOf(reads, b) = H[b][n]
  <1> DEFINE first(b) == {<< <<>>, b >>}
             step(k, x) == UNION {Extend(r[1], ReadField(reads[k], r[2])) : r \in x}
             Follows(h, b, m) == h = [k \in 0 .. m |-> IF k = 0 THEN first(b)
                                                       ELSE step(k, h[k - 1])]
  <1>1. ASSUME NEW b
        PROVE  \E h : Follows(h, b, n)
    <2> DEFINE T == {m \in Nat : \E h : Follows(h, b, m)}
    <2> HIDE DEF first, step
    <2>1. 0 \in T
      <3> DEFINE h == [k \in 0 .. 0 |-> first(b)]
      <3>1. Follows(h, b, 0)
        OBVIOUS
      <3> QED
        BY <3>1
    <2>2. ASSUME NEW m \in Nat, m \in T
          PROVE  m + 1 \in T
      <3>1. PICK g : Follows(g, b, m)
        BY <2>2
      <3> DEFINE h == [k \in 0 .. m + 1 |-> IF k = m + 1 THEN step(k, g[m]) ELSE g[k]]
      <3>2. /\ g[0] = first(b)
            /\ \A k \in 1 .. m : g[k] = step(k, g[k - 1])
        <4>1. \A k \in 0 .. m : g[k] = IF k = 0 THEN first(b) ELSE step(k, g[k - 1])
          BY <3>1
        <4>2. 0 \in 0 .. m /\ \A k \in 1 .. m : k \in 0 .. m /\ k # 0
          OBVIOUS
        <4> QED
          BY <4>1, <4>2
      <3>3. /\ h[m + 1] = step(m + 1, g[m])
            /\ \A k \in 0 .. m : h[k] = g[k]
        OBVIOUS
      <3>6. h = [k \in 0 .. m + 1 |-> h[k]]
        OBVIOUS
      <3> HIDE DEF h
      <3>4. ASSUME NEW k \in 0 .. m + 1
            PROVE  h[k] = IF k = 0 THEN first(b) ELSE step(k, h[k - 1])
        <4>1. CASE k = 0
          <5>1. 0 \in 0 .. m /\ h[0] = g[0]
            BY <3>3
          <5> QED
            BY <3>2, <4>1, <5>1
        <4>2. CASE k \in 1 .. m
          <5>1. k - 1 \in 0 .. m /\ k \in 0 .. m /\ k # 0
            BY <4>2
          <5> QED
            BY <3>2, <3>3, <4>2, <5>1
        <4>3. CASE k = m + 1
          <5>1. k - 1 = m /\ m \in 0 .. m /\ k # 0
            BY <4>3
          <5> QED
            BY <3>3, <4>3, <5>1
        <4> QED
          BY <4>1, <4>2, <4>3
      <3>5. Follows(h, b, m + 1)
        BY <3>4, <3>6
      <3> HIDE DEF Follows
      <3> QED
        BY <3>5
    <2> HIDE DEF T
    <2>3. n \in T
      BY <2>1, <2>2, NumberInduction
    <2> QED
      BY <2>3 DEF T
  <1> DEFINE H == [b \in Seq(Byte) |-> CHOOSE h : Follows(h, b, n)]
             R == [k \in 1 .. n |-> FieldReader(reads[k])]
  <1>2. ASSUME NEW b \in Seq(Byte)
        PROVE  /\ Follows(H[b], b, n)
               /\ H[b] = CHOOSE h : Follows(h, b, n)
    <2> HIDE DEF Follows
    <2>1. H[b] = CHOOSE h : Follows(h, b, n)
      OBVIOUS
    <2>2. PICK h : Follows(h, b, n)
      BY <1>1
    <2> QED
      BY <2>1, <2>2
  <1>3. ASSUME NEW b \in Seq(Byte)
        PROVE  FieldsOf(reads, b) = H[b][n]
    <2> HIDE DEF H
    <2>1. H[b] = CHOOSE h : Follows(h, b, n)
      BY <1>2
    <2> QED
      BY <2>1 DEF FieldsOf, ReadEach
  <1>4. \A k \in 1 .. n : \A rest \in Seq(Byte) : R[k][rest] = ReadField(reads[k], rest)
    BY DEF FieldReader
  <1> HIDE DEF H, R
  <1>5. ASSUME NEW b \in Seq(Byte)
        PROVE  H[b][0] = Found(<<>>, b) /\ \A k \in 1 .. n : H[b][k] = step(k, H[b][k - 1])
    <2>1. PICK h : h = H[b]
      OBVIOUS
    <2>2. h = [k \in 0 .. n |-> IF k = 0 THEN first(b) ELSE step(k, h[k - 1])]
      BY <1>2, <2>1
    <2> HIDE DEF first, step
    <2>3. h[0] = first(b) /\ \A k \in 1 .. n : h[k] = step(k, h[k - 1])
      <3>1. \A k \in 0 .. n : h[k] = IF k = 0 THEN first(b) ELSE step(k, h[k - 1])
        BY <2>2
      <3>2. 0 \in 0 .. n /\ \A k \in 1 .. n : k \in 0 .. n /\ k # 0
        OBVIOUS
      <3> QED
        BY <3>1, <3>2
    <2> QED
      BY <2>1, <2>3 DEF Found, first
  <1>6. \A k : step(k, {}) = {}
    OBVIOUS
  <1>7. ASSUME NEW k \in 1 .. n, NEW x, NEW rest \in Seq(Byte)
        PROVE  step(k, Found(x, rest)) = Extend(x, R[k][rest])
    <2>1. step(k, {<<x, rest>>}) = Extend(x, ReadField(reads[k], rest))
      OBVIOUS
    <2> QED
      BY <1>4, <2>1 DEF Found
  <1> HIDE DEF first, step, Follows
  <1>8. ReadsOn(H, R, n)
    <2> SUFFICES ASSUME NEW b \in Seq(Byte)
                 PROVE  /\ H[b][0] = Found(<<>>, b)
                        /\ \A k \in 1 .. n :
                            /\ H[b][k - 1] = {} => H[b][k] = {}
                            /\ \A x : \A rest \in Seq(Byte) : H[b][k - 1] = Found(x, rest)
                                    => H[b][k] = Extend(x, R[k][rest])
      BY DEF ReadsOn
    <2> SUFFICES ASSUME NEW k \in 1 .. n
                 PROVE  /\ H[b][k - 1] = {} => H[b][k] = {}
                        /\ \A x : \A rest \in Seq(Byte) : H[b][k - 1] = Found(x, rest)
                                => H[b][k] = Extend(x, R[k][rest])
      BY <1>5
    <2>1. H[b][k] = step(k, H[b][k - 1])
      BY <1>5
    <2>2. H[b][k - 1] = {} => H[b][k] = {}
      BY <1>6, <2>1, Zenon
    <2>3. ASSUME NEW x, NEW rest \in Seq(Byte), H[b][k - 1] = Found(x, rest)
          PROVE  H[b][k] = Extend(x, R[k][rest])
      BY <1>7, <2>1, <2>3, Zenon
    <2> QED
      BY <2>2, <2>3
  <1> QED
    BY <1>3, <1>8 DEF R, FieldReaders

(* The elements of a list of strings *)
StringsOf(n, b) == ReadEach(LAMBDA k, rest : ReadString(rest), [k \in 1 .. n |-> k], b)

LEMMA StringsReadOn ==
    ASSUME NEW n \in Nat
    PROVE  \E H : /\ ReadsOn(H, [k \in 1 .. n |-> StringReader], n)
                  /\ \A b \in Seq(Byte) : StringsOf(n, b) = H[b][n]
  <1> DEFINE first(b) == {<< <<>>, b >>}
             step(k, x) == UNION {Extend(r[1], ReadString(r[2])) : r \in x}
             Follows(h, b, m) == h = [k \in 0 .. m |-> IF k = 0 THEN first(b)
                                                       ELSE step(k, h[k - 1])]
  <1>1. ASSUME NEW b
        PROVE  \E h : Follows(h, b, n)
    <2> DEFINE T == {m \in Nat : \E h : Follows(h, b, m)}
    <2> HIDE DEF first, step
    <2>1. 0 \in T
      <3> DEFINE h == [k \in 0 .. 0 |-> first(b)]
      <3>1. Follows(h, b, 0)
        OBVIOUS
      <3> QED
        BY <3>1
    <2>2. ASSUME NEW m \in Nat, m \in T
          PROVE  m + 1 \in T
      <3>1. PICK g : Follows(g, b, m)
        BY <2>2
      <3> DEFINE h == [k \in 0 .. m + 1 |-> IF k = m + 1 THEN step(k, g[m]) ELSE g[k]]
      <3>2. /\ g[0] = first(b)
            /\ \A k \in 1 .. m : g[k] = step(k, g[k - 1])
        <4>1. \A k \in 0 .. m : g[k] = IF k = 0 THEN first(b) ELSE step(k, g[k - 1])
          BY <3>1
        <4>2. 0 \in 0 .. m /\ \A k \in 1 .. m : k \in 0 .. m /\ k # 0
          OBVIOUS
        <4> QED
          BY <4>1, <4>2
      <3>3. /\ h[m + 1] = step(m + 1, g[m])
            /\ \A k \in 0 .. m : h[k] = g[k]
        OBVIOUS
      <3>6. h = [k \in 0 .. m + 1 |-> h[k]]
        OBVIOUS
      <3> HIDE DEF h
      <3>4. ASSUME NEW k \in 0 .. m + 1
            PROVE  h[k] = IF k = 0 THEN first(b) ELSE step(k, h[k - 1])
        <4>1. CASE k = 0
          <5>1. 0 \in 0 .. m /\ h[0] = g[0]
            BY <3>3
          <5> QED
            BY <3>2, <4>1, <5>1
        <4>2. CASE k \in 1 .. m
          <5>1. k - 1 \in 0 .. m /\ k \in 0 .. m /\ k # 0
            BY <4>2
          <5> QED
            BY <3>2, <3>3, <4>2, <5>1
        <4>3. CASE k = m + 1
          <5>1. k - 1 = m /\ m \in 0 .. m /\ k # 0
            BY <4>3
          <5> QED
            BY <3>3, <4>3, <5>1
        <4> QED
          BY <4>1, <4>2, <4>3
      <3>5. Follows(h, b, m + 1)
        BY <3>4, <3>6
      <3> HIDE DEF Follows
      <3> QED
        BY <3>5
    <2> HIDE DEF T
    <2>3. n \in T
      BY <2>1, <2>2, NumberInduction
    <2> QED
      BY <2>3 DEF T
  <1> DEFINE H == [b \in Seq(Byte) |-> CHOOSE h : Follows(h, b, n)]
             R == [k \in 1 .. n |-> StringReader]
  <1>2. ASSUME NEW b \in Seq(Byte)
        PROVE  /\ Follows(H[b], b, n)
               /\ H[b] = CHOOSE h : Follows(h, b, n)
    <2> HIDE DEF Follows
    <2>1. H[b] = CHOOSE h : Follows(h, b, n)
      OBVIOUS
    <2>2. PICK h : Follows(h, b, n)
      BY <1>1
    <2> QED
      BY <2>1, <2>2
  <1>3. ASSUME NEW b \in Seq(Byte)
        PROVE  StringsOf(n, b) = H[b][n]
    <2> HIDE DEF H
    <2>1. H[b] = CHOOSE h : Follows(h, b, n)
      BY <1>2
    <2>2. Len([k \in 1 .. n |-> k]) = n
      OBVIOUS
    <2> QED
      BY <2>1, <2>2 DEF StringsOf, ReadEach
  <1>4. \A k \in 1 .. n : \A rest \in Seq(Byte) : R[k][rest] = ReadString(rest)
    BY DEF StringReader
  <1> HIDE DEF H, R
  <1>5. ASSUME NEW b \in Seq(Byte)
        PROVE  H[b][0] = Found(<<>>, b) /\ \A k \in 1 .. n : H[b][k] = step(k, H[b][k - 1])
    <2>1. PICK h : h = H[b]
      OBVIOUS
    <2>2. h = [k \in 0 .. n |-> IF k = 0 THEN first(b) ELSE step(k, h[k - 1])]
      BY <1>2, <2>1
    <2> HIDE DEF first, step
    <2>3. h[0] = first(b) /\ \A k \in 1 .. n : h[k] = step(k, h[k - 1])
      <3>1. \A k \in 0 .. n : h[k] = IF k = 0 THEN first(b) ELSE step(k, h[k - 1])
        BY <2>2
      <3>2. 0 \in 0 .. n /\ \A k \in 1 .. n : k \in 0 .. n /\ k # 0
        OBVIOUS
      <3> QED
        BY <3>1, <3>2
    <2> QED
      BY <2>1, <2>3 DEF Found, first
  <1>6. \A k : step(k, {}) = {}
    OBVIOUS
  <1>7. ASSUME NEW k \in 1 .. n, NEW x, NEW rest \in Seq(Byte)
        PROVE  step(k, Found(x, rest)) = Extend(x, R[k][rest])
    <2>1. step(k, {<<x, rest>>}) = Extend(x, ReadString(rest))
      OBVIOUS
    <2> QED
      BY <1>4, <2>1 DEF Found
  <1> HIDE DEF first, step, Follows
  <1>8. ReadsOn(H, R, n)
    <2> SUFFICES ASSUME NEW b \in Seq(Byte)
                 PROVE  /\ H[b][0] = Found(<<>>, b)
                        /\ \A k \in 1 .. n :
                            /\ H[b][k - 1] = {} => H[b][k] = {}
                            /\ \A x : \A rest \in Seq(Byte) : H[b][k - 1] = Found(x, rest)
                                    => H[b][k] = Extend(x, R[k][rest])
      BY DEF ReadsOn
    <2> SUFFICES ASSUME NEW k \in 1 .. n
                 PROVE  /\ H[b][k - 1] = {} => H[b][k] = {}
                        /\ \A x : \A rest \in Seq(Byte) : H[b][k - 1] = Found(x, rest)
                                => H[b][k] = Extend(x, R[k][rest])
      BY <1>5
    <2>1. H[b][k] = step(k, H[b][k - 1])
      BY <1>5
    <2>2. H[b][k - 1] = {} => H[b][k] = {}
      BY <1>6, <2>1, Zenon
    <2>3. ASSUME NEW x, NEW rest \in Seq(Byte), H[b][k - 1] = Found(x, rest)
          PROVE  H[b][k] = Extend(x, R[k][rest])
      BY <1>7, <2>1, <2>3, Zenon
    <2> QED
      BY <2>2, <2>3
  <1> QED
    BY <1>3, <1>8 DEF R

(* The elements of a list of items *)
ItemsOf(n, b) == ReadEach(LAMBDA k, rest : ReadItem(rest), [k \in 1 .. n |-> k], b)

LEMMA ItemsReadOn ==
    ASSUME NEW n \in Nat
    PROVE  \E H : /\ ReadsOn(H, [k \in 1 .. n |-> ItemReader], n)
                  /\ \A b \in Seq(Byte) : ItemsOf(n, b) = H[b][n]
  <1> DEFINE first(b) == {<< <<>>, b >>}
             step(k, x) == UNION {Extend(r[1], ReadItem(r[2])) : r \in x}
             Follows(h, b, m) == h = [k \in 0 .. m |-> IF k = 0 THEN first(b)
                                                       ELSE step(k, h[k - 1])]
  <1>1. ASSUME NEW b
        PROVE  \E h : Follows(h, b, n)
    <2> DEFINE T == {m \in Nat : \E h : Follows(h, b, m)}
    <2> HIDE DEF first, step
    <2>1. 0 \in T
      <3> DEFINE h == [k \in 0 .. 0 |-> first(b)]
      <3>1. Follows(h, b, 0)
        OBVIOUS
      <3> QED
        BY <3>1
    <2>2. ASSUME NEW m \in Nat, m \in T
          PROVE  m + 1 \in T
      <3>1. PICK g : Follows(g, b, m)
        BY <2>2
      <3> DEFINE h == [k \in 0 .. m + 1 |-> IF k = m + 1 THEN step(k, g[m]) ELSE g[k]]
      <3>2. /\ g[0] = first(b)
            /\ \A k \in 1 .. m : g[k] = step(k, g[k - 1])
        <4>1. \A k \in 0 .. m : g[k] = IF k = 0 THEN first(b) ELSE step(k, g[k - 1])
          BY <3>1
        <4>2. 0 \in 0 .. m /\ \A k \in 1 .. m : k \in 0 .. m /\ k # 0
          OBVIOUS
        <4> QED
          BY <4>1, <4>2
      <3>3. /\ h[m + 1] = step(m + 1, g[m])
            /\ \A k \in 0 .. m : h[k] = g[k]
        OBVIOUS
      <3>6. h = [k \in 0 .. m + 1 |-> h[k]]
        OBVIOUS
      <3> HIDE DEF h
      <3>4. ASSUME NEW k \in 0 .. m + 1
            PROVE  h[k] = IF k = 0 THEN first(b) ELSE step(k, h[k - 1])
        <4>1. CASE k = 0
          <5>1. 0 \in 0 .. m /\ h[0] = g[0]
            BY <3>3
          <5> QED
            BY <3>2, <4>1, <5>1
        <4>2. CASE k \in 1 .. m
          <5>1. k - 1 \in 0 .. m /\ k \in 0 .. m /\ k # 0
            BY <4>2
          <5> QED
            BY <3>2, <3>3, <4>2, <5>1
        <4>3. CASE k = m + 1
          <5>1. k - 1 = m /\ m \in 0 .. m /\ k # 0
            BY <4>3
          <5> QED
            BY <3>3, <4>3, <5>1
        <4> QED
          BY <4>1, <4>2, <4>3
      <3>5. Follows(h, b, m + 1)
        BY <3>4, <3>6
      <3> HIDE DEF Follows
      <3> QED
        BY <3>5
    <2> HIDE DEF T
    <2>3. n \in T
      BY <2>1, <2>2, NumberInduction
    <2> QED
      BY <2>3 DEF T
  <1> DEFINE H == [b \in Seq(Byte) |-> CHOOSE h : Follows(h, b, n)]
             R == [k \in 1 .. n |-> ItemReader]
  <1>2. ASSUME NEW b \in Seq(Byte)
        PROVE  /\ Follows(H[b], b, n)
               /\ H[b] = CHOOSE h : Follows(h, b, n)
    <2> HIDE DEF Follows
    <2>1. H[b] = CHOOSE h : Follows(h, b, n)
      OBVIOUS
    <2>2. PICK h : Follows(h, b, n)
      BY <1>1
    <2> QED
      BY <2>1, <2>2
  <1>3. ASSUME NEW b \in Seq(Byte)
        PROVE  ItemsOf(n, b) = H[b][n]
    <2> HIDE DEF H
    <2>1. H[b] = CHOOSE h : Follows(h, b, n)
      BY <1>2
    <2>2. Len([k \in 1 .. n |-> k]) = n
      OBVIOUS
    <2> QED
      BY <2>1, <2>2 DEF ItemsOf, ReadEach
  <1>4. \A k \in 1 .. n : \A rest \in Seq(Byte) : R[k][rest] = ReadItem(rest)
    BY DEF ItemReader
  <1> HIDE DEF H, R
  <1>5. ASSUME NEW b \in Seq(Byte)
        PROVE  H[b][0] = Found(<<>>, b) /\ \A k \in 1 .. n : H[b][k] = step(k, H[b][k - 1])
    <2>1. PICK h : h = H[b]
      OBVIOUS
    <2>2. h = [k \in 0 .. n |-> IF k = 0 THEN first(b) ELSE step(k, h[k - 1])]
      BY <1>2, <2>1
    <2> HIDE DEF first, step
    <2>3. h[0] = first(b) /\ \A k \in 1 .. n : h[k] = step(k, h[k - 1])
      <3>1. \A k \in 0 .. n : h[k] = IF k = 0 THEN first(b) ELSE step(k, h[k - 1])
        BY <2>2
      <3>2. 0 \in 0 .. n /\ \A k \in 1 .. n : k \in 0 .. n /\ k # 0
        OBVIOUS
      <3> QED
        BY <3>1, <3>2
    <2> QED
      BY <2>1, <2>3 DEF Found, first
  <1>6. \A k : step(k, {}) = {}
    OBVIOUS
  <1>7. ASSUME NEW k \in 1 .. n, NEW x, NEW rest \in Seq(Byte)
        PROVE  step(k, Found(x, rest)) = Extend(x, R[k][rest])
    <2>1. step(k, {<<x, rest>>}) = Extend(x, ReadItem(rest))
      OBVIOUS
    <2> QED
      BY <1>4, <2>1 DEF Found
  <1> HIDE DEF first, step, Follows
  <1>8. ReadsOn(H, R, n)
    <2> SUFFICES ASSUME NEW b \in Seq(Byte)
                 PROVE  /\ H[b][0] = Found(<<>>, b)
                        /\ \A k \in 1 .. n :
                            /\ H[b][k - 1] = {} => H[b][k] = {}
                            /\ \A x : \A rest \in Seq(Byte) : H[b][k - 1] = Found(x, rest)
                                    => H[b][k] = Extend(x, R[k][rest])
      BY DEF ReadsOn
    <2> SUFFICES ASSUME NEW k \in 1 .. n
                 PROVE  /\ H[b][k - 1] = {} => H[b][k] = {}
                        /\ \A x : \A rest \in Seq(Byte) : H[b][k - 1] = Found(x, rest)
                                => H[b][k] = Extend(x, R[k][rest])
      BY <1>5
    <2>1. H[b][k] = step(k, H[b][k - 1])
      BY <1>5
    <2>2. H[b][k - 1] = {} => H[b][k] = {}
      BY <1>6, <2>1, Zenon
    <2>3. ASSUME NEW x, NEW rest \in Seq(Byte), H[b][k - 1] = Found(x, rest)
          PROVE  H[b][k] = Extend(x, R[k][rest])
      BY <1>7, <2>1, <2>3, Zenon
    <2> QED
      BY <2>2, <2>3
  <1> QED
    BY <1>3, <1>8 DEF R

(* A sequence, one value after the other *)
AppendsTo(u, v, n) ==
    /\ u[0] = <<>> /\ u[n] = v
    /\ \A k \in 1 .. n : u[k] = Append(u[k - 1], v[k])

LEMMA SequenceGrows ==
    ASSUME NEW V, NEW v \in Seq(V)
    PROVE  \E u : AppendsTo(u, v, Len(v))
  <1>1. PICK n \in Nat : n = Len(v)
    OBVIOUS
  <1>2. \A k \in 1 .. n : v[k] \in V
    BY <1>1
  <1> DEFINE u == [k \in 0 .. n |-> Take(v, k)]
  <1>3. \A k \in 0 .. n : u[k] = Take(v, k)
    OBVIOUS
  <1> HIDE DEF u
  <1>4. \A k \in 0 .. n : /\ Take(v, k) \in Seq(V) /\ Len(Take(v, k)) = k
                          /\ \A i \in 1 .. k : Take(v, k)[i] = v[i]
    BY <1>1, TakeFacts
  <1>5. Take(v, 0) = <<>> /\ Take(v, n) = v
    <2>1. 0 \in 0 .. n /\ n \in 0 .. n
      OBVIOUS
    <2>2. Take(v, 0) \in Seq(V) /\ Len(Take(v, 0)) = 0
      BY <1>4, <2>1
    <2>3. Take(v, 0) = <<>>
      BY <2>2, EmptySeq
    <2>4. /\ Take(v, n) \in Seq(V) /\ Len(Take(v, n)) = n
          /\ \A i \in 1 .. n : Take(v, n)[i] = v[i]
      BY <1>4, <2>1
    <2>5. Take(v, n) = v
      BY <1>1, <2>4, SeqEqual
    <2> QED
      BY <2>3, <2>5
  <1>6. ASSUME NEW k \in 1 .. n
        PROVE  Take(v, k) = Append(Take(v, k - 1), v[k])
    <2>1. k - 1 \in 0 .. n /\ k \in 0 .. n /\ k \in Nat /\ k - 1 + 1 = k
      OBVIOUS
    <2>2. PICK t \in Seq(V) : /\ t = Take(v, k - 1) /\ Len(t) = k - 1
                              /\ \A i \in 1 .. k - 1 : t[i] = v[i]
      BY <1>4, <2>1
    <2>3. PICK s \in Seq(V) : /\ s = Take(v, k) /\ Len(s) = k
                              /\ \A i \in 1 .. k : s[i] = v[i]
      BY <1>4, <2>1
    <2>4. PICK e \in V : e = v[k]
      BY <1>2
    <2>5. /\ Append(t, e) \in Seq(V) /\ Len(Append(t, e)) = k
          /\ Append(t, e)[k] = e
          /\ \A i \in 1 .. k - 1 : Append(t, e)[i] = t[i]
      BY <2>1, <2>2, AppendProperties
    <2>6. ASSUME NEW i \in 1 .. k
          PROVE  s[i] = Append(t, e)[i]
      <3>1. CASE i = k
        BY <2>3, <2>4, <2>5, <3>1
      <3>2. CASE i # k
        <4>1. i \in 1 .. k - 1
          BY <3>2
        <4> QED
          BY <2>2, <2>3, <2>5, <4>1
      <3> QED
        BY <3>1, <3>2
    <2>7. s = Append(t, e)
      BY <2>3, <2>5, <2>6, SeqEqual
    <2> QED
      BY <2>2, <2>3, <2>4, <2>7
  <1>7. AppendsTo(u, v, n)
    <2>1. u[0] = <<>> /\ u[n] = v
      BY <1>3, <1>5
    <2>2. ASSUME NEW k \in 1 .. n
          PROVE  u[k] = Append(u[k - 1], v[k])
      <3>1. k - 1 \in 0 .. n /\ k \in 0 .. n
        OBVIOUS
      <3> QED
        BY <1>3, <1>6, <3>1
    <2> QED
      BY <2>1, <2>2 DEF AppendsTo
  <1> QED
    BY <1>1, <1>7

(* The parts of a flattened sequence are read one after the other. *)
LEMMA PartsUndone ==
    ASSUME NEW H, NEW R, NEW n \in Nat, ReadsOn(H, R, n),
           NEW parts \in Seq(Seq(Byte)), Len(parts) = n,
           NEW V, NEW v \in Seq(V), Len(v) = n,
           \A k \in 1 .. n : Undoes(R[k], parts[k], v[k])
    PROVE  Undoes(EachReader(H, n), FlattenSeq(parts), v)
  <1>1. PICK f : Grows(f, parts, n) /\ FlattenSeq(parts) = f[n]
    BY FlattenGrows
  <1>2. PICK u : AppendsTo(u, v, n)
    BY SequenceGrows
  <1>3. u[0] = <<>> /\ u[n] = v
    BY <1>2 DEF AppendsTo
  <1>4. \A k \in 1 .. n : u[k] = Append(u[k - 1], v[k])
    BY <1>2 DEF AppendsTo
  <1>5. Undoes(EachReader(H, n), f[n], u[n])
    BY <1>1, <1>3, <1>4, EachUndone
  <1> QED
    BY <1>1, <1>3, <1>5

(* A list: how many there are and each of them *)
LEMMA ListUndone ==
    ASSUME NEW H, NEW R, NEW One, NEW n \in Unsigned(2), n \in Nat,
           ReadsOn(H, [k \in 1 .. n |-> One], n),
           GoesOn(R, UnsignedReader(2), n, EachReader(H, n)),
           NEW parts \in Seq(Seq(Byte)), Len(parts) = n,
           NEW V, NEW v \in Seq(V), Len(v) = n,
           \A k \in 1 .. n : Undoes(One, parts[k], v[k])
    PROVE  Undoes(R, WriteUnsigned(2, n) \o FlattenSeq(parts), v)
  <1>1. Undoes(UnsignedReader(2), WriteUnsigned(2, n), n)
    BY UnsignedUndone
  <1>2. PICK Rs : Rs = [k \in 1 .. n |-> One]
    OBVIOUS
  <1>3. \A k \in 1 .. n : Undoes(Rs[k], parts[k], v[k])
    BY <1>2
  <1>4. Undoes(EachReader(H, n), FlattenSeq(parts), v)
    BY <1>2, <1>3, PartsUndone
  <1> QED
    BY <1>1, <1>4, UndoneTwice

StringsReader == [b \in Seq(Byte) |-> ReadList(ReadString, b)]

LEMMA ReadStringsOf ==
    ASSUME NEW b, NEW n, NEW rest, ReadUnsigned(2, b) = {<<n, rest>>}
    PROVE  ReadList(ReadString, b) = StringsOf(n, rest)
  <1>1. \A r \in ReadUnsigned(2, b) : r[1] = n /\ r[2] = rest
    OBVIOUS
  <1>2. ReadUnsigned(2, b) # {}
    OBVIOUS
  <1>3. ReadList(ReadString, b) = UNION {StringsOf(r[1], r[2]) : r \in ReadUnsigned(2, b)}
    BY DEF ReadList, StringsOf
  <1> QED
    BY <1>1, <1>2, <1>3

(* read_string_list undoes write_string_list, up to the limits. *)
LEMMA StringsUndone ==
    ASSUME NEW list \in Seq(Seq(Byte))
    PROVE  Undoes(StringsReader, WriteList(WriteString, list), [k \in DOMAIN Limited(list) |-> Limited(list[k])])
  <1>1. PICK L \in Seq(Seq(Byte)) : /\ L = Limited(list) /\ Len(L) \in Unsigned(2)
                                /\ \A k \in 1 .. Len(L) : L[k] = list[k]
    BY LimitedFacts
  <1>2. PICK n \in Nat : n = Len(L)
    OBVIOUS
  <1>3. DOMAIN L = 1 .. n /\ n \in Unsigned(2) /\ \A k \in 1 .. n : list[k] \in Seq(Byte)
    BY <1>1, <1>2
  <1> DEFINE parts == [k \in 1 .. n |-> WriteString(list[k])]
             v == [k \in 1 .. n |-> Limited(list[k])]
             V == {Limited(list[k]) : k \in 1 .. n}
  <1>4. \A k \in 1 .. n : Undoes(StringReader, WriteString(list[k]), Limited(list[k]))
    BY <1>3, StringUndone
  <1>5. parts \in Seq(Seq(Byte)) /\ Len(parts) = n
    <2>1. \A k \in 1 .. n : WriteString(list[k]) \in Seq(Byte)
      BY <1>4 DEF Undoes
    <2> QED
      BY <2>1
  <1>6. v \in Seq(V) /\ Len(v) = n
    <2>1. v \in [1 .. n -> V]
      OBVIOUS
    <2> HIDE DEF v, V
    <2> QED
      BY <2>1
  <1>7. \A k \in 1 .. n : Undoes(StringReader, parts[k], v[k])
    BY <1>4
  <1>8. WriteList(WriteString, list) = WriteUnsigned(2, n) \o FlattenSeq(parts)
    BY <1>1, <1>2, <1>3 DEF WriteList
  <1>9. v = [k \in DOMAIN Limited(list) |-> Limited(list[k])]
    BY <1>1, <1>3
  <1> HIDE DEF parts, v, V
  <1>10. PICK H : /\ ReadsOn(H, [k \in 1 .. n |-> StringReader], n)
                 /\ \A b \in Seq(Byte) : StringsOf(n, b) = H[b][n]
    BY StringsReadOn
  <1>11. GoesOn(StringsReader, UnsignedReader(2), n, EachReader(H, n))
    <2>1. ASSUME NEW b \in Seq(Byte), UnsignedReader(2)[b] = {}
          PROVE  StringsReader[b] = {}
      <3>1. ReadUnsigned(2, b) = {}
        BY <2>1 DEF UnsignedReader
      <3>2. ReadList(ReadString, b) = {}
        BY <3>1 DEF ReadList
      <3> QED
        BY <3>2 DEF StringsReader
    <2>2. ASSUME NEW b \in Seq(Byte), NEW rest \in Seq(Byte),
                 UnsignedReader(2)[b] = Found(n, rest)
          PROVE  StringsReader[b] = EachReader(H, n)[rest]
      <3>1. ReadUnsigned(2, b) = {<<n, rest>>}
        BY <2>2 DEF UnsignedReader, Found
      <3>2. ReadList(ReadString, b) = StringsOf(n, rest)
        BY <3>1, ReadStringsOf
      <3>3. StringsReader[b] = ReadList(ReadString, b) /\ EachReader(H, n)[rest] = H[rest][n]
        BY DEF StringsReader, EachReader
      <3> QED
        BY <1>10, <3>2, <3>3
    <2> QED
      BY <2>1, <2>2 DEF GoesOn
  <1>12. Undoes(StringsReader, WriteUnsigned(2, n) \o FlattenSeq(parts), v)
    BY <1>3, <1>5, <1>6, <1>7, <1>10, <1>11, ListUndone
  <1> QED
    BY <1>8, <1>9, <1>12

ItemsReader == [b \in Seq(Byte) |-> ReadList(ReadItem, b)]

LEMMA ReadItemsOf ==
    ASSUME NEW b, NEW n, NEW rest, ReadUnsigned(2, b) = {<<n, rest>>}
    PROVE  ReadList(ReadItem, b) = ItemsOf(n, rest)
  <1>1. \A r \in ReadUnsigned(2, b) : r[1] = n /\ r[2] = rest
    OBVIOUS
  <1>2. ReadUnsigned(2, b) # {}
    OBVIOUS
  <1>3. ReadList(ReadItem, b) = UNION {ItemsOf(r[1], r[2]) : r \in ReadUnsigned(2, b)}
    BY DEF ReadList, ItemsOf
  <1> QED
    BY <1>1, <1>2, <1>3

(* read_reward_items undoes write_reward_items, up to the limit. *)
LEMMA ItemsUndone ==
    ASSUME NEW list \in Seq(ItemSet)
    PROVE  Undoes(ItemsReader, WriteList(WriteItem, list), Limited(list))
  <1>1. PICK L \in Seq(ItemSet) : /\ L = Limited(list) /\ Len(L) \in Unsigned(2)
                                /\ \A k \in 1 .. Len(L) : L[k] = list[k]
    BY LimitedFacts
  <1>2. PICK n \in Nat : n = Len(L)
    OBVIOUS
  <1>3. DOMAIN L = 1 .. n /\ n \in Unsigned(2) /\ \A k \in 1 .. n : list[k] \in ItemSet
    BY <1>1, <1>2
  <1> DEFINE parts == [k \in 1 .. n |-> WriteItem(list[k])]
             v == [k \in 1 .. n |-> list[k]]
             V == {list[k] : k \in 1 .. n}
  <1>4. \A k \in 1 .. n : Undoes(ItemReader, WriteItem(list[k]), list[k])
    BY <1>3, ItemUndone
  <1>5. parts \in Seq(Seq(Byte)) /\ Len(parts) = n
    <2>1. \A k \in 1 .. n : WriteItem(list[k]) \in Seq(Byte)
      BY <1>4 DEF Undoes
    <2> QED
      BY <2>1
  <1>6. v \in Seq(V) /\ Len(v) = n
    OBVIOUS
  <1>7. \A k \in 1 .. n : Undoes(ItemReader, parts[k], v[k])
    BY <1>4
  <1>8. WriteList(WriteItem, list) = WriteUnsigned(2, n) \o FlattenSeq(parts)
    BY <1>1, <1>2, <1>3 DEF WriteList
  <1>9. v = Limited(list)
    BY <1>1, <1>2, <1>6, SeqEqual
  <1> HIDE DEF parts, v, V
  <1>10. PICK H : /\ ReadsOn(H, [k \in 1 .. n |-> ItemReader], n)
                 /\ \A b \in Seq(Byte) : ItemsOf(n, b) = H[b][n]
    BY ItemsReadOn
  <1>11. GoesOn(ItemsReader, UnsignedReader(2), n, EachReader(H, n))
    <2>1. ASSUME NEW b \in Seq(Byte), UnsignedReader(2)[b] = {}
          PROVE  ItemsReader[b] = {}
      <3>1. ReadUnsigned(2, b) = {}
        BY <2>1 DEF UnsignedReader
      <3>2. ReadList(ReadItem, b) = {}
        BY <3>1 DEF ReadList
      <3> QED
        BY <3>2 DEF ItemsReader
    <2>2. ASSUME NEW b \in Seq(Byte), NEW rest \in Seq(Byte),
                 UnsignedReader(2)[b] = Found(n, rest)
          PROVE  ItemsReader[b] = EachReader(H, n)[rest]
      <3>1. ReadUnsigned(2, b) = {<<n, rest>>}
        BY <2>2 DEF UnsignedReader, Found
      <3>2. ReadList(ReadItem, b) = ItemsOf(n, rest)
        BY <3>1, ReadItemsOf
      <3>3. ItemsReader[b] = ReadList(ReadItem, b) /\ EachReader(H, n)[rest] = H[rest][n]
        BY DEF ItemsReader, EachReader
      <3> QED
        BY <1>10, <3>2, <3>3
    <2> QED
      BY <2>1, <2>2 DEF GoesOn
  <1>12. Undoes(ItemsReader, WriteUnsigned(2, n) \o FlattenSeq(parts), v)
    BY <1>3, <1>5, <1>6, <1>7, <1>10, <1>11, ListUndone
  <1> QED
    BY <1>8, <1>9, <1>12

-----------------------------------------------------------------------------
(* Fields *)

(* A boolean is a byte: 1 or 0 *)
LEMMA BoolUndone ==
    ASSUME NEW f, NEW v \in BOOLEAN
    PROVE  Undoes(FieldReader(<<f, "bool">>), WriteField("bool", v), v)
  <1>1. PICK n \in {0, 1} : n = (IF v THEN 1 ELSE 0)
    OBVIOUS
  <1>2. v = (n # 0)
    BY <1>1
  <1>3. WriteField("bool", v) = <<n>>
    BY <1>1 DEF WriteField
  <1>4. Power(0) = 1 /\ Power(1) = ByteMod /\ ByteMod \in Nat /\ ByteMod >= 6
    <2>1. Power(0) = 1 /\ Power(1) = Power(1 - 1) * ByteMod
      BY PowerStep
    <2>2. 1 - 1 = 0 /\ ByteMod \in Nat /\ ByteMod >= 6
      BY ByteModNat
    <2> QED
      BY <2>1, <2>2
  <1>5. n \in Unsigned(1) /\ n \in Byte /\ n \in Nat
    BY <1>4 DEF Unsigned, UnsignedMax, Byte
  <1>6. WriteUnsigned(1, n) = <<n>>
    <2>1. WriteUnsigned(1, n) \in Seq(Byte) /\ Len(WriteUnsigned(1, n)) = 1
      BY <1>5, WrittenBytes
    <2>2. WriteUnsigned(1, n)[1] = (n \div Power(1 - 1)) % ByteMod
      BY <1>5, WrittenBytes
    <2>3. n \div Power(1 - 1) = n
      BY <1>4, <1>5
    <2>4. (n % ByteMod) = n
      BY <1>4, <1>5
    <2>5. WriteUnsigned(1, n)[1] = n
      BY <2>2, <2>3, <2>4
    <2> QED
      BY <2>1, <2>5
  <1>7. Undoes(UnsignedReader(1), <<n>>, n)
    BY <1>5, <1>6, UnsignedUndone
  <1>8. \A b : ReadField(<<f, "bool">>, b) = {<<r[1] # 0, r[2]>> : r \in ReadUnsigned(1, b)}
    BY DEF ReadField
  <1>9. ASSUME NEW rest \in Seq(Byte)
        PROVE  FieldReader(<<f, "bool">>)[<<n>> \o rest] = Found(v, rest)
    <2>1. PICK b \in Seq(Byte) : b = <<n>> \o rest
      <3>1. <<n>> \in Seq(Byte)
        BY <1>5
      <3>2. <<n>> \o rest \in Seq(Byte)
        BY <3>1, JoinFacts
      <3> QED
        BY <3>2
    <2>2. ReadUnsigned(1, b) = {<<n, rest>>}
      BY <1>7, <2>1 DEF Undoes, Found, UnsignedReader
    <2>3. ReadField(<<f, "bool">>, b) = {<<v, rest>>}
      <3>1. PICK A : A = ReadUnsigned(1, b)
        OBVIOUS
      <3>2. \A r \in A : r[1] = n /\ r[2] = rest
        BY <2>2, <3>1
      <3>3. \A r \in A : <<r[1] # 0, r[2]>> = <<v, rest>>
        BY <1>2, <3>2, Zenon
      <3>4. A # {}
        BY <2>2, <3>1
      <3>5. {<<r[1] # 0, r[2]>> : r \in A} = {<<v, rest>>}
        BY <3>3, <3>4, Zenon
      <3> QED
        BY <1>8, <3>1, <3>5, Zenon
    <2>4. FieldReader(<<f, "bool">>)[b] = ReadField(<<f, "bool">>, b)
      BY DEF FieldReader
    <2> QED
      BY <2>1, <2>3, <2>4 DEF Found
  <1>10. ASSUME NEW k \in 0 .. Len(<<n>>) - 1
         PROVE  FieldReader(<<f, "bool">>)[Take(<<n>>, k)] = {}
    <2>1. <<n>> \in Seq(Byte) /\ k \in 0 .. Len(<<n>>)
      BY <1>5
    <2>2. PICK b \in Seq(Byte) : b = Take(<<n>>, k)
      BY <2>1, TakeFacts
    <2>3. UnsignedReader(1)[b] = {}
      BY <1>7, <2>2 DEF Undoes
    <2>4. ReadUnsigned(1, b) = {}
      BY <2>3 DEF UnsignedReader
    <2>5. ReadField(<<f, "bool">>, b) = {}
      BY <1>8, <2>4
    <2> QED
      BY <2>2, <2>5 DEF FieldReader
  <1>11. <<n>> \in Seq(Byte)
    BY <1>5
  <1> QED
    BY <1>3, <1>9, <1>10, <1>11 DEF Undoes

(* The kinds of fields the tables of Layouts name *)
FieldKinds == {"bool", "u16", "u32", "u64", "string", "strings", "items"}

(* Every field that is written is read, and no part of it that breaks off. *)
LEMMA FieldUndone ==
    ASSUME NEW f, NEW kind \in FieldKinds, NEW v \in Values(kind)
    PROVE  Undoes(FieldReader(<<f, kind>>), WriteField(kind, v), Kept(kind, v))
  <1>1. CASE kind = "bool"
    <2>1. v \in BOOLEAN /\ Kept(kind, v) = v
      BY <1>1 DEF Values, Kept
    <2> QED
      BY <1>1, <2>1, BoolUndone
  <1>2. CASE kind = "u16"
    <2>1. v \in Unsigned(2) /\ Kept(kind, v) = v /\ WriteField(kind, v) = WriteUnsigned(2, v)
      BY <1>2 DEF Values, Kept, WriteField
    <2>2. FieldReader(<<f, kind>>) = UnsignedReader(2)
      BY <1>2 DEF FieldReader, UnsignedReader, ReadField
    <2> QED
      BY <2>1, <2>2, UnsignedUndone
  <1>3. CASE kind = "u32"
    <2>1. v \in Unsigned(4) /\ Kept(kind, v) = v /\ WriteField(kind, v) = WriteUnsigned(4, v)
      BY <1>3 DEF Values, Kept, WriteField
    <2>2. FieldReader(<<f, kind>>) = UnsignedReader(4)
      BY <1>3 DEF FieldReader, UnsignedReader, ReadField
    <2> QED
      BY <2>1, <2>2, UnsignedUndone
  <1>4. CASE kind = "u64"
    <2>1. v \in Unsigned(8) /\ Kept(kind, v) = v /\ WriteField(kind, v) = WriteUnsigned(8, v)
      BY <1>4 DEF Values, Kept, WriteField
    <2>2. FieldReader(<<f, kind>>) = UnsignedReader(8)
      BY <1>4 DEF FieldReader, UnsignedReader, ReadField
    <2> QED
      BY <2>1, <2>2, UnsignedUndone
  <1>5. CASE kind = "string"
    <2>1. v \in Seq(Byte) /\ Kept(kind, v) = Limited(v) /\ WriteField(kind, v) = WriteString(v)
      BY <1>5 DEF Values, Kept, WriteField
    <2>2. FieldReader(<<f, kind>>) = StringReader
      BY <1>5 DEF FieldReader, StringReader, ReadField
    <2> QED
      BY <2>1, <2>2, StringUndone
  <1>6. CASE kind = "strings"
    <2>1. /\ v \in Seq(Seq(Byte)) /\ WriteField(kind, v) = WriteList(WriteString, v)
          /\ Kept(kind, v) = [k \in DOMAIN Limited(v) |-> Limited(v[k])]
      BY <1>6 DEF Values, Kept, WriteField
    <2>2. FieldReader(<<f, kind>>) = StringsReader
      BY <1>6 DEF FieldReader, StringsReader, ReadField
    <2> QED
      BY <2>1, <2>2, StringsUndone
  <1>7. CASE kind = "items"
    <2>1. /\ v \in Seq(ItemSet) /\ WriteField(kind, v) = WriteList(WriteItem, v)
          /\ Kept(kind, v) = Limited(v)
      BY <1>7 DEF Values, Kept, WriteField, ItemSet
    <2>2. FieldReader(<<f, kind>>) = ItemsReader
      BY <1>7 DEF FieldReader, ItemsReader, ReadField
    <2> QED
      BY <2>1, <2>2, ItemsUndone
  <1> QED
    BY <1>1, <1>2, <1>3, <1>4, <1>5, <1>6, <1>7 DEF FieldKinds

-----------------------------------------------------------------------------
(* The tables: every field of a struct is written and read once *)

Enumerations ==
    {"GuildEventType", "PartyEventType", "DungeonState", "DungeonResultType", "ChatChannel"}

(* A field of the struct that is written as the kind says *)
FieldLaid(struct, f, kind) ==
    /\ f \in DOMAIN struct /\ kind \in FieldKinds
    /\ struct[f] = kind \/ (struct[f] \in Enumerations /\ kind = "u16")

(* What the proofs need of a row of the tables *)
WellLaid(struct, fields) ==
    /\ fields \in Seq((DOMAIN struct) \X FieldKinds)
    /\ \A i, j \in 1 .. Len(fields) : fields[i][1] = fields[j][1] => i = j
    /\ DOMAIN struct = {fields[k][1] : k \in 1 .. Len(fields)}
    /\ \A k \in 1 .. Len(fields) : FieldLaid(struct, fields[k][1], fields[k][2])

LEMMA FieldPair ==
    ASSUME NEW struct, NEW f, NEW kind, FieldLaid(struct, f, kind)
    PROVE  <<f, kind>> \in (DOMAIN struct) \X FieldKinds
  <1>1. f \in DOMAIN struct /\ kind \in FieldKinds
    BY DEF FieldLaid
  <1> QED
    BY <1>1

LEMMA Laid0 ==
    ASSUME NEW struct, DOMAIN struct = {}
    PROVE  WellLaid(struct, <<>>)
  BY DEF WellLaid

LEMMA Laid1 ==
    ASSUME NEW struct, NEW f1, NEW k1,
           FieldLaid(struct, f1, k1),
           DOMAIN struct = {f1}
    PROVE  WellLaid(struct, <<<<f1, k1>>>>)
  <1>1. PICK s : s = <<<<f1, k1>>>>
    OBVIOUS
  <1>2. s \in Seq((DOMAIN struct) \X FieldKinds) /\ Len(s) = 1
    <2>1. PICK P : P = (DOMAIN struct) \X FieldKinds
      OBVIOUS
    <2>2. /\ <<f1, k1>> \in P
      BY <2>1, FieldPair
    <2>3. s \in Seq(P) /\ Len(s) = 1
      BY <1>1, <2>2
    <2> QED
      BY <2>1, <2>3
  <1>3. /\ s[1][1] = f1 /\ s[1][2] = k1
    BY <1>1
  <1>4. \A k \in 1 .. 1 : k = 1
    OBVIOUS
  <1>5. 1 \in 1 .. 1
    OBVIOUS
  <1>6. \A k \in 1 .. 1 : FieldLaid(struct, s[k][1], s[k][2])
    BY <1>3, <1>4
  <1>7. \A i, j \in 1 .. 1 : s[i][1] = s[j][1] => i = j
    BY <1>3, <1>4
  <1>8. DOMAIN struct = {s[k][1] : k \in 1 .. 1}
    BY <1>3, <1>4, <1>5
  <1>9. WellLaid(struct, s)
    BY <1>2, <1>6, <1>7, <1>8 DEF WellLaid
  <1> QED
    BY <1>1, <1>9

LEMMA Laid2 ==
    ASSUME NEW struct, NEW f1, NEW k1, NEW f2, NEW k2,
           FieldLaid(struct, f1, k1), FieldLaid(struct, f2, k2),
           f2 \notin {f1},
           DOMAIN struct = {f1, f2}
    PROVE  WellLaid(struct, <<<<f1, k1>>, <<f2, k2>>>>)
  <1>1. PICK s : s = <<<<f1, k1>>, <<f2, k2>>>>
    OBVIOUS
  <1>2. s \in Seq((DOMAIN struct) \X FieldKinds) /\ Len(s) = 2
    <2>1. PICK P : P = (DOMAIN struct) \X FieldKinds
      OBVIOUS
    <2>2. /\ <<f1, k1>> \in P
          /\ <<f2, k2>> \in P
      BY <2>1, FieldPair
    <2>3. s \in Seq(P) /\ Len(s) = 2
      BY <1>1, <2>2
    <2> QED
      BY <2>1, <2>3
  <1>3. /\ s[1][1] = f1 /\ s[1][2] = k1
        /\ s[2][1] = f2 /\ s[2][2] = k2
    BY <1>1
  <1>4. \A k \in 1 .. 2 : k = 1 \/ k = 2
    OBVIOUS
  <1>5. 1 \in 1 .. 2 /\ 2 \in 1 .. 2
    OBVIOUS
  <1>6. \A k \in 1 .. 2 : FieldLaid(struct, s[k][1], s[k][2])
    BY <1>3, <1>4
  <1>7. \A i, j \in 1 .. 2 : s[i][1] = s[j][1] => i = j
    BY <1>3, <1>4
  <1>8. DOMAIN struct = {s[k][1] : k \in 1 .. 2}
    BY <1>3, <1>4, <1>5
  <1>9. WellLaid(struct, s)
    BY <1>2, <1>6, <1>7, <1>8 DEF WellLaid
  <1> QED
    BY <1>1, <1>9

LEMMA Laid3 ==
    ASSUME NEW struct, NEW f1, NEW k1, NEW f2, NEW k2, NEW f3, NEW k3,
           FieldLaid(struct, f1, k1), FieldLaid(struct, f2, k2), FieldLaid(struct, f3, k3),
           f2 \notin {f1}, f3 \notin {f1, f2},
           DOMAIN struct = {f1, f2, f3}
    PROVE  WellLaid(struct, <<<<f1, k1>>, <<f2, k2>>, <<f3, k3>>>>)
  <1>1. PICK s : s = <<<<f1, k1>>, <<f2, k2>>, <<f3, k3>>>>
    OBVIOUS
  <1>2. s \in Seq((DOMAIN struct) \X FieldKinds) /\ Len(s) = 3
    <2>1. PICK P : P = (DOMAIN struct) \X FieldKinds
      OBVIOUS
    <2>2. /\ <<f1, k1>> \in P
          /\ <<f2, k2>> \in P
          /\ <<f3, k3>> \in P
      BY <2>1, FieldPair
    <2>3. s \in Seq(P) /\ Len(s) = 3
      BY <1>1, <2>2
    <2> QED
      BY <2>1, <2>3
  <1>3. /\ s[1][1] = f1 /\ s[1][2] = k1
        /\ s[2][1] = f2 /\ s[2][2] = k2
        /\ s[3][1] = f3 /\ s[3][2] = k3
    BY <1>1
  <1>4. \A k \in 1 .. 3 : k = 1 \/ k = 2 \/ k = 3
    OBVIOUS
  <1>5. 1 \in 1 .. 3 /\ 2 \in 1 .. 3 /\ 3 \in 1 .. 3
    OBVIOUS
  <1>6. \A k \in 1 .. 3 : FieldLaid(struct, s[k][1], s[k][2])
    BY <1>3, <1>4
  <1>7. \A i, j \in 1 .. 3 : s[i][1] = s[j][1] => i = j
    BY <1>3, <1>4
  <1>8. DOMAIN struct = {s[k][1] : k \in 1 .. 3}
    BY <1>3, <1>4, <1>5
  <1>9. WellLaid(struct, s)
    BY <1>2, <1>6, <1>7, <1>8 DEF WellLaid
  <1> QED
    BY <1>1, <1>9

LEMMA Laid4 ==
    ASSUME NEW struct, NEW f1, NEW k1, NEW f2, NEW k2, NEW f3, NEW k3, NEW f4, NEW k4,
           FieldLaid(struct, f1, k1), FieldLaid(struct, f2, k2), FieldLaid(struct, f3, k3),
           FieldLaid(struct, f4, k4),
           f2 \notin {f1}, f3 \notin {f1, f2}, f4 \notin {f1, f2, f3},
           DOMAIN struct = {f1, f2, f3, f4}
    PROVE  WellLaid(struct, <<<<f1, k1>>, <<f2, k2>>, <<f3, k3>>, <<f4, k4>>>>)
  <1>1. PICK s : s = <<<<f1, k1>>, <<f2, k2>>, <<f3, k3>>, <<f4, k4>>>>
    OBVIOUS
  <1>2. s \in Seq((DOMAIN struct) \X FieldKinds) /\ Len(s) = 4
    <2>1. PICK P : P = (DOMAIN struct) \X FieldKinds
      OBVIOUS
    <2>2. /\ <<f1, k1>> \in P
          /\ <<f2, k2>> \in P
          /\ <<f3, k3>> \in P
          /\ <<f4, k4>> \in P
      BY <2>1, FieldPair
    <2>3. s \in Seq(P) /\ Len(s) = 4
      BY <1>1, <2>2
    <2> QED
      BY <2>1, <2>3
  <1>3. /\ s[1][1] = f1 /\ s[1][2] = k1
        /\ s[2][1] = f2 /\ s[2][2] = k2
        /\ s[3][1] = f3 /\ s[3][2] = k3
        /\ s[4][1] = f4 /\ s[4][2] = k4
    BY <1>1
  <1>4. \A k \in 1 .. 4 : k = 1 \/ k = 2 \/ k = 3 \/ k = 4
    OBVIOUS
  <1>5. 1 \in 1 .. 4 /\ 2 \in 1 .. 4 /\ 3 \in 1 .. 4 /\ 4 \in 1 .. 4
    OBVIOUS
  <1>6. \A k \in 1 .. 4 : FieldLaid(struct, s[k][1], s[k][2])
    BY <1>3, <1>4
  <1>7. \A i, j \in 1 .. 4 : s[i][1] = s[j][1] => i = j
    BY <1>3, <1>4
  <1>8. DOMAIN struct = {s[k][1] : k \in 1 .. 4}
    BY <1>3, <1>4, <1>5
  <1>9. WellLaid(struct, s)
    BY <1>2, <1>6, <1>7, <1>8 DEF WellLaid
  <1> QED
    BY <1>1, <1>9

LEMMA Laid5 ==
    ASSUME NEW struct, NEW f1, NEW k1, NEW f2, NEW k2, NEW f3, NEW k3, NEW f4, NEW k4, NEW f5, NEW k5,
           FieldLaid(struct, f1, k1), FieldLaid(struct, f2, k2), FieldLaid(struct, f3, k3),
           FieldLaid(struct, f4, k4), FieldLaid(struct, f5, k5),
           f2 \notin {f1}, f3 \notin {f1, f2}, f4 \notin {f1, f2, f3}, f5 \notin {f1, f2,
           f3, f4},
           DOMAIN struct = {f1, f2, f3, f4, f5}
    PROVE  WellLaid(struct, <<<<f1, k1>>, <<f2, k2>>, <<f3, k3>>, <<f4, k4>>, <<f5, k5>>>>)
  <1>1. PICK s : s = <<<<f1, k1>>, <<f2, k2>>, <<f3, k3>>, <<f4, k4>>, <<f5, k5>>>>
    OBVIOUS
  <1>2. s \in Seq((DOMAIN struct) \X FieldKinds) /\ Len(s) = 5
    <2>1. PICK P : P = (DOMAIN struct) \X FieldKinds
      OBVIOUS
    <2>2. /\ <<f1, k1>> \in P
          /\ <<f2, k2>> \in P
          /\ <<f3, k3>> \in P
          /\ <<f4, k4>> \in P
          /\ <<f5, k5>> \in P
      BY <2>1, FieldPair
    <2>3. s \in Seq(P) /\ Len(s) = 5
      BY <1>1, <2>2
    <2> QED
      BY <2>1, <2>3
  <1>3. /\ s[1][1] = f1 /\ s[1][2] = k1
        /\ s[2][1] = f2 /\ s[2][2] = k2
        /\ s[3][1] = f3 /\ s[3][2] = k3
        /\ s[4][1] = f4 /\ s[4][2] = k4
        /\ s[5][1] = f5 /\ s[5][2] = k5
    BY <1>1
  <1>4. \A k \in 1 .. 5 : k = 1 \/ k = 2 \/ k = 3 \/ k = 4 \/ k = 5
    OBVIOUS
  <1>5. 1 \in 1 .. 5 /\ 2 \in 1 .. 5 /\ 3 \in 1 .. 5 /\ 4 \in 1 .. 5 /\ 5 \in 1 .. 5
    OBVIOUS
  <1>6. \A k \in 1 .. 5 : FieldLaid(struct, s[k][1], s[k][2])
    BY <1>3, <1>4
  <1>7. \A i, j \in 1 .. 5 : s[i][1] = s[j][1] => i = j
    BY <1>3, <1>4
  <1>8. DOMAIN struct = {s[k][1] : k \in 1 .. 5}
    BY <1>3, <1>4, <1>5
  <1>9. WellLaid(struct, s)
    BY <1>2, <1>6, <1>7, <1>8 DEF WellLaid
  <1> QED
    BY <1>1, <1>9

LEMMA Laid6 ==
    ASSUME NEW struct, NEW f1, NEW k1, NEW f2, NEW k2, NEW f3, NEW k3, NEW f4, NEW k4, NEW f5, NEW k5,
           NEW f6, NEW k6,
           FieldLaid(struct, f1, k1), FieldLaid(struct, f2, k2), FieldLaid(struct, f3, k3),
           FieldLaid(struct, f4, k4), FieldLaid(struct, f5, k5), FieldLaid(struct, f6, k6),
           f2 \notin {f1}, f3 \notin {f1, f2}, f4 \notin {f1, f2, f3}, f5 \notin {f1, f2,
           f3, f4}, f6 \notin {f1, f2, f3, f4, f5},
           DOMAIN struct = {f1, f2, f3, f4, f5, f6}
    PROVE  WellLaid(struct, <<<<f1, k1>>, <<f2, k2>>, <<f3, k3>>, <<f4, k4>>, <<f5, k5>>,
                           <<f6, k6>>>>)
  <1>1. PICK s : s = <<<<f1, k1>>, <<f2, k2>>, <<f3, k3>>, <<f4, k4>>, <<f5, k5>>, <<f6,
                   k6>>>>
    OBVIOUS
  <1>2. s \in Seq((DOMAIN struct) \X FieldKinds) /\ Len(s) = 6
    <2>1. PICK P : P = (DOMAIN struct) \X FieldKinds
      OBVIOUS
    <2>2. /\ <<f1, k1>> \in P
          /\ <<f2, k2>> \in P
          /\ <<f3, k3>> \in P
          /\ <<f4, k4>> \in P
          /\ <<f5, k5>> \in P
          /\ <<f6, k6>> \in P
      BY <2>1, FieldPair
    <2>3. s \in Seq(P) /\ Len(s) = 6
      BY <1>1, <2>2
    <2> QED
      BY <2>1, <2>3
  <1>3. /\ s[1][1] = f1 /\ s[1][2] = k1
        /\ s[2][1] = f2 /\ s[2][2] = k2
        /\ s[3][1] = f3 /\ s[3][2] = k3
        /\ s[4][1] = f4 /\ s[4][2] = k4
        /\ s[5][1] = f5 /\ s[5][2] = k5
        /\ s[6][1] = f6 /\ s[6][2] = k6
    BY <1>1
  <1>4. \A k \in 1 .. 6 : k = 1 \/ k = 2 \/ k = 3 \/ k = 4 \/ k = 5 \/ k = 6
    OBVIOUS
  <1>5. 1 \in 1 .. 6 /\ 2 \in 1 .. 6 /\ 3 \in 1 .. 6 /\ 4 \in 1 .. 6 /\ 5 \in 1 .. 6 /\ 6 \in 1 .. 6
    OBVIOUS
  <1>6. \A k \in 1 .. 6 : FieldLaid(struct, s[k][1], s[k][2])
    BY <1>3, <1>4
  <1>7. \A i, j \in 1 .. 6 : s[i][1] = s[j][1] => i = j
    BY <1>3, <1>4
  <1>8. DOMAIN struct = {s[k][1] : k \in 1 .. 6}
    BY <1>3, <1>4, <1>5
  <1>9. WellLaid(struct, s)
    BY <1>2, <1>6, <1>7, <1>8 DEF WellLaid
  <1> QED
    BY <1>1, <1>9

LEMMA Laid7 ==
    ASSUME NEW struct, NEW f1, NEW k1, NEW f2, NEW k2, NEW f3, NEW k3, NEW f4, NEW k4, NEW f5, NEW k5,
           NEW f6, NEW k6, NEW f7, NEW k7,
           FieldLaid(struct, f1, k1), FieldLaid(struct, f2, k2), FieldLaid(struct, f3, k3),
           FieldLaid(struct, f4, k4), FieldLaid(struct, f5, k5), FieldLaid(struct, f6, k6),
           FieldLaid(struct, f7, k7),
           f2 \notin {f1}, f3 \notin {f1, f2}, f4 \notin {f1, f2, f3}, f5 \notin {f1, f2,
           f3, f4}, f6 \notin {f1, f2, f3, f4, f5}, f7 \notin {f1, f2, f3, f4, f5, f6},
           DOMAIN struct = {f1, f2, f3, f4, f5, f6, f7}
    PROVE  WellLaid(struct, <<<<f1, k1>>, <<f2, k2>>, <<f3, k3>>, <<f4, k4>>, <<f5, k5>>,
                           <<f6, k6>>, <<f7, k7>>>>)
  <1>1. PICK s : s = <<<<f1, k1>>, <<f2, k2>>, <<f3, k3>>, <<f4, k4>>, <<f5, k5>>, <<f6, k6>>,
                   <<f7, k7>>>>
    OBVIOUS
  <1>2. s \in Seq((DOMAIN struct) \X FieldKinds) /\ Len(s) = 7
    <2>1. PICK P : P = (DOMAIN struct) \X FieldKinds
      OBVIOUS
    <2>2. /\ <<f1, k1>> \in P
          /\ <<f2, k2>> \in P
          /\ <<f3, k3>> \in P
          /\ <<f4, k4>> \in P
          /\ <<f5, k5>> \in P
          /\ <<f6, k6>> \in P
          /\ <<f7, k7>> \in P
      BY <2>1, FieldPair
    <2>3. s \in Seq(P) /\ Len(s) = 7
      BY <1>1, <2>2
    <2> QED
      BY <2>1, <2>3
  <1>3. /\ s[1][1] = f1 /\ s[1][2] = k1
        /\ s[2][1] = f2 /\ s[2][2] = k2
        /\ s[3][1] = f3 /\ s[3][2] = k3
        /\ s[4][1] = f4 /\ s[4][2] = k4
        /\ s[5][1] = f5 /\ s[5][2] = k5
        /\ s[6][1] = f6 /\ s[6][2] = k6
        /\ s[7][1] = f7 /\ s[7][2] = k7
    BY <1>1
  <1>4. \A k \in 1 .. 7 : k = 1 \/ k = 2 \/ k = 3 \/ k = 4 \/ k = 5 \/ k = 6 \/ k = 7
    OBVIOUS
  <1>5. 1 \in 1 .. 7 /\ 2 \in 1 .. 7 /\ 3 \in 1 .. 7 /\ 4 \in 1 .. 7 /\ 5 \in 1 .. 7 /\ 6 \in 1 .. 7 /\ 7 \in 1 .. 7
    OBVIOUS
  <1>6. \A k \in 1 .. 7 : FieldLaid(struct, s[k][1], s[k][2])
    BY <1>3, <1>4
  <1>7. \A i, j \in 1 .. 7 : s[i][1] = s[j][1] => i = j
    BY <1>3, <1>4
  <1>8. DOMAIN struct = {s[k][1] : k \in 1 .. 7}
    BY <1>3, <1>4, <1>5
  <1>9. WellLaid(struct, s)
    BY <1>2, <1>6, <1>7, <1>8 DEF WellLaid
  <1> QED
    BY <1>1, <1>9

Laid(structs, layouts) ==
    /\ DOMAIN structs = DOMAIN layouts
    /\ \A t \in DOMAIN layouts : /\ layouts[t].writes = layouts[t].reads
                                 /\ WellLaid(structs[t], layouts[t].reads)

LEMMA PlainField ==
    ASSUME NEW struct, NEW f \in DOMAIN struct, NEW kind \in FieldKinds, struct[f] = kind
    PROVE  FieldLaid(struct, f, kind)
  BY DEF FieldLaid

LEMMA CastField ==
    ASSUME NEW struct, NEW f \in DOMAIN struct, struct[f] \in Enumerations
    PROVE  FieldLaid(struct, f, "u16")
  BY DEF FieldLaid, FieldKinds

LEMMA KindNames ==
    /\ "bool" \in FieldKinds /\ "u16" \in FieldKinds /\ "u32" \in FieldKinds
    /\ "u64" \in FieldKinds /\ "string" \in FieldKinds /\ "strings" \in FieldKinds
    /\ "items" \in FieldKinds
    /\ "GuildEventType" \in Enumerations /\ "PartyEventType" \in Enumerations
    /\ "DungeonState" \in Enumerations /\ "DungeonResultType" \in Enumerations
    /\ "ChatChannel" \in Enumerations
  BY DEF FieldKinds, Enumerations

LEMMA MergeDomain ==
    ASSUME NEW f, NEW g
    PROVE  DOMAIN Merge(f, g) = DOMAIN f \cup DOMAIN g
  BY DEF Merge

LEMMA LaidTogether ==
    ASSUME NEW S1, NEW L1, NEW S2, NEW L2, Laid(S1, L1), Laid(S2, L2)
    PROVE  Laid(Merge(S1, S2), Merge(L1, L2))
  <1>1. /\ DOMAIN Merge(S1, S2) = DOMAIN S1 \cup DOMAIN S2
        /\ \A t \in DOMAIN S1 \cup DOMAIN S2 :
                Merge(S1, S2)[t] = IF t \in DOMAIN S1 THEN S1[t] ELSE S2[t]
    BY DEF Merge
  <1>2. /\ DOMAIN Merge(L1, L2) = DOMAIN L1 \cup DOMAIN L2
        /\ \A t \in DOMAIN L1 \cup DOMAIN L2 :
                Merge(L1, L2)[t] = IF t \in DOMAIN L1 THEN L1[t] ELSE L2[t]
    BY DEF Merge
  <1>3. ASSUME NEW t \in DOMAIN L1 \cup DOMAIN L2
        PROVE  /\ Merge(L1, L2)[t].writes = Merge(L1, L2)[t].reads
               /\ WellLaid(Merge(S1, S2)[t], Merge(L1, L2)[t].reads)
    <2>1. CASE t \in DOMAIN L1
      BY <1>1, <1>2, <2>1, Zenon DEF Laid
    <2>2. CASE t \notin DOMAIN L1
      BY <1>1, <1>2, <2>2, Zenon DEF Laid
    <2> QED
      BY <2>1, <2>2
  <1>4. DOMAIN Merge(S1, S2) = DOMAIN Merge(L1, L2)
    BY <1>1, <1>2 DEF Laid
  <1> QED
    BY <1>2, <1>3, <1>4, Zenon DEF Laid

LEMMA AccountLaid ==
    /\ Laid(AccountStructs, AccountLayouts)
    /\ DOMAIN AccountLayouts = {"LoginReq", "LoginRes", "VersionReject", "LogoutReq",
                                  "LogoutRes", "SessionReconnectReq", "SessionReconnectRes"}
  <1>1. PICK S, L : S = AccountStructs /\ L = AccountLayouts
    OBVIOUS
  <1>2. DOMAIN S = {"LoginReq", "LoginRes", "VersionReject", "LogoutReq", "LogoutRes",
                   "SessionReconnectReq", "SessionReconnectRes"}
    BY <1>1 DEF AccountStructs
  <1>3. DOMAIN L = {"LoginReq", "LoginRes", "VersionReject", "LogoutReq", "LogoutRes",
                   "SessionReconnectReq", "SessionReconnectRes"}
    BY <1>1 DEF AccountLayouts
  <1>4. L["LoginReq"].writes = L["LoginReq"].reads /\ WellLaid(S["LoginReq"], L["LoginReq"].reads)
    <2>1. S["LoginReq"] = [user_id |-> "string", password |-> "string"]
      BY <1>1 DEF AccountStructs
    <2>2. /\ L["LoginReq"].writes = L["LoginReq"].reads
          /\ L["LoginReq"].reads = <<<<"user_id", "string">>, <<"password", "string">>>>
      BY <1>1 DEF AccountLayouts, Both, Str
    <2>3. DOMAIN S["LoginReq"] = {"user_id", "password"}
      BY <2>1
    <2>4. S["LoginReq"]["user_id"] = "string" /\ S["LoginReq"]["password"] = "string"
      BY <2>1
    <2>5. /\ FieldLaid(S["LoginReq"], "user_id", "string")
          /\ FieldLaid(S["LoginReq"], "password", "string")
      BY <2>3, <2>4, PlainField, CastField, KindNames
    <2> QED
      BY <2>2, <2>3, <2>5, Laid2
  <1>5. L["LoginRes"].writes = L["LoginRes"].reads /\ WellLaid(S["LoginRes"], L["LoginRes"].reads)
    <2>1. S["LoginRes"] = [accepted |-> "bool", token |-> "string", message |-> "string"]
      BY <1>1 DEF AccountStructs
    <2>2. /\ L["LoginRes"].writes = L["LoginRes"].reads
          /\ L["LoginRes"].reads = <<<<"accepted", "bool">>, <<"token", "string">>,
                                <<"message", "string">>>>
      BY <1>1 DEF AccountLayouts, Both, Bool, Str
    <2>3. DOMAIN S["LoginRes"] = {"accepted", "token", "message"}
      BY <2>1
    <2>4. S["LoginRes"]["accepted"] = "bool" /\ S["LoginRes"]["token"] = "string" /\
          S["LoginRes"]["message"] = "string"
      BY <2>1
    <2>5. /\ FieldLaid(S["LoginRes"], "accepted", "bool")
          /\ FieldLaid(S["LoginRes"], "token", "string")
          /\ FieldLaid(S["LoginRes"], "message", "string")
      BY <2>3, <2>4, PlainField, CastField, KindNames
    <2> QED
      BY <2>2, <2>3, <2>5, Laid3
  <1>6. L["VersionReject"].writes = L["VersionReject"].reads /\ WellLaid(S["VersionReject"], L["VersionReject"].reads)
    <2>1. S["VersionReject"] = [min_version |-> "u16", max_version |-> "u16", client_version
                               |-> "u16", message |-> "string"]
      BY <1>1 DEF AccountStructs
    <2>2. /\ L["VersionReject"].writes = L["VersionReject"].reads
          /\ L["VersionReject"].reads = <<<<"min_version", "u16">>, <<"max_version", "u16">>,
                                     <<"client_version", "u16">>, <<"message", "string">>>>
      BY <1>1 DEF AccountLayouts, Both, Str, U16
    <2>3. DOMAIN S["VersionReject"] = {"min_version", "max_version", "client_version",
                                      "message"}
      BY <2>1
    <2>4. S["VersionReject"]["min_version"] = "u16" /\ S["VersionReject"]["max_version"] =
          "u16" /\ S["VersionReject"]["client_version"] = "u16" /\
          S["VersionReject"]["message"] = "string"
      BY <2>1
    <2>5. /\ FieldLaid(S["VersionReject"], "min_version", "u16")
          /\ FieldLaid(S["VersionReject"], "max_version", "u16")
          /\ FieldLaid(S["VersionReject"], "client_version", "u16")
          /\ FieldLaid(S["VersionReject"], "message", "string")
      BY <2>3, <2>4, PlainField, CastField, KindNames
    <2> QED
      BY <2>2, <2>3, <2>5, Laid4
  <1>7. L["LogoutReq"].writes = L["LogoutReq"].reads /\ WellLaid(S["LogoutReq"], L["LogoutReq"].reads)
    <2>1. S["LogoutReq"] = NoFields
      BY <1>1 DEF AccountStructs
    <2>2. /\ L["LogoutReq"].writes = L["LogoutReq"].reads
          /\ L["LogoutReq"].reads = <<>>
      BY <1>1 DEF AccountLayouts, Both
    <2>3. DOMAIN S["LogoutReq"] = {}
      BY <2>1 DEF NoFields
    <2> QED
      BY <2>2, <2>3, Laid0
  <1>8. L["LogoutRes"].writes = L["LogoutRes"].reads /\ WellLaid(S["LogoutRes"], L["LogoutRes"].reads)
    <2>1. S["LogoutRes"] = [success |-> "bool", message |-> "string"]
      BY <1>1 DEF AccountStructs
    <2>2. /\ L["LogoutRes"].writes = L["LogoutRes"].reads
          /\ L["LogoutRes"].reads = <<<<"success", "bool">>, <<"message", "string">>>>
      BY <1>1 DEF AccountLayouts, Both, Bool, Str
    <2>3. DOMAIN S["LogoutRes"] = {"success", "message"}
      BY <2>1
    <2>4. S["LogoutRes"]["success"] = "bool" /\ S["LogoutRes"]["message"] = "string"
      BY <2>1
    <2>5. /\ FieldLaid(S["LogoutRes"], "success", "bool")
          /\ FieldLaid(S["LogoutRes"], "message", "string")
      BY <2>3, <2>4, PlainField, CastField, KindNames
    <2> QED
      BY <2>2, <2>3, <2>5, Laid2
  <1>9. L["SessionReconnectReq"].writes = L["SessionReconnectReq"].reads /\ WellLaid(S["SessionReconnectReq"], L["SessionReconnectReq"].reads)
    <2>1. S["SessionReconnectReq"] = [token |-> "string", last_seq |-> "u32"]
      BY <1>1 DEF AccountStructs
    <2>2. /\ L["SessionReconnectReq"].writes = L["SessionReconnectReq"].reads
          /\ L["SessionReconnectReq"].reads = <<<<"token", "string">>, <<"last_seq", "u32">>>>
      BY <1>1 DEF AccountLayouts, Both, Str, U32
    <2>3. DOMAIN S["SessionReconnectReq"] = {"token", "last_seq"}
      BY <2>1
    <2>4. S["SessionReconnectReq"]["token"] = "string" /\
          S["SessionReconnectReq"]["last_seq"] = "u32"
      BY <2>1
    <2>5. /\ FieldLaid(S["SessionReconnectReq"], "token", "string")
          /\ FieldLaid(S["SessionReconnectReq"], "last_seq", "u32")
      BY <2>3, <2>4, PlainField, CastField, KindNames
    <2> QED
      BY <2>2, <2>3, <2>5, Laid2
  <1>10. L["SessionReconnectRes"].writes = L["SessionReconnectRes"].reads /\ WellLaid(S["SessionReconnectRes"], L["SessionReconnectRes"].reads)
    <2>1. S["SessionReconnectRes"] = [success |-> "bool", message |-> "string", session_id
                                     |-> "u64", resume_from_seq |-> "u32"]
      BY <1>1 DEF AccountStructs
    <2>2. /\ L["SessionReconnectRes"].writes = L["SessionReconnectRes"].reads
          /\ L["SessionReconnectRes"].reads = <<<<"success", "bool">>, <<"message", "string">>,
                                           <<"session_id", "u64">>, <<"resume_from_seq",
                                           "u32">>>>
      BY <1>1 DEF AccountLayouts, Both, Bool, Str, U32, U64
    <2>3. DOMAIN S["SessionReconnectRes"] = {"success", "message", "session_id",
                                            "resume_from_seq"}
      BY <2>1
    <2>4. S["SessionReconnectRes"]["success"] = "bool" /\
          S["SessionReconnectRes"]["message"] = "string" /\
          S["SessionReconnectRes"]["session_id"] = "u64" /\
          S["SessionReconnectRes"]["resume_from_seq"] = "u32"
      BY <2>1
    <2>5. /\ FieldLaid(S["SessionReconnectRes"], "success", "bool")
          /\ FieldLaid(S["SessionReconnectRes"], "message", "string")
          /\ FieldLaid(S["SessionReconnectRes"], "session_id", "u64")
          /\ FieldLaid(S["SessionReconnectRes"], "resume_from_seq", "u32")
      BY <2>3, <2>4, PlainField, CastField, KindNames
    <2> QED
      BY <2>2, <2>3, <2>5, Laid4
  <1>11. Laid(S, L)
    BY <1>2, <1>3, <1>4, <1>5, <1>6, <1>7, <1>8, <1>9, <1>10 DEF Laid
  <1> QED
    BY <1>1, <1>3, <1>11

LEMMA GuildLaid ==
    /\ Laid(GuildStructs, GuildLayouts)
    /\ DOMAIN GuildLayouts = {"GuildCreateReq", "GuildCreateRes", "GuildJoinReq",
                                "GuildJoinRes", "GuildLeaveReq", "GuildLeaveRes",
                                "GuildEvent"}
  <1>1. PICK S, L : S = GuildStructs /\ L = GuildLayouts
    OBVIOUS
  <1>2. DOMAIN S = {"GuildCreateReq", "GuildCreateRes", "GuildJoinReq", "GuildJoinRes",
                   "GuildLeaveReq", "GuildLeaveRes", "GuildEvent"}
    BY <1>1 DEF GuildStructs
  <1>3. DOMAIN L = {"GuildCreateReq", "GuildCreateRes", "GuildJoinReq", "GuildJoinRes",
                   "GuildLeaveReq", "GuildLeaveRes", "GuildEvent"}
    BY <1>1 DEF GuildLayouts
  <1>4. L["GuildCreateReq"].writes = L["GuildCreateReq"].reads /\ WellLaid(S["GuildCreateReq"], L["GuildCreateReq"].reads)
    <2>1. S["GuildCreateReq"] = [guild_name |-> "string"]
      BY <1>1 DEF GuildStructs
    <2>2. /\ L["GuildCreateReq"].writes = L["GuildCreateReq"].reads
          /\ L["GuildCreateReq"].reads = <<<<"guild_name", "string">>>>
      BY <1>1 DEF GuildLayouts, Both, Str
    <2>3. DOMAIN S["GuildCreateReq"] = {"guild_name"}
      BY <2>1
    <2>4. S["GuildCreateReq"]["guild_name"] = "string"
      BY <2>1
    <2>5. /\ FieldLaid(S["GuildCreateReq"], "guild_name", "string")
      BY <2>3, <2>4, PlainField, CastField, KindNames
    <2> QED
      BY <2>2, <2>3, <2>5, Laid1
  <1>5. L["GuildCreateRes"].writes = L["GuildCreateRes"].reads /\ WellLaid(S["GuildCreateRes"], L["GuildCreateRes"].reads)
    <2>1. S["GuildCreateRes"] = [success |-> "bool", guild_id |-> "u64", message |->
                                "string"]
      BY <1>1 DEF GuildStructs
    <2>2. /\ L["GuildCreateRes"].writes = L["GuildCreateRes"].reads
          /\ L["GuildCreateRes"].reads = <<<<"success", "bool">>, <<"guild_id", "u64">>,
                                      <<"message", "string">>>>
      BY <1>1 DEF GuildLayouts, Both, Bool, Str, U64
    <2>3. DOMAIN S["GuildCreateRes"] = {"success", "guild_id", "message"}
      BY <2>1
    <2>4. S["GuildCreateRes"]["success"] = "bool" /\ S["GuildCreateRes"]["guild_id"] = "u64"
          /\ S["GuildCreateRes"]["message"] = "string"
      BY <2>1
    <2>5. /\ FieldLaid(S["GuildCreateRes"], "success", "bool")
          /\ FieldLaid(S["GuildCreateRes"], "guild_id", "u64")
          /\ FieldLaid(S["GuildCreateRes"], "message", "string")
      BY <2>3, <2>4, PlainField, CastField, KindNames
    <2> QED
      BY <2>2, <2>3, <2>5, Laid3
  <1>6. L["GuildJoinReq"].writes = L["GuildJoinReq"].reads /\ WellLaid(S["GuildJoinReq"], L["GuildJoinReq"].reads)
    <2>1. S["GuildJoinReq"] = [guild_id |-> "u64"]
      BY <1>1 DEF GuildStructs
    <2>2. /\ L["GuildJoinReq"].writes = L["GuildJoinReq"].reads
          /\ L["GuildJoinReq"].reads = <<<<"guild_id", "u64">>>>
      BY <1>1 DEF GuildLayouts, Both, U64
    <2>3. DOMAIN S["GuildJoinReq"] = {"guild_id"}
      BY <2>1
    <2>4. S["GuildJoinReq"]["guild_id"] = "u64"
      BY <2>1
    <2>5. /\ FieldLaid(S["GuildJoinReq"], "guild_id", "u64")
      BY <2>3, <2>4, PlainField, CastField, KindNames
    <2> QED
      BY <2>2, <2>3, <2>5, Laid1
  <1>7. L["GuildJoinRes"].writes = L["GuildJoinRes"].reads /\ WellLaid(S["GuildJoinRes"], L["GuildJoinRes"].reads)
    <2>1. S["GuildJoinRes"] = [success |-> "bool", message |-> "string"]
      BY <1>1 DEF GuildStructs
    <2>2. /\ L["GuildJoinRes"].writes = L["GuildJoinRes"].reads
          /\ L["GuildJoinRes"].reads = <<<<"success", "bool">>, <<"message", "string">>>>
      BY <1>1 DEF GuildLayouts, Both, Bool, Str
    <2>3. DOMAIN S["GuildJoinRes"] = {"success", "message"}
      BY <2>1
    <2>4. S["GuildJoinRes"]["success"] = "bool" /\ S["GuildJoinRes"]["message"] = "string"
      BY <2>1
    <2>5. /\ FieldLaid(S["GuildJoinRes"], "success", "bool")
          /\ FieldLaid(S["GuildJoinRes"], "message", "string")
      BY <2>3, <2>4, PlainField, CastField, KindNames
    <2> QED
      BY <2>2, <2>3, <2>5, Laid2
  <1>8. L["GuildLeaveReq"].writes = L["GuildLeaveReq"].reads /\ WellLaid(S["GuildLeaveReq"], L["GuildLeaveReq"].reads)
    <2>1. S["GuildLeaveReq"] = [guild_id |-> "u64"]
      BY <1>1 DEF GuildStructs
    <2>2. /\ L["GuildLeaveReq"].writes = L["GuildLeaveReq"].reads
          /\ L["GuildLeaveReq"].reads = <<<<"guild_id", "u64">>>>
      BY <1>1 DEF GuildLayouts, Both, U64
    <2>3. DOMAIN S["GuildLeaveReq"] = {"guild_id"}
      BY <2>1
    <2>4. S["GuildLeaveReq"]["guild_id"] = "u64"
      BY <2>1
    <2>5. /\ FieldLaid(S["GuildLeaveReq"], "guild_id", "u64")
      BY <2>3, <2>4, PlainField, CastField, KindNames
    <2> QED
      BY <2>2, <2>3, <2>5, Laid1
  <1>9. L["GuildLeaveRes"].writes = L["GuildLeaveRes"].reads /\ WellLaid(S["GuildLeaveRes"], L["GuildLeaveRes"].reads)
    <2>1. S["GuildLeaveRes"] = [success |-> "bool", message |-> "string"]
      BY <1>1 DEF GuildStructs
    <2>2. /\ L["GuildLeaveRes"].writes = L["GuildLeaveRes"].reads
          /\ L["GuildLeaveRes"].reads = <<<<"success", "bool">>, <<"message", "string">>>>
      BY <1>1 DEF GuildLayouts, Both, Bool, Str
    <2>3. DOMAIN S["GuildLeaveRes"] = {"success", "message"}
      BY <2>1
    <2>4. S["GuildLeaveRes"]["success"] = "bool" /\ S["GuildLeaveRes"]["message"] = "string"
      BY <2>1
    <2>5. /\ FieldLaid(S["GuildLeaveRes"], "success", "bool")
          /\ FieldLaid(S["GuildLeaveRes"], "message", "string")
      BY <2>3, <2>4, PlainField, CastField, KindNames
    <2> QED
      BY <2>2, <2>3, <2>5, Laid2
  <1>10. L["GuildEvent"].writes = L["GuildEvent"].reads /\ WellLaid(S["GuildEvent"], L["GuildEvent"].reads)
    <2>1. S["GuildEvent"] = [type |-> "GuildEventType", guild_id |-> "u64", actor_user_id
                            |-> "string", member_user_ids |-> "strings", message |->
                            "string"]
      BY <1>1 DEF GuildStructs
    <2>2. /\ L["GuildEvent"].writes = L["GuildEvent"].reads
          /\ L["GuildEvent"].reads = <<<<"type", "u16">>, <<"guild_id", "u64">>,
                                  <<"actor_user_id", "string">>, <<"member_user_ids",
                                  "strings">>, <<"message", "string">>>>
      BY <1>1 DEF GuildLayouts, Both, Str, Strs, U16, U64
    <2>3. DOMAIN S["GuildEvent"] = {"type", "guild_id", "actor_user_id", "member_user_ids",
                                   "message"}
      BY <2>1
    <2>4. S["GuildEvent"]["type"] = "GuildEventType" /\ S["GuildEvent"]["guild_id"] = "u64"
          /\ S["GuildEvent"]["actor_user_id"] = "string" /\
          S["GuildEvent"]["member_user_ids"] = "strings" /\ S["GuildEvent"]["message"] =
          "string"
      BY <2>1
    <2>5. /\ FieldLaid(S["GuildEvent"], "type", "u16")
          /\ FieldLaid(S["GuildEvent"], "guild_id", "u64")
          /\ FieldLaid(S["GuildEvent"], "actor_user_id", "string")
          /\ FieldLaid(S["GuildEvent"], "member_user_ids", "strings")
          /\ FieldLaid(S["GuildEvent"], "message", "string")
      BY <2>3, <2>4, PlainField, CastField, KindNames
    <2> QED
      BY <2>2, <2>3, <2>5, Laid5
  <1>11. Laid(S, L)
    BY <1>2, <1>3, <1>4, <1>5, <1>6, <1>7, <1>8, <1>9, <1>10 DEF Laid
  <1> QED
    BY <1>1, <1>3, <1>11

LEMMA PartyLaid ==
    /\ Laid(PartyStructs, PartyLayouts)
    /\ DOMAIN PartyLayouts = {"PartyCreateReq", "PartyCreateRes", "PartyInviteReq",
                                "PartyInviteRes", "PartyAcceptReq", "PartyAcceptRes",
                                "PartyDisbandReq", "PartyDisbandRes", "PartyEvent"}
  <1>1. PICK S, L : S = PartyStructs /\ L = PartyLayouts
    OBVIOUS
  <1>2. DOMAIN S = {"PartyCreateReq", "PartyCreateRes", "PartyInviteReq", "PartyInviteRes",
                   "PartyAcceptReq", "PartyAcceptRes", "PartyDisbandReq", "PartyDisbandRes",
                   "PartyEvent"}
    BY <1>1 DEF PartyStructs
  <1>3. DOMAIN L = {"PartyCreateReq", "PartyCreateRes", "PartyInviteReq", "PartyInviteRes",
                   "PartyAcceptReq", "PartyAcceptRes", "PartyDisbandReq", "PartyDisbandRes",
                   "PartyEvent"}
    BY <1>1 DEF PartyLayouts
  <1>4. L["PartyCreateReq"].writes = L["PartyCreateReq"].reads /\ WellLaid(S["PartyCreateReq"], L["PartyCreateReq"].reads)
    <2>1. S["PartyCreateReq"] = [leader_user_id |-> "string"]
      BY <1>1 DEF PartyStructs
    <2>2. /\ L["PartyCreateReq"].writes = L["PartyCreateReq"].reads
          /\ L["PartyCreateReq"].reads = <<<<"leader_user_id", "string">>>>
      BY <1>1 DEF PartyLayouts, Both, Str
    <2>3. DOMAIN S["PartyCreateReq"] = {"leader_user_id"}
      BY <2>1
    <2>4. S["PartyCreateReq"]["leader_user_id"] = "string"
      BY <2>1
    <2>5. /\ FieldLaid(S["PartyCreateReq"], "leader_user_id", "string")
      BY <2>3, <2>4, PlainField, CastField, KindNames
    <2> QED
      BY <2>2, <2>3, <2>5, Laid1
  <1>5. L["PartyCreateRes"].writes = L["PartyCreateRes"].reads /\ WellLaid(S["PartyCreateRes"], L["PartyCreateRes"].reads)
    <2>1. S["PartyCreateRes"] = [success |-> "bool", party_id |-> "u64", message |->
                                "string"]
      BY <1>1 DEF PartyStructs
    <2>2. /\ L["PartyCreateRes"].writes = L["PartyCreateRes"].reads
          /\ L["PartyCreateRes"].reads = <<<<"success", "bool">>, <<"party_id", "u64">>,
                                      <<"message", "string">>>>
      BY <1>1 DEF PartyLayouts, Both, Bool, Str, U64
    <2>3. DOMAIN S["PartyCreateRes"] = {"success", "party_id", "message"}
      BY <2>1
    <2>4. S["PartyCreateRes"]["success"] = "bool" /\ S["PartyCreateRes"]["party_id"] = "u64"
          /\ S["PartyCreateRes"]["message"] = "string"
      BY <2>1
    <2>5. /\ FieldLaid(S["PartyCreateRes"], "success", "bool")
          /\ FieldLaid(S["PartyCreateRes"], "party_id", "u64")
          /\ FieldLaid(S["PartyCreateRes"], "message", "string")
      BY <2>3, <2>4, PlainField, CastField, KindNames
    <2> QED
      BY <2>2, <2>3, <2>5, Laid3
  <1>6. L["PartyInviteReq"].writes = L["PartyInviteReq"].reads /\ WellLaid(S["PartyInviteReq"], L["PartyInviteReq"].reads)
    <2>1. S["PartyInviteReq"] = [party_id |-> "u64", inviter_user_id |-> "string",
                                invitee_user_id |-> "string"]
      BY <1>1 DEF PartyStructs
    <2>2. /\ L["PartyInviteReq"].writes = L["PartyInviteReq"].reads
          /\ L["PartyInviteReq"].reads = <<<<"party_id", "u64">>, <<"inviter_user_id",
                                      "string">>, <<"invitee_user_id", "string">>>>
      BY <1>1 DEF PartyLayouts, Both, Str, U64
    <2>3. DOMAIN S["PartyInviteReq"] = {"party_id", "inviter_user_id", "invitee_user_id"}
      BY <2>1
    <2>4. S["PartyInviteReq"]["party_id"] = "u64" /\ S["PartyInviteReq"]["inviter_user_id"]
          = "string" /\ S["PartyInviteReq"]["invitee_user_id"] = "string"
      BY <2>1
    <2>5. /\ FieldLaid(S["PartyInviteReq"], "party_id", "u64")
          /\ FieldLaid(S["PartyInviteReq"], "inviter_user_id", "string")
          /\ FieldLaid(S["PartyInviteReq"], "invitee_user_id", "string")
      BY <2>3, <2>4, PlainField, CastField, KindNames
    <2> QED
      BY <2>2, <2>3, <2>5, Laid3
  <1>7. L["PartyInviteRes"].writes = L["PartyInviteRes"].reads /\ WellLaid(S["PartyInviteRes"], L["PartyInviteRes"].reads)
    <2>1. S["PartyInviteRes"] = [success |-> "bool", message |-> "string"]
      BY <1>1 DEF PartyStructs
    <2>2. /\ L["PartyInviteRes"].writes = L["PartyInviteRes"].reads
          /\ L["PartyInviteRes"].reads = <<<<"success", "bool">>, <<"message", "string">>>>
      BY <1>1 DEF PartyLayouts, Both, Bool, Str
    <2>3. DOMAIN S["PartyInviteRes"] = {"success", "message"}
      BY <2>1
    <2>4. S["PartyInviteRes"]["success"] = "bool" /\ S["PartyInviteRes"]["message"] =
          "string"
      BY <2>1
    <2>5. /\ FieldLaid(S["PartyInviteRes"], "success", "bool")
          /\ FieldLaid(S["PartyInviteRes"], "message", "string")
      BY <2>3, <2>4, PlainField, CastField, KindNames
    <2> QED
      BY <2>2, <2>3, <2>5, Laid2
  <1>8. L["PartyAcceptReq"].writes = L["PartyAcceptReq"].reads /\ WellLaid(S["PartyAcceptReq"], L["PartyAcceptReq"].reads)
    <2>1. S["PartyAcceptReq"] = [party_id |-> "u64", invitee_user_id |-> "string"]
      BY <1>1 DEF PartyStructs
    <2>2. /\ L["PartyAcceptReq"].writes = L["PartyAcceptReq"].reads
          /\ L["PartyAcceptReq"].reads = <<<<"party_id", "u64">>, <<"invitee_user_id",
                                      "string">>>>
      BY <1>1 DEF PartyLayouts, Both, Str, U64
    <2>3. DOMAIN S["PartyAcceptReq"] = {"party_id", "invitee_user_id"}
      BY <2>1
    <2>4. S["PartyAcceptReq"]["party_id"] = "u64" /\ S["PartyAcceptReq"]["invitee_user_id"]
          = "string"
      BY <2>1
    <2>5. /\ FieldLaid(S["PartyAcceptReq"], "party_id", "u64")
          /\ FieldLaid(S["PartyAcceptReq"], "invitee_user_id", "string")
      BY <2>3, <2>4, PlainField, CastField, KindNames
    <2> QED
      BY <2>2, <2>3, <2>5, Laid2
  <1>9. L["PartyAcceptRes"].writes = L["PartyAcceptRes"].reads /\ WellLaid(S["PartyAcceptRes"], L["PartyAcceptRes"].reads)
    <2>1. S["PartyAcceptRes"] = [success |-> "bool", message |-> "string"]
      BY <1>1 DEF PartyStructs
    <2>2. /\ L["PartyAcceptRes"].writes = L["PartyAcceptRes"].reads
          /\ L["PartyAcceptRes"].reads = <<<<"success", "bool">>, <<"message", "string">>>>
      BY <1>1 DEF PartyLayouts, Both, Bool, Str
    <2>3. DOMAIN S["PartyAcceptRes"] = {"success", "message"}
      BY <2>1
    <2>4. S["PartyAcceptRes"]["success"] = "bool" /\ S["PartyAcceptRes"]["message"] =
          "string"
      BY <2>1
    <2>5. /\ FieldLaid(S["PartyAcceptRes"], "success", "bool")
          /\ FieldLaid(S["PartyAcceptRes"], "message", "string")
      BY <2>3, <2>4, PlainField, CastField, KindNames
    <2> QED
      BY <2>2, <2>3, <2>5, Laid2
  <1>10. L["PartyDisbandReq"].writes = L["PartyDisbandReq"].reads /\ WellLaid(S["PartyDisbandReq"], L["PartyDisbandReq"].reads)
    <2>1. S["PartyDisbandReq"] = [party_id |-> "u64", requester_user_id |-> "string"]
      BY <1>1 DEF PartyStructs
    <2>2. /\ L["PartyDisbandReq"].writes = L["PartyDisbandReq"].reads
          /\ L["PartyDisbandReq"].reads = <<<<"party_id", "u64">>, <<"requester_user_id",
                                       "string">>>>
      BY <1>1 DEF PartyLayouts, Both, Str, U64
    <2>3. DOMAIN S["PartyDisbandReq"] = {"party_id", "requester_user_id"}
      BY <2>1
    <2>4. S["PartyDisbandReq"]["party_id"] = "u64" /\
          S["PartyDisbandReq"]["requester_user_id"] = "string"
      BY <2>1
    <2>5. /\ FieldLaid(S["PartyDisbandReq"], "party_id", "u64")
          /\ FieldLaid(S["PartyDisbandReq"], "requester_user_id", "string")
      BY <2>3, <2>4, PlainField, CastField, KindNames
    <2> QED
      BY <2>2, <2>3, <2>5, Laid2
  <1>11. L["PartyDisbandRes"].writes = L["PartyDisbandRes"].reads /\ WellLaid(S["PartyDisbandRes"], L["PartyDisbandRes"].reads)
    <2>1. S["PartyDisbandRes"] = [success |-> "bool", message |-> "string"]
      BY <1>1 DEF PartyStructs
    <2>2. /\ L["PartyDisbandRes"].writes = L["PartyDisbandRes"].reads
          /\ L["PartyDisbandRes"].reads = <<<<"success", "bool">>, <<"message", "string">>>>
      BY <1>1 DEF PartyLayouts, Both, Bool, Str
    <2>3. DOMAIN S["PartyDisbandRes"] = {"success", "message"}
      BY <2>1
    <2>4. S["PartyDisbandRes"]["success"] = "bool" /\ S["PartyDisbandRes"]["message"] =
          "string"
      BY <2>1
    <2>5. /\ FieldLaid(S["PartyDisbandRes"], "success", "bool")
          /\ FieldLaid(S["PartyDisbandRes"], "message", "string")
      BY <2>3, <2>4, PlainField, CastField, KindNames
    <2> QED
      BY <2>2, <2>3, <2>5, Laid2
  <1>12. L["PartyEvent"].writes = L["PartyEvent"].reads /\ WellLaid(S["PartyEvent"], L["PartyEvent"].reads)
    <2>1. S["PartyEvent"] = [type |-> "PartyEventType", party_id |-> "u64", actor_user_id
                            |-> "string", target_user_id |-> "string", member_user_ids |->
                            "strings", message |-> "string"]
      BY <1>1 DEF PartyStructs
    <2>2. /\ L["PartyEvent"].writes = L["PartyEvent"].reads
          /\ L["PartyEvent"].reads = <<<<"type", "u16">>, <<"party_id", "u64">>,
                                  <<"actor_user_id", "string">>, <<"target_user_id",
                                  "string">>, <<"member_user_ids", "strings">>, <<"message",
                                  "string">>>>
      BY <1>1 DEF PartyLayouts, Both, Str, Strs, U16, U64
    <2>3. DOMAIN S["PartyEvent"] = {"type", "party_id", "actor_user_id", "target_user_id",
                                   "member_user_ids", "message"}
      BY <2>1
    <2>4. S["PartyEvent"]["type"] = "PartyEventType" /\ S["PartyEvent"]["party_id"] = "u64"
          /\ S["PartyEvent"]["actor_user_id"] = "string" /\
          S["PartyEvent"]["target_user_id"] = "string" /\ S["PartyEvent"]["member_user_ids"]
          = "strings" /\ S["PartyEvent"]["message"] = "string"
      BY <2>1
    <2>5. /\ FieldLaid(S["PartyEvent"], "type", "u16")
          /\ FieldLaid(S["PartyEvent"], "party_id", "u64")
          /\ FieldLaid(S["PartyEvent"], "actor_user_id", "string")
          /\ FieldLaid(S["PartyEvent"], "target_user_id", "string")
          /\ FieldLaid(S["PartyEvent"], "member_user_ids", "strings")
          /\ FieldLaid(S["PartyEvent"], "message", "string")
      BY <2>3, <2>4, PlainField, CastField, KindNames
    <2> QED
      BY <2>2, <2>3, <2>5, Laid6, SMTT(30)
  <1>13. Laid(S, L)
    BY <1>2, <1>3, <1>4, <1>5, <1>6, <1>7, <1>8, <1>9, <1>10, <1>11, <1>12 DEF Laid
  <1> QED
    BY <1>1, <1>3, <1>13

LEMMA DungeonLaid ==
    /\ Laid(DungeonStructs, DungeonLayouts)
    /\ DOMAIN DungeonLayouts = {"MatchReq", "MatchFoundNotify", "DungeonEnterReq",
                                  "DungeonEnterRes", "DungeonResultNotify",
                                  "DungeonResultRes"}
  <1>1. PICK S, L : S = DungeonStructs /\ L = DungeonLayouts
    OBVIOUS
  <1>2. DOMAIN S = {"MatchReq", "MatchFoundNotify", "DungeonEnterReq", "DungeonEnterRes",
                   "DungeonResultNotify", "DungeonResultRes"}
    BY <1>1 DEF DungeonStructs
  <1>3. DOMAIN L = {"MatchReq", "MatchFoundNotify", "DungeonEnterReq", "DungeonEnterRes",
                   "DungeonResultNotify", "DungeonResultRes"}
    BY <1>1 DEF DungeonLayouts
  <1>4. L["MatchReq"].writes = L["MatchReq"].reads /\ WellLaid(S["MatchReq"], L["MatchReq"].reads)
    <2>1. S["MatchReq"] = [party_id |-> "u64", dungeon_id |-> "u32", difficulty |->
                          "string"]
      BY <1>1 DEF DungeonStructs
    <2>2. /\ L["MatchReq"].writes = L["MatchReq"].reads
          /\ L["MatchReq"].reads = <<<<"party_id", "u64">>, <<"dungeon_id", "u32">>,
                                <<"difficulty", "string">>>>
      BY <1>1 DEF DungeonLayouts, Both, Str, U32, U64
    <2>3. DOMAIN S["MatchReq"] = {"party_id", "dungeon_id", "difficulty"}
      BY <2>1
    <2>4. S["MatchReq"]["party_id"] = "u64" /\ S["MatchReq"]["dungeon_id"] = "u32" /\
          S["MatchReq"]["difficulty"] = "string"
      BY <2>1
    <2>5. /\ FieldLaid(S["MatchReq"], "party_id", "u64")
          /\ FieldLaid(S["MatchReq"], "dungeon_id", "u32")
          /\ FieldLaid(S["MatchReq"], "difficulty", "string")
      BY <2>3, <2>4, PlainField, CastField, KindNames
    <2> QED
      BY <2>2, <2>3, <2>5, Laid3
  <1>5. L["MatchFoundNotify"].writes = L["MatchFoundNotify"].reads /\ WellLaid(S["MatchFoundNotify"], L["MatchFoundNotify"].reads)
    <2>1. S["MatchFoundNotify"] = [success |-> "bool", code |-> "string", message |->
                                  "string", party_id |-> "u64", instance_id |-> "u64",
                                  endpoint |-> "string", ticket |-> "string"]
      BY <1>1 DEF DungeonStructs
    <2>2. /\ L["MatchFoundNotify"].writes = L["MatchFoundNotify"].reads
          /\ L["MatchFoundNotify"].reads = <<<<"success", "bool">>, <<"code", "string">>,
                                        <<"message", "string">>, <<"party_id", "u64">>,
                                        <<"instance_id", "u64">>, <<"endpoint", "string">>,
                                        <<"ticket", "string">>>>
      BY <1>1 DEF DungeonLayouts, Both, Bool, Str, U64
    <2>3. DOMAIN S["MatchFoundNotify"] = {"success", "code", "message", "party_id",
                                         "instance_id", "endpoint", "ticket"}
      BY <2>1
    <2>4. S["MatchFoundNotify"]["success"] = "bool" /\ S["MatchFoundNotify"]["code"] =
          "string" /\ S["MatchFoundNotify"]["message"] = "string" /\
          S["MatchFoundNotify"]["party_id"] = "u64" /\ S["MatchFoundNotify"]["instance_id"]
          = "u64" /\ S["MatchFoundNotify"]["endpoint"] = "string" /\
          S["MatchFoundNotify"]["ticket"] = "string"
      BY <2>1
    <2>5. /\ FieldLaid(S["MatchFoundNotify"], "success", "bool")
          /\ FieldLaid(S["MatchFoundNotify"], "code", "string")
          /\ FieldLaid(S["MatchFoundNotify"], "message", "string")
          /\ FieldLaid(S["MatchFoundNotify"], "party_id", "u64")
          /\ FieldLaid(S["MatchFoundNotify"], "instance_id", "u64")
          /\ FieldLaid(S["MatchFoundNotify"], "endpoint", "string")
          /\ FieldLaid(S["MatchFoundNotify"], "ticket", "string")
      BY <2>3, <2>4, PlainField, CastField, KindNames
    <2> QED
      BY <2>2, <2>3, <2>5, Laid7
  <1>6. L["DungeonEnterReq"].writes = L["DungeonEnterReq"].reads /\ WellLaid(S["DungeonEnterReq"], L["DungeonEnterReq"].reads)
    <2>1. S["DungeonEnterReq"] = [instance_id |-> "u64", ticket |-> "string", char_id |->
                                 "u64"]
      BY <1>1 DEF DungeonStructs
    <2>2. /\ L["DungeonEnterReq"].writes = L["DungeonEnterReq"].reads
          /\ L["DungeonEnterReq"].reads = <<<<"instance_id", "u64">>, <<"ticket", "string">>,
                                       <<"char_id", "u64">>>>
      BY <1>1 DEF DungeonLayouts, Both, Str, U64
    <2>3. DOMAIN S["DungeonEnterReq"] = {"instance_id", "ticket", "char_id"}
      BY <2>1
    <2>4. S["DungeonEnterReq"]["instance_id"] = "u64" /\ S["DungeonEnterReq"]["ticket"] =
          "string" /\ S["DungeonEnterReq"]["char_id"] = "u64"
      BY <2>1
    <2>5. /\ FieldLaid(S["DungeonEnterReq"], "instance_id", "u64")
          /\ FieldLaid(S["DungeonEnterReq"], "ticket", "string")
          /\ FieldLaid(S["DungeonEnterReq"], "char_id", "u64")
      BY <2>3, <2>4, PlainField, CastField, KindNames
    <2> QED
      BY <2>2, <2>3, <2>5, Laid3
  <1>7. L["DungeonEnterRes"].writes = L["DungeonEnterRes"].reads /\ WellLaid(S["DungeonEnterRes"], L["DungeonEnterRes"].reads)
    <2>1. S["DungeonEnterRes"] = [success |-> "bool", code |-> "string", message |->
                                 "string", state |-> "DungeonState", seed |-> "u32"]
      BY <1>1 DEF DungeonStructs
    <2>2. /\ L["DungeonEnterRes"].writes = L["DungeonEnterRes"].reads
          /\ L["DungeonEnterRes"].reads = <<<<"success", "bool">>, <<"code", "string">>,
                                       <<"message", "string">>, <<"state", "u16">>,
                                       <<"seed", "u32">>>>
      BY <1>1 DEF DungeonLayouts, Both, Bool, Str, U16, U32
    <2>3. DOMAIN S["DungeonEnterRes"] = {"success", "code", "message", "state", "seed"}
      BY <2>1
    <2>4. S["DungeonEnterRes"]["success"] = "bool" /\ S["DungeonEnterRes"]["code"] =
          "string" /\ S["DungeonEnterRes"]["message"] = "string" /\
          S["DungeonEnterRes"]["state"] = "DungeonState" /\ S["DungeonEnterRes"]["seed"] =
          "u32"
      BY <2>1
    <2>5. /\ FieldLaid(S["DungeonEnterRes"], "success", "bool")
          /\ FieldLaid(S["DungeonEnterRes"], "code", "string")
          /\ FieldLaid(S["DungeonEnterRes"], "message", "string")
          /\ FieldLaid(S["DungeonEnterRes"], "state", "u16")
          /\ FieldLaid(S["DungeonEnterRes"], "seed", "u32")
      BY <2>3, <2>4, PlainField, CastField, KindNames
    <2> QED
      BY <2>2, <2>3, <2>5, Laid5
  <1>8. L["DungeonResultNotify"].writes = L["DungeonResultNotify"].reads /\ WellLaid(S["DungeonResultNotify"], L["DungeonResultNotify"].reads)
    <2>1. S["DungeonResultNotify"] = [result |-> "DungeonResultType", time_sec |-> "u32",
                                     deaths |-> "u16", rewards |-> "items"]
      BY <1>1 DEF DungeonStructs
    <2>2. /\ L["DungeonResultNotify"].writes = L["DungeonResultNotify"].reads
          /\ L["DungeonResultNotify"].reads = <<<<"result", "u16">>, <<"time_sec", "u32">>,
                                           <<"deaths", "u16">>, <<"rewards", "items">>>>
      BY <1>1 DEF DungeonLayouts, Both, Items, U16, U32
    <2>3. DOMAIN S["DungeonResultNotify"] = {"result", "time_sec", "deaths", "rewards"}
      BY <2>1
    <2>4. S["DungeonResultNotify"]["result"] = "DungeonResultType" /\
          S["DungeonResultNotify"]["time_sec"] = "u32" /\ S["DungeonResultNotify"]["deaths"]
          = "u16" /\ S["DungeonResultNotify"]["rewards"] = "items"
      BY <2>1
    <2>5. /\ FieldLaid(S["DungeonResultNotify"], "result", "u16")
          /\ FieldLaid(S["DungeonResultNotify"], "time_sec", "u32")
          /\ FieldLaid(S["DungeonResultNotify"], "deaths", "u16")
          /\ FieldLaid(S["DungeonResultNotify"], "rewards", "items")
      BY <2>3, <2>4, PlainField, CastField, KindNames
    <2> QED
      BY <2>2, <2>3, <2>5, Laid4
  <1>9. L["DungeonResultRes"].writes = L["DungeonResultRes"].reads /\ WellLaid(S["DungeonResultRes"], L["DungeonResultRes"].reads)
    <2>1. S["DungeonResultRes"] = [success |-> "bool", code |-> "string", message |->
                                  "string", summary |-> "string"]
      BY <1>1 DEF DungeonStructs
    <2>2. /\ L["DungeonResultRes"].writes = L["DungeonResultRes"].reads
          /\ L["DungeonResultRes"].reads = <<<<"success", "bool">>, <<"code", "string">>,
                                        <<"message", "string">>, <<"summary", "string">>>>
      BY <1>1 DEF DungeonLayouts, Both, Bool, Str
    <2>3. DOMAIN S["DungeonResultRes"] = {"success", "code", "message", "summary"}
      BY <2>1
    <2>4. S["DungeonResultRes"]["success"] = "bool" /\ S["DungeonResultRes"]["code"] =
          "string" /\ S["DungeonResultRes"]["message"] = "string" /\
          S["DungeonResultRes"]["summary"] = "string"
      BY <2>1
    <2>5. /\ FieldLaid(S["DungeonResultRes"], "success", "bool")
          /\ FieldLaid(S["DungeonResultRes"], "code", "string")
          /\ FieldLaid(S["DungeonResultRes"], "message", "string")
          /\ FieldLaid(S["DungeonResultRes"], "summary", "string")
      BY <2>3, <2>4, PlainField, CastField, KindNames
    <2> QED
      BY <2>2, <2>3, <2>5, Laid4
  <1>10. Laid(S, L)
    BY <1>2, <1>3, <1>4, <1>5, <1>6, <1>7, <1>8, <1>9 DEF Laid
  <1> QED
    BY <1>1, <1>3, <1>10

LEMMA InventoryLaid ==
    /\ Laid(InventoryStructs, InventoryLayouts)
    /\ DOMAIN InventoryLayouts = {"InventoryUpdateNotify", "InventoryUpdateRes"}
  <1>1. PICK S, L : S = InventoryStructs /\ L = InventoryLayouts
    OBVIOUS
  <1>2. DOMAIN S = {"InventoryUpdateNotify", "InventoryUpdateRes"}
    BY <1>1 DEF InventoryStructs
  <1>3. DOMAIN L = {"InventoryUpdateNotify", "InventoryUpdateRes"}
    BY <1>1 DEF InventoryLayouts
  <1>4. L["InventoryUpdateNotify"].writes = L["InventoryUpdateNotify"].reads /\ WellLaid(S["InventoryUpdateNotify"], L["InventoryUpdateNotify"].reads)
    <2>1. S["InventoryUpdateNotify"] = [char_id |-> "u64", items |-> "items"]
      BY <1>1 DEF InventoryStructs
    <2>2. /\ L["InventoryUpdateNotify"].writes = L["InventoryUpdateNotify"].reads
          /\ L["InventoryUpdateNotify"].reads = <<<<"char_id", "u64">>, <<"items", "items">>>>
      BY <1>1 DEF InventoryLayouts, Both, Items, U64
    <2>3. DOMAIN S["InventoryUpdateNotify"] = {"char_id", "items"}
      BY <2>1
    <2>4. S["InventoryUpdateNotify"]["char_id"] = "u64" /\
          S["InventoryUpdateNotify"]["items"] = "items"
      BY <2>1
    <2>5. /\ FieldLaid(S["InventoryUpdateNotify"], "char_id", "u64")
          /\ FieldLaid(S["InventoryUpdateNotify"], "items", "items")
      BY <2>3, <2>4, PlainField, CastField, KindNames
    <2> QED
      BY <2>2, <2>3, <2>5, Laid2
  <1>5. L["InventoryUpdateRes"].writes = L["InventoryUpdateRes"].reads /\ WellLaid(S["InventoryUpdateRes"], L["InventoryUpdateRes"].reads)
    <2>1. S["InventoryUpdateRes"] = [success |-> "bool", code |-> "string", message |->
                                    "string", inventory_version |-> "u64"]
      BY <1>1 DEF InventoryStructs
    <2>2. /\ L["InventoryUpdateRes"].writes = L["InventoryUpdateRes"].reads
          /\ L["InventoryUpdateRes"].reads = <<<<"success", "bool">>, <<"code", "string">>,
                                          <<"message", "string">>, <<"inventory_version",
                                          "u64">>>>
      BY <1>1 DEF InventoryLayouts, Both, Bool, Str, U64
    <2>3. DOMAIN S["InventoryUpdateRes"] = {"success", "code", "message",
                                           "inventory_version"}
      BY <2>1
    <2>4. S["InventoryUpdateRes"]["success"] = "bool" /\ S["InventoryUpdateRes"]["code"] =
          "string" /\ S["InventoryUpdateRes"]["message"] = "string" /\
          S["InventoryUpdateRes"]["inventory_version"] = "u64"
      BY <2>1
    <2>5. /\ FieldLaid(S["InventoryUpdateRes"], "success", "bool")
          /\ FieldLaid(S["InventoryUpdateRes"], "code", "string")
          /\ FieldLaid(S["InventoryUpdateRes"], "message", "string")
          /\ FieldLaid(S["InventoryUpdateRes"], "inventory_version", "u64")
      BY <2>3, <2>4, PlainField, CastField, KindNames
    <2> QED
      BY <2>2, <2>3, <2>5, Laid4
  <1>6. Laid(S, L)
    BY <1>2, <1>3, <1>4, <1>5 DEF Laid
  <1> QED
    BY <1>1, <1>3, <1>6

LEMMA ChatLaid ==
    /\ Laid(ChatStructs, ChatLayouts)
    /\ DOMAIN ChatLayouts = {"ChatSendReq", "ChatSendRes", "ChatEvent"}
  <1>1. PICK S, L : S = ChatStructs /\ L = ChatLayouts
    OBVIOUS
  <1>2. DOMAIN S = {"ChatSendReq", "ChatSendRes", "ChatEvent"}
    BY <1>1 DEF ChatStructs
  <1>3. DOMAIN L = {"ChatSendReq", "ChatSendRes", "ChatEvent"}
    BY <1>1 DEF ChatLayouts
  <1>4. L["ChatSendReq"].writes = L["ChatSendReq"].reads /\ WellLaid(S["ChatSendReq"], L["ChatSendReq"].reads)
    <2>1. S["ChatSendReq"] = [channel |-> "ChatChannel", party_id |-> "u64", message |->
                             "string"]
      BY <1>1 DEF ChatStructs
    <2>2. /\ L["ChatSendReq"].writes = L["ChatSendReq"].reads
          /\ L["ChatSendReq"].reads = <<<<"channel", "u16">>, <<"party_id", "u64">>,
                                   <<"message", "string">>>>
      BY <1>1 DEF ChatLayouts, Both, Str, U16, U64
    <2>3. DOMAIN S["ChatSendReq"] = {"channel", "party_id", "message"}
      BY <2>1
    <2>4. S["ChatSendReq"]["channel"] = "ChatChannel" /\ S["ChatSendReq"]["party_id"] =
          "u64" /\ S["ChatSendReq"]["message"] = "string"
      BY <2>1
    <2>5. /\ FieldLaid(S["ChatSendReq"], "channel", "u16")
          /\ FieldLaid(S["ChatSendReq"], "party_id", "u64")
          /\ FieldLaid(S["ChatSendReq"], "message", "string")
      BY <2>3, <2>4, PlainField, CastField, KindNames
    <2> QED
      BY <2>2, <2>3, <2>5, Laid3
  <1>5. L["ChatSendRes"].writes = L["ChatSendRes"].reads /\ WellLaid(S["ChatSendRes"], L["ChatSendRes"].reads)
    <2>1. S["ChatSendRes"] = [success |-> "bool", message |-> "string"]
      BY <1>1 DEF ChatStructs
    <2>2. /\ L["ChatSendRes"].writes = L["ChatSendRes"].reads
          /\ L["ChatSendRes"].reads = <<<<"success", "bool">>, <<"message", "string">>>>
      BY <1>1 DEF ChatLayouts, Both, Bool, Str
    <2>3. DOMAIN S["ChatSendRes"] = {"success", "message"}
      BY <2>1
    <2>4. S["ChatSendRes"]["success"] = "bool" /\ S["ChatSendRes"]["message"] = "string"
      BY <2>1
    <2>5. /\ FieldLaid(S["ChatSendRes"], "success", "bool")
          /\ FieldLaid(S["ChatSendRes"], "message", "string")
      BY <2>3, <2>4, PlainField, CastField, KindNames
    <2> QED
      BY <2>2, <2>3, <2>5, Laid2
  <1>6. L["ChatEvent"].writes = L["ChatEvent"].reads /\ WellLaid(S["ChatEvent"], L["ChatEvent"].reads)
    <2>1. S["ChatEvent"] = [channel |-> "ChatChannel", party_id |-> "u64", sender_user_id
                           |-> "string", message |-> "string"]
      BY <1>1 DEF ChatStructs
    <2>2. /\ L["ChatEvent"].writes = L["ChatEvent"].reads
          /\ L["ChatEvent"].reads = <<<<"channel", "u16">>, <<"party_id", "u64">>,
                                 <<"sender_user_id", "string">>, <<"message", "string">>>>
      BY <1>1 DEF ChatLayouts, Both, Str, U16, U64
    <2>3. DOMAIN S["ChatEvent"] = {"channel", "party_id", "sender_user_id", "message"}
      BY <2>1
    <2>4. S["ChatEvent"]["channel"] = "ChatChannel" /\ S["ChatEvent"]["party_id"] = "u64" /\
          S["ChatEvent"]["sender_user_id"] = "string" /\ S["ChatEvent"]["message"] =
          "string"
      BY <2>1
    <2>5. /\ FieldLaid(S["ChatEvent"], "channel", "u16")
          /\ FieldLaid(S["ChatEvent"], "party_id", "u64")
          /\ FieldLaid(S["ChatEvent"], "sender_user_id", "string")
          /\ FieldLaid(S["ChatEvent"], "message", "string")
      BY <2>3, <2>4, PlainField, CastField, KindNames
    <2> QED
      BY <2>2, <2>3, <2>5, Laid4
  <1>7. Laid(S, L)
    BY <1>2, <1>3, <1>4, <1>5, <1>6 DEF Laid
  <1> QED
    BY <1>1, <1>3, <1>7

(* Every packet type has its row in both tables. *)
LEMMA TablesLaid == Laid(Structs, Layouts) /\ ToSet(PacketTypes) = DOMAIN Layouts
  <1>1. PICK S1, L1 :
           /\ S1 = Merge(AccountStructs, GuildStructs) /\ L1 = Merge(AccountLayouts, GuildLayouts)
           /\ Laid(S1, L1) /\ DOMAIN L1 = DOMAIN AccountLayouts \cup DOMAIN GuildLayouts
    <2>1. Laid(Merge(AccountStructs, GuildStructs), Merge(AccountLayouts, GuildLayouts))
      BY AccountLaid, GuildLaid, LaidTogether, Zenon
    <2>2. DOMAIN Merge(AccountLayouts, GuildLayouts) = DOMAIN AccountLayouts \cup DOMAIN GuildLayouts
      BY MergeDomain
    <2> QED
      BY <2>1, <2>2, Zenon
  <1>2. PICK S2, L2 :
           /\ S2 = Merge(PartyStructs, DungeonStructs) /\ L2 = Merge(PartyLayouts, DungeonLayouts)
           /\ Laid(S2, L2) /\ DOMAIN L2 = DOMAIN PartyLayouts \cup DOMAIN DungeonLayouts
    <2>1. Laid(Merge(PartyStructs, DungeonStructs), Merge(PartyLayouts, DungeonLayouts))
      BY PartyLaid, DungeonLaid, LaidTogether, Zenon
    <2>2. DOMAIN Merge(PartyLayouts, DungeonLayouts) = DOMAIN PartyLayouts \cup DOMAIN DungeonLayouts
      BY MergeDomain
    <2> QED
      BY <2>1, <2>2, Zenon
  <1>3. PICK S3, L3 :
           /\ S3 = Merge(InventoryStructs, ChatStructs) /\ L3 = Merge(InventoryLayouts, ChatLayouts)
           /\ Laid(S3, L3) /\ DOMAIN L3 = DOMAIN InventoryLayouts \cup DOMAIN ChatLayouts
    <2>1. Laid(Merge(InventoryStructs, ChatStructs), Merge(InventoryLayouts, ChatLayouts))
      BY InventoryLaid, ChatLaid, LaidTogether, Zenon
    <2>2. DOMAIN Merge(InventoryLayouts, ChatLayouts) = DOMAIN InventoryLayouts \cup DOMAIN ChatLayouts
      BY MergeDomain
    <2> QED
      BY <2>1, <2>2, Zenon
  <1>4. PICK S4, L4 :
           /\ S4 = Merge(S1, S2) /\ L4 = Merge(L1, L2)
           /\ Laid(S4, L4) /\ DOMAIN L4 = DOMAIN L1 \cup DOMAIN L2
    <2>1. Laid(Merge(S1, S2), Merge(L1, L2))
      BY <1>1, <1>2, LaidTogether, Zenon
    <2>2. DOMAIN Merge(L1, L2) = DOMAIN L1 \cup DOMAIN L2
      BY MergeDomain
    <2> QED
      BY <2>1, <2>2, Zenon
  <1>5. /\ Laid(Merge(S4, S3), Merge(L4, L3))
        /\ DOMAIN Merge(L4, L3) = DOMAIN L4 \cup DOMAIN L3
    <2>1. Laid(S4, L4)
      BY <1>4
    <2>2. Laid(S3, L3)
      BY <1>3
    <2>3. Laid(Merge(S4, S3), Merge(L4, L3))
      BY <2>1, <2>2, LaidTogether, Zenon
    <2> QED
      BY <2>3, MergeDomain
  <1>6. Merge(S4, S3) = Structs /\ Merge(L4, L3) = Layouts
    BY <1>1, <1>2, <1>3, <1>4, Zenon DEF Structs, Layouts
  <1>7. DOMAIN Layouts = ((DOMAIN AccountLayouts \cup DOMAIN GuildLayouts)
                            \cup (DOMAIN PartyLayouts \cup DOMAIN DungeonLayouts))
                           \cup (DOMAIN InventoryLayouts \cup DOMAIN ChatLayouts)
    BY <1>1, <1>2, <1>3, <1>4, <1>5, <1>6, Zenon
  <1>8. ASSUME NEW t
        PROVE  t \in ToSet(PacketTypes) <=> t \in DOMAIN Layouts
    BY <1>7, AccountLaid, GuildLaid, PartyLaid, DungeonLaid, InventoryLaid, ChatLaid
       DEF ToSet, PacketTypes
  <1> QED
    BY <1>5, <1>6, <1>8

-----------------------------------------------------------------------------
(* Messages *)

(* Two bytes hold the values of the enumerations. *)
LEMMA TwoBytes == UnsignedMax(2) \in Nat /\ UnsignedMax(2) >= 35
  <1>1. Power(2) = Power(1) * ByteMod /\ Power(1) = Power(0) * ByteMod /\ Power(0) = 1
    <2>1. Power(2) = Power(2 - 1) * ByteMod /\ Power(1) = Power(1 - 1) * ByteMod /\ Power(0) = 1
      BY PowerStep
    <2> QED
      BY <2>1
  <1>2. Power(2) = ByteMod * ByteMod
    BY <1>1, ByteModNat
  <1>3. ByteMod * ByteMod >= 36 /\ ByteMod * ByteMod \in Nat
    <2>1. PICK d \in Nat : ByteMod = 6 + d
      <3>1. ByteMod - 6 \in Nat /\ ByteMod = 6 + (ByteMod - 6)
        BY ByteModNat
      <3> QED
        BY <3>1
    <2>2. (6 + d) * (6 + d) = 36 + 12 * d + d * d
      BY SMT
    <2>3. d * d \in Nat
      BY SMT
    <2> QED
      BY <2>1, <2>2, <2>3
  <1> QED
    BY <1>2, <1>3 DEF UnsignedMax

LEMMA EnumerationValues ==
    ASSUME NEW e \in Enumerations
    PROVE  /\ Values(e) \subseteq Values("u16")
           /\ \A v : Kept(e, v) = Kept("u16", v)
  <1>1. Values("u16") = 0 .. UnsignedMax(2)
    BY DEF Values, Unsigned
  <1>2. \A v : Kept("u16", v) = v
    BY DEF Kept
  <1>3. e \notin {"string", "items", "strings"}
    BY DEF Enumerations
  <1>4. \A v : Kept(e, v) = v
    BY <1>3 DEF Kept
  <1>5. Values(e) \subseteq 0 .. 6
    <2>1. CASE e = "GuildEventType"
      BY <2>1 DEF Values, GuildEventType
    <2>2. CASE e = "PartyEventType"
      BY <2>2 DEF Values, PartyEventType
    <2>3. CASE e = "DungeonState"
      BY <2>3 DEF Values, DungeonState
    <2>4. CASE e = "DungeonResultType"
      BY <2>4 DEF Values, DungeonResultType
    <2>5. CASE e = "ChatChannel"
      BY <2>5 DEF Values, ChatChannel
    <2> QED
      BY <2>1, <2>2, <2>3, <2>4, <2>5 DEF Enumerations
  <1>6. 0 .. 6 \subseteq 0 .. UnsignedMax(2)
    BY TwoBytes
  <1> QED
    BY <1>1, <1>2, <1>4, <1>5, <1>6

(* The fields of a message, read one after the other *)
MessageReader(type) == [b \in Seq(Byte) |-> FieldsOf(Layouts[type].reads, b)]

(* The values of the fields, in the order of the layout *)
KeptFields(fields, body) ==
    [k \in 1 .. Len(fields) |-> Kept(fields[k][2], body[fields[k][1]])]

(* What the row of a message's type says of its fields *)
Row(m, fields) ==
    /\ Layouts[m.type].writes = fields /\ WellLaid(Structs[m.type], fields)
    /\ Len(fields) \in Nat /\ DOMAIN fields = 1 .. Len(fields)
    /\ \A k \in 1 .. Len(fields) :
        /\ fields[k] = <<fields[k][1], fields[k][2]>> /\ fields[k][2] \in FieldKinds
        /\ fields[k][1] \in DOMAIN m.body
        /\ m.body[fields[k][1]] \in Values(fields[k][2])
        /\ \A v : Kept(Structs[m.type][fields[k][1]], v) = Kept(fields[k][2], v)

LEMMA RowOf ==
    ASSUME NEW m, IsMessage(m)
    PROVE  Row(m, Layouts[m.type].reads)
  <1>0. PICK fields : fields = Layouts[m.type].reads
    OBVIOUS
  <1>1. PICK t, struct : t = m.type /\ struct = Structs[t]
    OBVIOUS
  <1>2. /\ t \in DOMAIN Layouts /\ DOMAIN m.body = DOMAIN struct
        /\ \A f \in DOMAIN m.body : m.body[f] \in Values(struct[f])
    BY <1>1, TablesLaid DEF IsMessage
  <1>3. Layouts[t].writes = fields /\ WellLaid(struct, fields)
    BY <1>0, <1>1, <1>2, TablesLaid DEF Laid
  <1>4. PICK P : P = (DOMAIN struct) \X FieldKinds
    OBVIOUS
  <1>5. fields \in Seq(P)
    BY <1>3, <1>4 DEF WellLaid
  <1>6. /\ Len(fields) \in Nat /\ DOMAIN fields = 1 .. Len(fields)
        /\ \A k \in 1 .. Len(fields) : fields[k] \in P
    BY <1>5
  <1>7. ASSUME NEW k \in 1 .. Len(fields)
        PROVE  /\ fields[k] = <<fields[k][1], fields[k][2]>> /\ fields[k][2] \in FieldKinds
               /\ fields[k][1] \in DOMAIN m.body
               /\ m.body[fields[k][1]] \in Values(fields[k][2])
               /\ \A v : Kept(struct[fields[k][1]], v) = Kept(fields[k][2], v)
    <2>1. PICK D : D = DOMAIN struct
      OBVIOUS
    <2>2. fields[k] \in D \X FieldKinds
      BY <1>4, <1>6, <2>1
    <2>3. PICK f \in D, kind \in FieldKinds : fields[k] = <<f, kind>>
      BY <2>2
    <2>4. fields[k][1] = f /\ fields[k][2] = kind
      BY <2>3
    <2>5. f \in DOMAIN m.body /\ m.body[f] \in Values(struct[f])
      BY <1>2, <2>1
    <2>6. FieldLaid(struct, f, kind)
      BY <1>3, <2>4 DEF WellLaid
    <2>7. m.body[f] \in Values(kind) /\ \A v : Kept(struct[f], v) = Kept(kind, v)
      <3>1. CASE struct[f] = kind
        BY <2>5, <3>1
      <3>2. CASE struct[f] \in Enumerations /\ kind = "u16"
        BY <2>5, <3>2, EnumerationValues
      <3> QED
        BY <2>6, <3>1, <3>2 DEF FieldLaid
    <2> QED
      BY <2>3, <2>4, <2>5, <2>7
  <1>8. Row(m, fields)
    BY <1>1, <1>3, <1>6, <1>7 DEF Row
  <1> QED
    BY <1>0, <1>8

(* A decoder reads the fields its encoder wrote, and nothing of a payload    *)
(* that breaks off.                                                          *)
LEMMA MessageUndone ==
    ASSUME NEW m, IsMessage(m)
    PROVE  Undoes(MessageReader(m.type), Encode(m.type, m.body),
                  KeptFields(Layouts[m.type].reads, m.body))
  <1>1. PICK fields : fields = Layouts[m.type].reads
    OBVIOUS
  <1>2. PICK n \in Nat : n = Len(fields)
    <2>1. Row(m, fields)
      BY <1>1, RowOf
    <2> QED
      BY <2>1 DEF Row
  <1>3. /\ Layouts[m.type].writes = fields /\ DOMAIN fields = 1 .. n
        /\ \A k \in 1 .. n :
            /\ fields[k] = <<fields[k][1], fields[k][2]>> /\ fields[k][2] \in FieldKinds
            /\ m.body[fields[k][1]] \in Values(fields[k][2])
    <2>1. Row(m, fields)
      BY <1>1, RowOf
    <2> QED
      BY <1>2, <2>1 DEF Row
  <1> DEFINE part(k) == WriteField(fields[k][2], m.body[fields[k][1]])
             value(k) == Kept(fields[k][2], m.body[fields[k][1]])
             parts == [k \in 1 .. n |-> part(k)]
             v == [k \in 1 .. n |-> value(k)]
             V == {value(k) : k \in 1 .. n}
  <1>4. ASSUME NEW k \in 1 .. n
        PROVE  Undoes(FieldReader(fields[k]), part(k), value(k))
    <2>1. PICK f, kind : f = fields[k][1] /\ kind = fields[k][2]
      OBVIOUS
    <2>2. kind \in FieldKinds /\ m.body[f] \in Values(kind) /\ fields[k] = <<f, kind>>
      BY <1>3, <2>1
    <2>3. Undoes(FieldReader(<<f, kind>>), WriteField(kind, m.body[f]), Kept(kind, m.body[f]))
      BY <2>2, FieldUndone
    <2> QED
      BY <2>1, <2>2, <2>3, Zenon
  <1>5. parts \in Seq(Seq(Byte)) /\ Len(parts) = n
    <2>1. \A k \in 1 .. n : part(k) \in Seq(Byte)
      BY <1>4 DEF Undoes
    <2> HIDE DEF part
    <2> QED
      BY <2>1
  <1>6. v \in Seq(V) /\ Len(v) = n
    <2> HIDE DEF value
    <2> QED
      OBVIOUS
  <1>7. Encode(m.type, m.body) = FlattenSeq(parts)
    BY <1>3 DEF Encode
  <1>8. v = KeptFields(fields, m.body)
    BY <1>2 DEF KeptFields
  <1>9. PICK R : R = FieldReaders(fields, n)
    OBVIOUS
  <1>10. \A k \in 1 .. n : Undoes(R[k], parts[k], v[k])
    <2> HIDE DEF part, value
    <2> QED
      BY <1>4, <1>9 DEF FieldReaders
  <1> HIDE DEF parts, v, V
  <1>11. PICK H : /\ ReadsOn(H, R, n)
                  /\ \A b \in Seq(Byte) : FieldsOf(fields, b) = H[b][n]
    BY <1>2, <1>9, FieldsReadOn
  <1>12. EachReader(H, n) = MessageReader(m.type)
    BY <1>1, <1>11 DEF EachReader, MessageReader
  <1>13. Undoes(EachReader(H, n), FlattenSeq(parts), v)
    BY <1>5, <1>6, <1>10, <1>11, PartsUndone
  <1> QED
    BY <1>1, <1>7, <1>8, <1>12, <1>13, Zenon

(* The body that has the values of the fields under their names *)
Named(fields, v) ==
    [f \in {fields[k][1] : k \in DOMAIN fields} |->
        v[CHOOSE k \in DOMAIN fields : fields[k][1] = f]]

LEMMA DecodeOf ==
    ASSUME NEW t, NEW b, NEW v, NEW rest
    PROVE  /\ FieldsOf(Layouts[t].reads, b) = {} => Decode(t, b) = {}
           /\ FieldsOf(Layouts[t].reads, b) = {<<v, rest>>} /\ rest # <<>> => Decode(t, b) = {}
           /\ FieldsOf(Layouts[t].reads, b) = {<<v, rest>>} /\ rest = <<>> =>
                Decode(t, b) = {Named(Layouts[t].reads, v)}
  <1>1. PICK fields : fields = Layouts[t].reads
    OBVIOUS
  <1>2. PICK A : A = FieldsOf(fields, b)
    OBVIOUS
  <1>3. Decode(t, b) = {Named(fields, r[1]) : r \in {x \in A : x[2] = <<>>}}
    BY <1>1, <1>2 DEF Decode, Named, FieldsOf
  <1>4. A = {} => Decode(t, b) = {}
    BY <1>3
  <1>5. A = {<<v, rest>>} /\ rest # <<>> => Decode(t, b) = {}
    BY <1>3
  <1>6. ASSUME A = {<<v, rest>>}, rest = <<>>
        PROVE  Decode(t, b) = {Named(fields, v)}
    <2>1. PICK B : B = {x \in A : x[2] = <<>>}
      OBVIOUS
    <2>2. (\A r \in B : r[1] = v) /\ B # {}
      <3>1. PICK p : p = <<v, rest>> /\ p[1] = v /\ p[2] = rest
        <4>1. <<v, rest>>[1] = v /\ <<v, rest>>[2] = rest
          OBVIOUS
        <4> QED
          BY <4>1, Zenon
      <3>2. A = {p}
        BY <1>6, <3>1, Zenon
      <3>3. p \in B /\ \A r \in B : r = p
        BY <1>6, <2>1, <3>1, <3>2, Zenon
      <3> QED
        BY <3>1, <3>3, Zenon
    <2>3. {Named(fields, r[1]) : r \in B} = {Named(fields, v)}
      BY <2>2
    <2> QED
      BY <1>3, <2>1, <2>3
  <1> QED
    BY <1>1, <1>2, <1>4, <1>5, <1>6

(* Read back under their names, the fields are what the message keeps. *)
LEMMA NamedAsKept ==
    ASSUME NEW m, IsMessage(m), NEW fields, fields = Layouts[m.type].reads
    PROVE  Named(fields, KeptFields(fields, m.body)) = AsKept(m).body
  <1>1. PICK t, struct, body : t = m.type /\ struct = Structs[t] /\ body = m.body
    OBVIOUS
  <1>2. Row(m, fields)
    BY RowOf
  <1>3. PICK n \in Nat : n = Len(fields)
    BY <1>2 DEF Row
  <1>4. /\ DOMAIN fields = 1 .. n
        /\ \A i, j \in 1 .. n : fields[i][1] = fields[j][1] => i = j
        /\ DOMAIN struct = {fields[k][1] : k \in 1 .. n}
    BY <1>1, <1>2, <1>3 DEF Row, WellLaid
  <1>5. \A k \in 1 .. n : \A v : Kept(struct[fields[k][1]], v) = Kept(fields[k][2], v)
    BY <1>1, <1>2, <1>3 DEF Row
  <1>6. PICK u : u = KeptFields(fields, body)
    OBVIOUS
  <1>7. \A k \in 1 .. n : u[k] = Kept(fields[k][2], body[fields[k][1]])
    BY <1>3, <1>6 DEF KeptFields
  <1>8. AsKept(m).body = [f \in DOMAIN struct |-> Kept(struct[f], body[f])]
    BY <1>1 DEF AsKept
  <1>9. Named(fields, u) = [f \in DOMAIN struct |->
                                u[CHOOSE k \in 1 .. n : fields[k][1] = f]]
    BY <1>4 DEF Named
  <1>10. ASSUME NEW f \in DOMAIN struct
         PROVE  u[CHOOSE k \in 1 .. n : fields[k][1] = f] = Kept(struct[f], body[f])
    <2>1. PICK k \in 1 .. n : fields[k][1] = f
      BY <1>4
    <2>2. (CHOOSE j \in 1 .. n : fields[j][1] = f) = k
      BY <1>4, <2>1
    <2> QED
      BY <1>5, <1>7, <2>1, <2>2
  <1>11. Named(fields, u) = AsKept(m).body
    <2> DEFINE D == DOMAIN struct
               one(f) == u[CHOOSE k \in 1 .. n : fields[k][1] = f]
               other(f) == Kept(struct[f], body[f])
    <2>1. \A f \in D : one(f) = other(f)
      BY <1>10
    <2>2. AsKept(m).body = [f \in D |-> other(f)] /\ Named(fields, u) = [f \in D |-> one(f)]
      BY <1>8, <1>9
    <2> HIDE DEF one, other, D
    <2> QED
      BY <2>1, <2>2
  <1> QED
    BY <1>1, <1>6, <1>11

(* A decoder gives back the message its encoder was given, cut where a       *)
(* string or a list is too long for its length, and refuses every payload    *)
(* that breaks off or goes on.                                               *)
THEOREM DecodeUndoesEncode ==
    ASSUME NEW m, IsMessage(m)
    PROVE  LET payload == Encode(m.type, m.body)
           IN  /\ payload \in Seq(Byte)
               /\ Decode(m.type, payload) = {AsKept(m).body}
               /\ \A n \in 0 .. Len(payload) - 1 : Decode(m.type, Take(payload, n)) = {}
               /\ \A more \in Seq(Byte) : more # <<>> => Decode(m.type, payload \o more) = {}
  <1>1. PICK t, w, fields : t = m.type /\ w = Encode(t, m.body) /\ fields = Layouts[t].reads
    OBVIOUS
  <1>2. PICK v : v = KeptFields(fields, m.body)
    OBVIOUS
  <1>3. Undoes(MessageReader(t), w, v)
    BY <1>1, <1>2, MessageUndone
  <1>4. w \in Seq(Byte)
    BY <1>3 DEF Undoes
  <1>5. \A b \in Seq(Byte) : MessageReader(t)[b] = FieldsOf(fields, b)
    BY <1>1 DEF MessageReader
  <1>6. ASSUME NEW rest \in Seq(Byte)
        PROVE  FieldsOf(fields, w \o rest) = {<<v, rest>>}
    <2>1. w \o rest \in Seq(Byte)
      BY <1>4, JoinFacts
    <2> QED
      BY <1>3, <1>5, <2>1 DEF Undoes, Found
  <1>7. Decode(t, w) = {AsKept(m).body}
    <2>1. <<>> \in Seq(Byte) /\ w \o <<>> = w
      BY <1>4, ConcatEmptySeq
    <2>2. FieldsOf(fields, w) = {<<v, <<>> >>}
      BY <1>6, <2>1, Zenon
    <2>3. Decode(t, w) = {Named(fields, v)}
      BY <1>1, <2>2, DecodeOf, Zenon
    <2> QED
      BY <1>1, <1>2, <2>3, NamedAsKept
  <1>8. ASSUME NEW n \in 0 .. Len(w) - 1
        PROVE  Decode(t, Take(w, n)) = {}
    <2>1. n \in 0 .. Len(w)
      BY <1>4
    <2>2. Take(w, n) \in Seq(Byte)
      BY <1>4, <2>1, TakeFacts
    <2>3. FieldsOf(fields, Take(w, n)) = {}
      BY <1>3, <1>5, <2>2 DEF Undoes
    <2> QED
      BY <1>1, <2>3, DecodeOf, Zenon
  <1>9. ASSUME NEW more \in Seq(Byte), more # <<>>
        PROVE  Decode(t, w \o more) = {}
    <2>1. PICK b : b = w \o more
      OBVIOUS
    <2>2. FieldsOf(Layouts[t].reads, b) = {<<v, more>>}
      BY <1>1, <1>6, <2>1, Zenon
    <2>3. Decode(t, b) = {}
      BY <1>9, <2>2, DecodeOf
    <2> QED
      BY <2>1, <2>3
  <1> QED
    BY <1>1, <1>4, <1>7, <1>8, <1>9

-----------------------------------------------------------------------------
(* The pipeline: what is sent *)

LEMMA ScriptMessages ==
    ASSUME NEW s \in Scripts, NEW c \in Connections
    PROVE  /\ s[c] \in Seq(ToSet(s[c])) /\ Len(s[c]) \in Nat /\ DOMAIN s[c] = 1 .. Len(s[c])
           /\ \A k \in DOMAIN s[c] :
                /\ IsMessage(s[c][k])
                /\ Len(Encode(s[c][k].type, s[c][k].body)) <= UnsignedMax(4)
  <1>1. PICK q : q = s[c]
    OBVIOUS
  <1>2. q \in Seq(ToSet(q)) /\ \A m \in ToSet(q) :
            IsMessage(m) /\ Len(Encode(m.type, m.body)) <= UnsignedMax(4)
    BY <1>1, ScriptsAreMessages
  <1>3. \A k \in DOMAIN q : q[k] \in ToSet(q)
    BY DEF ToSet
  <1>4. Len(q) \in Nat /\ DOMAIN q = 1 .. Len(q)
    BY <1>2
  <1> QED
    BY <1>1, <1>2, <1>3, <1>4

(* What the clients send stays as it was chosen. *)
ScriptChosen == script \in Scripts

-----------------------------------------------------------------------------
(* Frames *)

(* The frame a message is sent in *)
FrameOf(m) ==
    [type |-> PositionOf(m.type), version |-> 1, payload |-> Encode(m.type, m.body)]

FrameReader == [b \in Seq(Byte) |-> NextFrame(b)]

(* The payload, once the header is known *)
Payload(type, version, size, b) ==
    {<<[type |-> type, version |-> version, payload |-> p[1]], p[2]>> : p \in ReadBytes(size, b)}

PayloadReader(type, version, size) == [b \in Seq(Byte) |-> Payload(type, version, size, b)]

LEMMA PayloadOf ==
    ASSUME NEW type, NEW version, NEW size, NEW b, NEW p, NEW rest,
           ReadBytes(size, b) = Found(p, rest)
    PROVE  Payload(type, version, size, b)
             = Found([type |-> type, version |-> version, payload |-> p], rest)
  <1>1. \A r \in ReadBytes(size, b) : r[1] = p /\ r[2] = rest
    BY DEF Found
  <1>2. ReadBytes(size, b) # {}
    BY DEF Found
  <1> QED
    BY <1>1, <1>2 DEF Payload, Found

LEMMA PayloadUndone ==
    ASSUME NEW type, NEW version, NEW s \in Seq(Byte)
    PROVE  Undoes(PayloadReader(type, version, Len(s)), s,
                  [type |-> type, version |-> version, payload |-> s])
  <1>1. PICK frame, n : frame = [type |-> type, version |-> version, payload |-> s] /\ n = Len(s)
    OBVIOUS
  <1>2. Undoes(BytesReader(n), s, s)
    BY <1>1, BytesUndone
  <1>3. ASSUME NEW rest \in Seq(Byte)
        PROVE  PayloadReader(type, version, n)[s \o rest] = Found(frame, rest)
    <2>1. PICK b \in Seq(Byte) : b = s \o rest
      <3>1. s \o rest \in Seq(Byte)
        BY JoinFacts
      <3> QED
        BY <3>1
    <2>2. ReadBytes(n, b) = Found(s, rest)
      BY <1>2, <2>1 DEF Undoes, BytesReader
    <2>3. Payload(type, version, n, b) = Found(frame, rest)
      <3>1. Payload(type, version, n, b)
              = Found([type |-> type, version |-> version, payload |-> s], rest)
        BY <2>2, PayloadOf
      <3> QED
        BY <1>1, <3>1, Zenon
    <2> QED
      BY <2>1, <2>3 DEF PayloadReader
  <1>4. ASSUME NEW k \in 0 .. Len(s) - 1
        PROVE  PayloadReader(type, version, n)[Take(s, k)] = {}
    <2>1. k \in 0 .. Len(s)
      OBVIOUS
    <2>2. PICK b \in Seq(Byte) : b = Take(s, k)
      BY <2>1, TakeFacts
    <2>3. ReadBytes(n, b) = {}
      BY <1>2, <2>2 DEF Undoes, BytesReader
    <2>4. Payload(type, version, n, b) = {}
      BY <2>3 DEF Payload
    <2> QED
      BY <2>2, <2>4 DEF PayloadReader
  <1> QED
    BY <1>1, <1>3, <1>4 DEF Undoes

LEMMA NextFrameOf ==
    ASSUME NEW b, NEW h, NEW rest, ReadBytes(HeaderSize, b) = {<<h, rest>>}
    PROVE  NextFrame(b) = Payload(Number(SubSeq(h, 5, 6)), Number(SubSeq(h, 7, 8)),
                                  Number(SubSeq(h, 1, 4)), rest)
  <1>1. \A r \in ReadBytes(HeaderSize, b) : r[1] = h /\ r[2] = rest
    OBVIOUS
  <1>2. ReadBytes(HeaderSize, b) # {}
    OBVIOUS
  <1>3. NextFrame(b) = UNION {Payload(Number(SubSeq(r[1], 5, 6)), Number(SubSeq(r[1], 7, 8)),
                                      Number(SubSeq(r[1], 1, 4)), r[2]) :
                                r \in ReadBytes(HeaderSize, b)}
    BY DEF NextFrame, Payload
  <1> QED
    BY <1>1, <1>2, <1>3

(* The header of a frame and its parts *)
Header(a, b, c) == (a \o b) \o c

IsHeader(h, a, b, c) ==
    /\ h \in Seq(Byte) /\ Len(h) = 8
    /\ SubSeq(h, 1, 4) = a /\ SubSeq(h, 5, 6) = b /\ SubSeq(h, 7, 8) = c

LEMMA HeaderParts ==
    ASSUME NEW a \in Seq(Byte), NEW b \in Seq(Byte), NEW c \in Seq(Byte),
           Len(a) = 4, Len(b) = 2, Len(c) = 2
    PROVE  IsHeader(Header(a, b, c), a, b, c)
  <1>0. PICK h : h = Header(a, b, c) /\ h = (a \o b) \o c
    BY DEF Header
  <1>1. PICK ab \in Seq(Byte) : ab = a \o b /\ Len(ab) = 6 /\ Take(ab, 4) = a /\ Drop(ab, 4) = b
    <2>1. /\ a \o b \in Seq(Byte) /\ Len(a \o b) = Len(a) + Len(b)
          /\ Take(a \o b, Len(a)) = a /\ Drop(a \o b, Len(a)) = b
      BY Cut
    <2>2. Len(a \o b) = 6
      BY <2>1
    <2>3. Take(a \o b, 4) = a /\ Drop(a \o b, 4) = b
      BY <2>1, Zenon
    <2> QED
      BY <2>1, <2>2, <2>3, Zenon
  <1>2. h \in Seq(Byte) /\ Len(h) = 8 /\ Drop(h, 6) = c
    <2>1. /\ ab \o c \in Seq(Byte) /\ Len(ab \o c) = Len(ab) + Len(c)
          /\ Drop(ab \o c, Len(ab)) = c
      BY Cut
    <2> QED
      BY <1>0, <1>1, <2>1
  <1>3. SubSeq(h, 7, 8) = c
    BY <1>2 DEF Drop
  <1>4. SubSeq(h, 5, 6) = b
    <2>1. SubSeq(ab \o c, 4 + 1, 6) = SubSeq(ab, 4 + 1, 6)
      <3>1. 4 \in Nat /\ 6 \in 0 .. Len(ab)
        BY <1>1
      <3> QED
        BY <3>1, SubSeqOfJoin
    <2>2. SubSeq(ab, 4 + 1, 6) = b
      BY <1>1 DEF Drop
    <2> QED
      BY <1>0, <1>1, <2>1, <2>2
  <1>5. SubSeq(h, 1, 4) = a
    <2>1. SubSeq(ab \o c, 0 + 1, 4) = SubSeq(ab, 0 + 1, 4)
      <3>1. 0 \in Nat /\ 4 \in 0 .. Len(ab)
        BY <1>1
      <3> QED
        BY <3>1, SubSeqOfJoin
    <2>2. SubSeq(ab, 0 + 1, 4) = a
      BY <1>1 DEF Take
    <2> QED
      BY <1>0, <1>1, <2>1, <2>2
  <1> QED
    BY <1>0, <1>2, <1>3, <1>4, <1>5 DEF IsHeader

LEMMA TypeCodes ==
    ASSUME NEW t \in ToSet(PacketTypes)
    PROVE  /\ PositionOf(t) \in DOMAIN PacketTypes /\ PacketTypes[PositionOf(t)] = t
           /\ PositionOf(t) \in Unsigned(2)
  <1>1. \E k \in DOMAIN PacketTypes : PacketTypes[k] = t
    BY DEF ToSet
  <1>2. PositionOf(t) \in DOMAIN PacketTypes /\ PacketTypes[PositionOf(t)] = t
    BY <1>1 DEF PositionOf
  <1>3. DOMAIN PacketTypes = 1 .. 34
    BY DEF PacketTypes
  <1>4. 1 .. 34 \subseteq Unsigned(2)
    BY TwoBytes DEF Unsigned
  <1> QED
    BY <1>2, <1>3, <1>4

(* FrameDecoder takes out of its buffer the frame that was encoded, and      *)
(* waits while the frame is not there to its last byte.                      *)
LEMMA FrameUndone ==
    ASSUME NEW m, IsMessage(m), Len(Encode(m.type, m.body)) <= UnsignedMax(4)
    PROVE  Undoes(FrameReader, Frame(m), FrameOf(m)) /\ Len(Frame(m)) >= 8
  <1>1. PICK payload : payload = Encode(m.type, m.body)
    OBVIOUS
  <1>2. payload \in Seq(Byte)
    BY <1>1, DecodeUndoesEncode
  <1>3. PICK size \in Nat : size = Len(payload)
    BY <1>2
  <1>4. size \in Unsigned(4)
    <2>1. UnsignedMax(4) \in Nat
      <3>1. PICK d \in Nat \ {0} : d = Power(4)
        BY PowerStep
      <3> QED
        BY <3>1 DEF UnsignedMax
    <2> QED
      BY <1>1, <1>3, <2>1 DEF Unsigned
  <1>5. PICK type \in Unsigned(2) : type = PositionOf(m.type)
    <2>1. m.type \in ToSet(PacketTypes)
      BY DEF IsMessage
    <2>2. PositionOf(m.type) \in Unsigned(2)
      BY <2>1, TypeCodes
    <2> QED
      BY <2>2
  <1>6. 1 \in Unsigned(2) /\ type \in Nat
    BY <1>5, TwoBytes DEF Unsigned
  <1>7. PICK a \in Seq(Byte) : a = WriteUnsigned(4, size) /\ Len(a) = 4 /\ Number(a) = size
    BY <1>4, WrittenBytes, NumberWritten
  <1>8. PICK b \in Seq(Byte) : b = WriteUnsigned(2, type) /\ Len(b) = 2 /\ Number(b) = type
    BY <1>6, WrittenBytes, NumberWritten
  <1>9. PICK c \in Seq(Byte) : c = WriteUnsigned(2, 1) /\ Len(c) = 2 /\ Number(c) = 1
    BY <1>6, WrittenBytes, NumberWritten
  <1>10. PICK h : h = Header(a, b, c) /\ h = (a \o b) \o c
    BY DEF Header
  <1>11. /\ h \in Seq(Byte) /\ Len(h) = 8
         /\ SubSeq(h, 1, 4) = a /\ SubSeq(h, 5, 6) = b /\ SubSeq(h, 7, 8) = c
    <2>1. Len(a) = 4 /\ Len(b) = 2 /\ Len(c) = 2
      BY <1>7, <1>8, <1>9
    <2>2. IsHeader(Header(a, b, c), a, b, c)
      BY <2>1, HeaderParts
    <2> QED
      BY <1>10, <2>2 DEF IsHeader
  <1>12. Frame(m) = h \o payload
    BY <1>1, <1>3, <1>5, <1>7, <1>8, <1>9, <1>10 DEF Frame, EncodeFrame
  <1>13. FrameOf(m) = [type |-> type, version |-> 1, payload |-> payload]
    BY <1>1, <1>5 DEF FrameOf
  <1>14. Undoes(BytesReader(8), h, h)
    BY <1>11, BytesUndone
  <1>15. Undoes(PayloadReader(type, 1, size), payload, FrameOf(m))
    BY <1>2, <1>3, <1>13, PayloadUndone
  <1>16. GoesOn(FrameReader, BytesReader(8), h, PayloadReader(type, 1, size))
    <2>1. ASSUME NEW s \in Seq(Byte), BytesReader(8)[s] = {}
          PROVE  FrameReader[s] = {}
      <3>1. ReadBytes(8, s) = {}
        BY <2>1 DEF BytesReader
      <3>2. NextFrame(s) = {}
        BY <3>1 DEF NextFrame, HeaderSize
      <3> QED
        BY <3>2 DEF FrameReader
    <2>2. ASSUME NEW s \in Seq(Byte), NEW rest \in Seq(Byte),
                 BytesReader(8)[s] = Found(h, rest)
          PROVE  FrameReader[s] = PayloadReader(type, 1, size)[rest]
      <3>1. ReadBytes(HeaderSize, s) = {<<h, rest>>}
        BY <2>2 DEF BytesReader, Found, HeaderSize
      <3>2. NextFrame(s) = Payload(Number(SubSeq(h, 5, 6)), Number(SubSeq(h, 7, 8)),
                                   Number(SubSeq(h, 1, 4)), rest)
        BY <3>1, NextFrameOf
      <3>3. NextFrame(s) = Payload(type, 1, size, rest)
        <4>1. Number(SubSeq(h, 5, 6)) = type
          BY <1>8, <1>11
        <4>2. Number(SubSeq(h, 7, 8)) = 1
          BY <1>9, <1>11
        <4>3. Number(SubSeq(h, 1, 4)) = size
          BY <1>7, <1>11
        <4> QED
          BY <3>2, <4>1, <4>2, <4>3, Zenon
      <3> QED
        BY <3>3 DEF FrameReader, PayloadReader
    <2> QED
      BY <2>1, <2>2 DEF GoesOn
  <1>17. Undoes(FrameReader, h \o payload, FrameOf(m))
    BY <1>14, <1>15, <1>16, UndoneTwice
  <1>18. Len(h \o payload) >= 8
    <2>1. Len(h \o payload) = Len(h) + Len(payload)
      <3>1. h \in Seq(Byte)
        BY <1>11
      <3> QED
        BY <1>2, <3>1, JoinFacts, Zenon
    <2> QED
      BY <1>3, <1>11, <2>1
  <1> QED
    BY <1>12, <1>17, <1>18

(* What handlePacket makes of the frame is the message, as it was kept. *)
LEMMA DispatchedAsKept ==
    ASSUME NEW m, IsMessage(m)
    PROVE  Dispatched(FrameOf(m)) = {AsKept(m)}
  <1>1. PICK t, k, payload : /\ t = m.type /\ k = PositionOf(t)
                             /\ payload = Encode(m.type, m.body)
    OBVIOUS
  <1>2. k \in DOMAIN PacketTypes /\ PacketTypes[k] = t
    BY <1>1, TypeCodes DEF IsMessage
  <1>3. FrameOf(m).type = k /\ FrameOf(m).payload = payload
    BY <1>1 DEF FrameOf
  <1>4. Decode(t, payload) = {AsKept(m).body}
    BY <1>1, DecodeUndoesEncode
  <1>5. {FrameOf(m).type} \cap DOMAIN PacketTypes = {k}
    BY <1>2, <1>3
  <1>6. AsKept(m) = [type |-> t, body |-> AsKept(m).body]
    BY <1>1 DEF AsKept
  <1>7. PICK A, body : A = Decode(t, payload) /\ body = AsKept(m).body
    OBVIOUS
  <1>8. {[type |-> t, body |-> x] : x \in A} = {[type |-> t, body |-> body]}
    BY <1>4, <1>7
  <1>9. PICK K : K = {FrameOf(m).type} \cap DOMAIN PacketTypes
    OBVIOUS
  <1>10. Dispatched(FrameOf(m))
           = UNION {{[type |-> PacketTypes[j], body |-> x] :
                        x \in Decode(PacketTypes[j], payload)} : j \in K}
    BY <1>3, <1>9 DEF Dispatched
  <1>11. \A j \in K : PacketTypes[j] = t
    BY <1>2, <1>5, <1>9
  <1>12. Dispatched(FrameOf(m)) = {[type |-> t, body |-> x] : x \in A}
    <2>1. K # {}
      BY <1>5, <1>9
    <2> QED
      BY <1>7, <1>10, <1>11, <2>1
  <1> QED
    BY <1>6, <1>7, <1>8, <1>12

-----------------------------------------------------------------------------
(* The bytes between two places of a stream *)

Slice(all, a, b) == SubSeq(all, a + 1, b)

LEMMA SliceFacts ==
    ASSUME NEW all \in Seq(Byte), NEW b \in 0 .. Len(all), NEW a \in 0 .. b
    PROVE  /\ Slice(all, a, b) \in Seq(Byte) /\ Len(Slice(all, a, b)) = b - a
           /\ \A k \in 1 .. b - a : Slice(all, a, b)[k] = all[a + k]
  <1>1. Len(all) \in Nat /\ a \in Nat /\ b \in Nat /\ a <= b /\ b <= Len(all)
    OBVIOUS
  <1>2. Slice(all, a, b) \in Seq(Byte) /\ Len(Slice(all, a, b)) = b - a
    BY <1>1 DEF Slice
  <1>3. \A k \in 1 .. b - a : Slice(all, a, b)[k] = all[a + k]
    BY <1>1 DEF Slice
  <1> QED
    BY <1>2, <1>3

LEMMA SliceJoin ==
    ASSUME NEW all \in Seq(Byte), NEW c \in 0 .. Len(all), NEW b \in 0 .. c, NEW a \in 0 .. b
    PROVE  Slice(all, a, b) \o Slice(all, b, c) = Slice(all, a, c)
  <1>1. /\ Len(all) \in Nat /\ a \in Nat /\ b \in Nat /\ c \in Nat
        /\ a <= b /\ b <= c /\ c <= Len(all) /\ b \in 0 .. Len(all) /\ a \in 0 .. c
    OBVIOUS
  <1>2. PICK x \in Seq(Byte) : /\ x = Slice(all, a, b) /\ Len(x) = b - a
                               /\ \A k \in 1 .. b - a : x[k] = all[a + k]
    BY <1>1, SliceFacts
  <1>3. PICK y \in Seq(Byte) : /\ y = Slice(all, b, c) /\ Len(y) = c - b
                               /\ \A k \in 1 .. c - b : y[k] = all[b + k]
    BY <1>1, SliceFacts
  <1>4. PICK z \in Seq(Byte) : /\ z = Slice(all, a, c) /\ Len(z) = c - a
                               /\ \A k \in 1 .. c - a : z[k] = all[a + k]
    BY <1>1, SliceFacts
  <1>5. PICK xy \in Seq(Byte) : xy = x \o y /\ Len(xy) = Len(z)
    <2>1. x \o y \in Seq(Byte) /\ Len(x \o y) = Len(x) + Len(y)
      BY JoinFacts
    <2>2. Len(x) + Len(y) = Len(z)
      BY <1>1, <1>2, <1>3, <1>4
    <2> QED
      BY <2>1, <2>2, Zenon
  <1>6. /\ \A k \in 1 .. Len(x) : xy[k] = x[k]
        /\ \A k \in 1 .. Len(y) : xy[Len(x) + k] = y[k]
    BY <1>5, JoinFacts
  <1>7. ASSUME NEW k \in 1 .. Len(z)
        PROVE  z[k] = xy[k]
    <2>0. z[k] = all[a + k] /\ k \in Nat
      BY <1>1, <1>4
    <2>1. CASE k <= b - a
      <3>1. k \in 1 .. b - a /\ k \in 1 .. Len(x)
        BY <1>1, <1>2, <2>0, <2>1
      <3>2. x[k] = all[a + k] /\ xy[k] = x[k]
        BY <1>2, <1>6, <3>1
      <3> QED
        BY <2>0, <3>2
    <2>2. CASE k > b - a
      <3>1. PICK q \in 1 .. c - b : k = (b - a) + q /\ a + k = b + q
        <4>1. /\ k - (b - a) \in 1 .. c - b
              /\ k = (b - a) + (k - (b - a)) /\ a + k = b + (k - (b - a))
          BY <1>1, <1>4, <2>0, <2>2
        <4> QED
          BY <4>1
      <3>2. q \in 1 .. Len(y) /\ k = Len(x) + q
        BY <1>2, <1>3, <3>1
      <3>3. xy[k] = y[q] /\ y[q] = all[b + q]
        BY <1>3, <1>6, <3>2
      <3> QED
        BY <2>0, <3>1, <3>3
    <2>3. k <= b - a \/ k > b - a
      BY <1>1, <2>0
    <2> QED
      BY <2>1, <2>2, <2>3
  <1>8. z = xy
    BY <1>5, <1>7, SeqEqual
  <1> QED
    BY <1>2, <1>3, <1>4, <1>5, <1>8

LEMMA SliceCut ==
    ASSUME NEW all \in Seq(Byte), NEW c \in 0 .. Len(all), NEW b \in 0 .. c, NEW a \in 0 .. b
    PROVE  /\ Take(Slice(all, a, c), b - a) = Slice(all, a, b)
           /\ Drop(Slice(all, a, c), b - a) = Slice(all, b, c)
  <1>1. b \in 0 .. Len(all)
    OBVIOUS
  <1>2. PICK x \in Seq(Byte), y \in Seq(Byte) :
            /\ x = Slice(all, a, b) /\ Len(x) = b - a /\ y = Slice(all, b, c)
    <2>1. Slice(all, a, b) \in Seq(Byte) /\ Len(Slice(all, a, b)) = b - a
      BY <1>1, SliceFacts
    <2>2. Slice(all, b, c) \in Seq(Byte)
      BY SliceFacts
    <2> QED
      BY <2>1, <2>2
  <1>3. Slice(all, a, c) = x \o y
    BY <1>2, SliceJoin
  <1>4. Take(x \o y, Len(x)) = x /\ Drop(x \o y, Len(x)) = y
    BY Cut
  <1> QED
    BY <1>2, <1>3, <1>4

LEMMA WholeSlice ==
    ASSUME NEW all \in Seq(Byte)
    PROVE  /\ Slice(all, 0, Len(all)) = all
           /\ \A n \in 0 .. Len(all) : Slice(all, n, n) = <<>> /\ Slice(all, 0, n) = Take(all, n)
  <1>1. Len(all) \in Nat
    OBVIOUS
  <1>2. Slice(all, 0, Len(all)) = all
    <2>1. PICK x \in Seq(Byte) : /\ x = Slice(all, 0, Len(all)) /\ Len(x) = Len(all)
                                 /\ \A k \in 1 .. Len(all) : x[k] = all[k]
      <3>1. PICK o \in 0 .. Len(all), n \in 0 .. Len(all) : o = 0 /\ n = Len(all) /\ o \in 0 .. n
        BY <1>1
      <3>2. /\ Slice(all, o, n) \in Seq(Byte) /\ Len(Slice(all, o, n)) = n - o
            /\ \A k \in 1 .. n - o : Slice(all, o, n)[k] = all[o + k]
        BY <3>1, SliceFacts
      <3>3. n - o = Len(all) /\ \A k \in 1 .. n - o : o + k = k
        BY <1>1, <3>1
      <3> QED
        BY <3>1, <3>2, <3>3
    <2> QED
      BY <2>1, SeqEqual
  <1>3. ASSUME NEW n \in 0 .. Len(all)
        PROVE  Slice(all, n, n) = <<>> /\ Slice(all, 0, n) = Take(all, n)
    <2>1. n \in Nat /\ n \in 0 .. n
      OBVIOUS
    <2>2. Slice(all, n, n) = <<>>
      BY <2>1, SubSeqEmpty DEF Slice
    <2>3. Slice(all, 0, n) = Take(all, n)
      BY DEF Slice, Take
    <2> QED
      BY <2>2, <2>3
  <1> QED
    BY <1>2, <1>3

-----------------------------------------------------------------------------
(* Frames in a stream *)

(* The bytes all are the frames of the messages ms; the k-th ends at off[k]. *)
Carries(all, off, ms) ==
    /\ all \in Seq(Byte) /\ Len(ms) \in Nat
    /\ off[0] = 0 /\ off[Len(ms)] = Len(all)
    /\ \A k \in 0 .. Len(ms) : off[k] \in 0 .. Len(all)
    /\ \A k \in 1 .. Len(ms) :
        /\ off[k] >= off[k - 1] + 8
        /\ Undoes(FrameReader, Slice(all, off[k - 1], off[k]), FrameOf(ms[k]))

Offsets(ms) == CHOOSE off : Carries(Bytes(ms), off, ms)

LEMMA StreamCarries ==
    ASSUME NEW s \in Scripts, NEW c \in Connections
    PROVE  Carries(Bytes(s[c]), Offsets(s[c]), s[c])
  <1>1. PICK ms : ms = s[c]
    OBVIOUS
  <1>2. PICK n \in Nat : n = Len(ms) /\ DOMAIN ms = 1 .. n
    BY <1>1, ScriptMessages
  <1>3. ASSUME NEW k \in 1 .. n
        PROVE  Undoes(FrameReader, Frame(ms[k]), FrameOf(ms[k])) /\ Len(Frame(ms[k])) >= 8
    <2>1. PICK m : m = ms[k] /\ IsMessage(m) /\ Len(Encode(m.type, m.body)) <= UnsignedMax(4)
      BY <1>1, <1>2, ScriptMessages
    <2> QED
      BY <2>1, FrameUndone
  <1>4. PICK parts : parts = [k \in 1 .. n |-> Frame(ms[k])]
    OBVIOUS
  <1>5. ASSUME NEW k \in 1 .. n
        PROVE  parts[k] \in Seq(Byte) /\ parts[k] = Frame(ms[k])
    <2>1. parts[k] = Frame(ms[k])
      BY <1>4
    <2>2. Frame(ms[k]) \in Seq(Byte)
      BY <1>3 DEF Undoes
    <2> QED
      BY <2>1, <2>2
  <1>6. parts \in Seq(Seq(Byte)) /\ Len(parts) = n
    <2>1. parts = [k \in 1 .. n |-> parts[k]]
      BY <1>4
    <2>2. parts \in [1 .. n -> Seq(Byte)]
      BY <1>5, <2>1
    <2> QED
      BY <2>2
  <1>7. PICK all : all = Bytes(ms) /\ all = FlattenSeq(parts)
    BY <1>2, <1>4 DEF Bytes
  <1>8. PICK off : Pieces(all, off, parts, n)
    BY <1>6, <1>7, FlattenedPieces
  <1>9. Carries(all, off, ms)
    <2>1. all \in Seq(Byte) /\ off[0] = 0 /\ off[n] = Len(all)
      BY <1>8 DEF Pieces
    <2>2. \A k \in 0 .. n : off[k] \in 0 .. Len(all)
      BY <1>8 DEF Pieces
    <2>3. ASSUME NEW k \in 1 .. n
          PROVE  /\ off[k] >= off[k - 1] + 8
                 /\ Undoes(FrameReader, Slice(all, off[k - 1], off[k]), FrameOf(ms[k]))
      <3>1. off[k] = off[k - 1] + Len(parts[k])
        BY <1>8 DEF Pieces
      <3>2. SubSeq(all, off[k - 1] + 1, off[k]) = parts[k]
        BY <1>8 DEF Pieces
      <3>3. Slice(all, off[k - 1], off[k]) = Frame(ms[k])
        BY <1>5, <3>2 DEF Slice
      <3>4. off[k - 1] \in Nat
        <4>1. k - 1 \in 0 .. n
          OBVIOUS
        <4> QED
          BY <2>1, <2>2, <4>1
      <3>5. Len(parts[k]) \in Nat /\ Len(parts[k]) >= 8
        BY <1>3, <1>5
      <3>6. off[k] >= off[k - 1] + 8
        BY <3>1, <3>4, <3>5
      <3> QED
        BY <1>3, <3>3, <3>6
    <2> QED
      BY <1>2, <2>1, <2>2, <2>3 DEF Carries
  <1>10. \E o : Carries(Bytes(ms), o, ms)
    BY <1>7, <1>9
  <1>11. Carries(Bytes(ms), Offsets(ms), ms)
    BY <1>10 DEF Offsets
  <1> QED
    BY <1>1, <1>11

LEMMA CarriesFacts ==
    ASSUME NEW all, NEW off, NEW ms, Carries(all, off, ms)
    PROVE  /\ all \in Seq(Byte) /\ Len(all) \in Nat /\ Len(ms) \in Nat
           /\ off[0] = 0 /\ off[Len(ms)] = Len(all)
           /\ \A k \in 0 .. Len(ms) : off[k] \in Nat /\ off[k] <= Len(all)
           /\ \A k \in 0 .. Len(ms) : k < Len(ms) => off[k + 1] >= off[k] + 8
  <1>1. /\ all \in Seq(Byte) /\ Len(all) \in Nat /\ Len(ms) \in Nat
        /\ off[0] = 0 /\ off[Len(ms)] = Len(all)
    BY DEF Carries
  <1>2. ASSUME NEW k \in 0 .. Len(ms)
        PROVE  off[k] \in Nat /\ off[k] <= Len(all)
    <2>1. off[k] \in 0 .. Len(all)
      BY DEF Carries
    <2> QED
      BY <1>1, <2>1
  <1>3. ASSUME NEW k \in 0 .. Len(ms), k < Len(ms)
        PROVE  off[k + 1] >= off[k] + 8
    <2>1. PICK q \in 1 .. Len(ms) : q = k + 1 /\ q - 1 = k
      BY <1>1, <1>3
    <2>2. off[q] >= off[q - 1] + 8
      BY DEF Carries
    <2> QED
      BY <2>1, <2>2
  <1> QED
    BY <1>1, <1>2, <1>3

(* The frames from one on end at least eight bytes apart. *)
LEMMA FramesApart ==
    ASSUME NEW all, NEW off, NEW ms, Carries(all, off, ms),
           NEW i \in 0 .. Len(ms), NEW d \in Nat, i + d <= Len(ms)
    PROVE  off[i + d] >= off[i] + 8 * d
  <1> DEFINE T == {e \in Nat : i + e <= Len(ms) => off[i + e] >= off[i] + 8 * e}
  <1>1. /\ Len(ms) \in Nat /\ \A k \in 0 .. Len(ms) : off[k] \in Nat
        /\ \A k \in 0 .. Len(ms) : k < Len(ms) => off[k + 1] >= off[k] + 8
    BY CarriesFacts
  <1>2. 0 \in T
    BY <1>1
  <1>3. ASSUME NEW e \in Nat, e \in T
        PROVE  e + 1 \in T
    <2> SUFFICES ASSUME i + (e + 1) <= Len(ms)
                 PROVE  off[i + (e + 1)] >= off[i] + 8 * (e + 1)
      OBVIOUS
    <2>1. PICK k \in 0 .. Len(ms) : k = i + e /\ k + 1 = i + (e + 1) /\ k < Len(ms)
      BY <1>1
    <2>2. off[k] >= off[i] + 8 * e
      BY <1>3, <2>1
    <2>3. off[k + 1] >= off[k] + 8 /\ off[k] \in Nat /\ off[i] \in Nat
      BY <1>1, <2>1
    <2>4. k + 1 \in 0 .. Len(ms)
      BY <1>1, <2>1
    <2>5. off[k + 1] \in Nat
      BY <1>1, <2>4
    <2>6. off[k + 1] >= off[i] + 8 * (e + 1)
      <3>1. PICK x \in Nat, y \in Nat, z \in Nat : x = off[i] /\ y = off[k] /\ z = off[k + 1]
        BY <2>3, <2>5
      <3>2. z >= y + 8 /\ y >= x + 8 * e
        BY <2>2, <2>3, <3>1
      <3>3. z >= x + 8 * (e + 1)
        BY <3>2
      <3> QED
        BY <3>1, <3>3
    <2> QED
      BY <2>1, <2>6
  <1> HIDE DEF T
  <1>4. d \in T
    BY <1>2, <1>3, NumberInduction
  <1> QED
    BY <1>4 DEF T

(* The frame that stands at the end of another is the next one, once all of  *)
(* it is there.                                                              *)
LEMMA FrameAt ==
    ASSUME NEW all, NEW off, NEW ms, Carries(all, off, ms), NEW p \in 0 .. Len(ms),
           p < Len(ms), NEW n \in off[p + 1] .. Len(all)
    PROVE  NextFrame(Slice(all, off[p], n)) = Found(FrameOf(ms[p + 1]), Slice(all, off[p + 1], n))
  <1>1. /\ all \in Seq(Byte) /\ Len(all) \in Nat /\ Len(ms) \in Nat
        /\ \A k \in 0 .. Len(ms) : off[k] \in Nat /\ off[k] <= Len(all)
        /\ \A k \in 0 .. Len(ms) : k < Len(ms) => off[k + 1] >= off[k] + 8
    BY CarriesFacts
  <1>2. PICK q \in 1 .. Len(ms) : q = p + 1 /\ q - 1 = p /\ q \in 0 .. Len(ms)
    BY <1>1
  <1>3. PICK a, b : a = off[p] /\ b = off[q]
    OBVIOUS
  <1>4. a \in Nat /\ b \in Nat /\ a <= b /\ b <= Len(all) /\ b <= n /\ n <= Len(all) /\ n \in Nat
    BY <1>1, <1>2, <1>3
  <1>5. n \in 0 .. Len(all) /\ b \in 0 .. n /\ a \in 0 .. b /\ b \in 0 .. Len(all)
    BY <1>1, <1>4
  <1>6. PICK x \in Seq(Byte), y \in Seq(Byte) : x = Slice(all, a, b) /\ y = Slice(all, b, n)
    <2>1. Slice(all, a, b) \in Seq(Byte)
      BY <1>1, <1>5, SliceFacts
    <2>2. Slice(all, b, n) \in Seq(Byte)
      BY <1>1, <1>5, SliceFacts
    <2> QED
      BY <2>1, <2>2
  <1>7. Slice(all, a, n) = x \o y
    BY <1>1, <1>5, <1>6, SliceJoin
  <1>8. Undoes(FrameReader, x, FrameOf(ms[q]))
    BY <1>2, <1>3, <1>6 DEF Carries
  <1>9. FrameReader[x \o y] = Found(FrameOf(ms[q]), y)
    BY <1>8 DEF Undoes
  <1>10. x \o y \in Seq(Byte)
    BY JoinFacts
  <1>11. NextFrame(x \o y) = Found(FrameOf(ms[q]), y)
    BY <1>9, <1>10 DEF FrameReader
  <1> QED
    BY <1>2, <1>3, <1>6, <1>7, <1>11

(* The messages before the j-th have come through to the place n. *)
Ends(off, ms, n, j) ==
    j \in 0 .. Len(ms) /\ off[j] <= n /\ (j < Len(ms) => n < off[j + 1])

LEMMA NoFrameAt ==
    ASSUME NEW all, NEW off, NEW ms, Carries(all, off, ms), NEW n \in 0 .. Len(all),
           NEW p, Ends(off, ms, n, p)
    PROVE  NextFrame(Slice(all, off[p], n)) = {}
  <1>1. /\ all \in Seq(Byte) /\ Len(all) \in Nat /\ Len(ms) \in Nat
        /\ off[Len(ms)] = Len(all)
        /\ \A k \in 0 .. Len(ms) : off[k] \in Nat /\ off[k] <= Len(all)
    BY CarriesFacts
  <1>2. p \in 0 .. Len(ms) /\ off[p] <= n /\ (p < Len(ms) => n < off[p + 1])
    BY DEF Ends
  <1>3. PICK a : a = off[p]
    OBVIOUS
  <1>4. a \in Nat /\ a <= n /\ n \in Nat /\ n <= Len(all)
    BY <1>1, <1>2, <1>3
  <1>5. CASE p = Len(ms)
    <2>1. n = Len(all) /\ a = n
      BY <1>1, <1>3, <1>4, <1>5
    <2>2. Slice(all, a, n) = <<>>
      BY <1>1, <2>1, WholeSlice
    <2>3. ReadBytes(HeaderSize, <<>>) = {}
      BY DEF ReadBytes, HeaderSize
    <2>4. NextFrame(<<>>) = {}
      BY <2>3 DEF NextFrame
    <2> QED
      BY <1>3, <2>2, <2>4
  <1>6. CASE p < Len(ms)
    <2>1. PICK q \in 1 .. Len(ms) : q = p + 1 /\ q - 1 = p /\ q \in 0 .. Len(ms)
      BY <1>1, <1>2, <1>6
    <2>2. PICK b : b = off[q]
      OBVIOUS
    <2>3. b \in Nat /\ b <= Len(all) /\ n < b
      BY <1>1, <1>2, <1>6, <2>1, <2>2
    <2>4. b \in 0 .. Len(all) /\ n \in 0 .. b /\ a \in 0 .. n /\ a \in 0 .. b
      BY <1>1, <1>4, <2>3
    <2>5. PICK w \in Seq(Byte) : w = Slice(all, a, b) /\ Len(w) = b - a
      BY <1>1, <2>4, SliceFacts
    <2>6. Take(w, n - a) = Slice(all, a, n)
      BY <1>1, <2>4, <2>5, SliceCut
    <2>7. n - a \in 0 .. Len(w) - 1
      BY <1>4, <2>3, <2>5
    <2>8. Undoes(FrameReader, w, FrameOf(ms[q]))
      BY <1>3, <2>1, <2>2, <2>5 DEF Carries
    <2>9. FrameReader[Take(w, n - a)] = {}
      BY <2>7, <2>8 DEF Undoes
    <2>10. PICK x \in Seq(Byte) : x = Slice(all, a, n)
      BY <1>1, <2>4, SliceFacts
    <2>11. NextFrame(x) = {}
      BY <2>6, <2>9, <2>10 DEF FrameReader
    <2> QED
      BY <1>3, <2>10, <2>11
  <1> QED
    BY <1>1, <1>2, <1>5, <1>6

(* The rounds of the loop that takes frames out of a buffer *)
Round(x) ==
    UNION {IF NextFrame(r[2]) = {} THEN {r}
           ELSE {<<Append(r[1], f[1]), f[2]>> : f \in NextFrame(r[2])} : r \in x}

LEMMA RoundOf ==
    ASSUME NEW fs, NEW rest
    PROVE  /\ NextFrame(rest) = {} => Round(Found(fs, rest)) = Found(fs, rest)
           /\ \A f, more : NextFrame(rest) = Found(f, more) =>
                Round(Found(fs, rest)) = Found(Append(fs, f), more)
  <1>1. PICK A : A = NextFrame(rest)
    OBVIOUS
  <1>2. Round(Found(fs, rest)) = IF A = {} THEN {<<fs, rest>>}
                                 ELSE {<<Append(fs, f[1]), f[2]>> : f \in A}
    BY <1>1 DEF Round, Found
  <1>3. ASSUME NEW f, NEW more, A = Found(f, more)
        PROVE  Round(Found(fs, rest)) = Found(Append(fs, f), more)
    <2>1. A = {<<f, more>>} /\ A # {}
      BY <1>3 DEF Found
    <2>2. {<<Append(fs, g[1]), g[2]>> : g \in A} = {<<Append(fs, f), more>>}
      BY <2>1
    <2> QED
      BY <1>2, <2>1, <2>2 DEF Found
  <1>4. A = {} => Round(Found(fs, rest)) = Found(fs, rest)
    BY <1>2 DEF Found
  <1> QED
    BY <1>1, <1>3, <1>4

Rounds(h, buffer, n) ==
    h[0] = Found(<<>>, buffer) /\ \A k \in 1 .. n : h[k] = Round(h[k - 1])

LEMMA TakenInRounds ==
    ASSUME NEW buffer, NEW n \in Nat, n = Len(buffer) \div HeaderSize
    PROVE  \E h : Rounds(h, buffer, n) /\ TakeFrames(buffer) = h[n]
  <1> DEFINE first == {<< <<>>, buffer >>}
             Follows(h, m) == h = [k \in 0 .. m |-> IF k = 0 THEN first ELSE Round(h[k - 1])]
  <1>1. \E h : Follows(h, n)
    <2> DEFINE T == {m \in Nat : \E h : Follows(h, m)}
    <2> HIDE DEF first
    <2>1. 0 \in T
      <3> DEFINE h == [k \in 0 .. 0 |-> first]
      <3>1. Follows(h, 0)
        OBVIOUS
      <3> QED
        BY <3>1
    <2>2. ASSUME NEW m \in Nat, m \in T
          PROVE  m + 1 \in T
      <3>1. PICK g : Follows(g, m)
        BY <2>2
      <3> DEFINE h == [k \in 0 .. m + 1 |-> IF k = m + 1 THEN Round(g[m]) ELSE g[k]]
      <3>2. /\ g[0] = first
            /\ \A k \in 1 .. m : g[k] = Round(g[k - 1])
        <4>1. \A k \in 0 .. m : g[k] = IF k = 0 THEN first ELSE Round(g[k - 1])
          BY <3>1
        <4>2. 0 \in 0 .. m /\ \A k \in 1 .. m : k \in 0 .. m /\ k # 0
          OBVIOUS
        <4> QED
          BY <4>1, <4>2
      <3>3. /\ h[m + 1] = Round(g[m])
            /\ \A k \in 0 .. m : h[k] = g[k]
        OBVIOUS
      <3>4. h = [k \in 0 .. m + 1 |-> h[k]]
        OBVIOUS
      <3> HIDE DEF h
      <3>5. ASSUME NEW k \in 0 .. m + 1
            PROVE  h[k] = IF k = 0 THEN first ELSE Round(h[k - 1])
        <4>1. CASE k = 0
          <5>1. 0 \in 0 .. m /\ h[0] = g[0]
            BY <3>3
          <5> QED
            BY <3>2, <4>1, <5>1
        <4>2. CASE k \in 1 .. m
          <5>1. k - 1 \in 0 .. m /\ k \in 0 .. m /\ k # 0
            BY <4>2
          <5> QED
            BY <3>2, <3>3, <4>2, <5>1
        <4>3. CASE k = m + 1
          <5>1. k - 1 = m /\ m \in 0 .. m /\ k # 0
            BY <4>3
          <5> QED
            BY <3>3, <4>3, <5>1
        <4> QED
          BY <4>1, <4>2, <4>3
      <3>6. Follows(h, m + 1)
        BY <3>4, <3>5
      <3> HIDE DEF Follows
      <3> QED
        BY <3>6
    <2> HIDE DEF T
    <2>3. n \in T
      BY <2>1, <2>2, NumberInduction
    <2> QED
      BY <2>3 DEF T
  <1>2. PICK h : h = CHOOSE g : Follows(g, n)
    OBVIOUS
  <1>3. Follows(h, n)
    <2> HIDE DEF Follows
    <2> QED
      BY <1>1, <1>2
  <1>4. TakeFrames(buffer) = h[n]
    BY <1>2 DEF TakeFrames, Round
  <1>5. Rounds(h, buffer, n)
    <2> HIDE DEF first
    <2>1. \A k \in 0 .. n : h[k] = IF k = 0 THEN first ELSE Round(h[k - 1])
      BY <1>3
    <2>2. 0 \in 0 .. n /\ \A k \in 1 .. n : k \in 0 .. n /\ k # 0
      OBVIOUS
    <2>3. h[0] = first /\ \A k \in 1 .. n : h[k] = Round(h[k - 1])
      BY <2>1, <2>2
    <2> QED
      BY <2>3 DEF Rounds, Found, first
  <1> QED
    BY <1>4, <1>5

(* The frames of the messages after the j-th, up to the p-th *)
FramesFrom(ms, j, p) == [k \in 1 .. p - j |-> FrameOf(ms[j + k])]

FrameSet(ms) == {FrameOf(ms[k]) : k \in Nat}

LEMMA FramesFromFacts ==
    ASSUME NEW ms, NEW p \in Nat, NEW j \in 0 .. p
    PROVE  /\ FramesFrom(ms, j, p) \in Seq(FrameSet(ms))
           /\ Len(FramesFrom(ms, j, p)) = p - j /\ DOMAIN FramesFrom(ms, j, p) = 1 .. p - j
           /\ \A k \in 1 .. p - j : FramesFrom(ms, j, p)[k] = FrameOf(ms[j + k])
  <1>1. PICK d \in Nat : d = p - j
    <2>1. p - j \in Nat
      OBVIOUS
    <2> QED
      BY <2>1
  <1>2. PICK fs : fs = [k \in 1 .. d |-> FrameOf(ms[j + k])]
    OBVIOUS
  <1>3. \A k \in 1 .. d : fs[k] = FrameOf(ms[j + k])
    BY <1>2
  <1>4. \A k \in 1 .. d : fs[k] \in FrameSet(ms)
    <2>1. \A k \in 1 .. d : j + k \in Nat
      OBVIOUS
    <2> QED
      BY <1>3, <2>1 DEF FrameSet
  <1>5. fs = [k \in 1 .. d |-> fs[k]]
    BY <1>2
  <1>6. fs \in Seq(FrameSet(ms)) /\ Len(fs) = d /\ DOMAIN fs = 1 .. d
    <2>1. fs \in [1 .. d -> FrameSet(ms)]
      BY <1>4, <1>5
    <2> QED
      BY <2>1
  <1>7. fs = FramesFrom(ms, j, p)
    BY <1>1, <1>2 DEF FramesFrom
  <1> QED
    BY <1>1, <1>3, <1>6, <1>7

LEMMA FramesFromGrow ==
    ASSUME NEW ms, NEW p \in Nat, NEW j \in 0 .. p
    PROVE  Append(FramesFrom(ms, j, p), FrameOf(ms[p + 1])) = FramesFrom(ms, j, p + 1)
  <1>1. PICK F : F = FrameSet(ms)
    OBVIOUS
  <1>2. PICK d \in Nat : d = p - j /\ d + 1 = (p + 1) - j /\ j + (d + 1) = p + 1
    <2>1. p - j \in Nat /\ (p - j) + 1 = (p + 1) - j /\ j + ((p - j) + 1) = p + 1
      OBVIOUS
    <2> QED
      BY <2>1
  <1>3. PICK t \in Seq(F) : /\ t = FramesFrom(ms, j, p) /\ Len(t) = d
                            /\ \A k \in 1 .. d : t[k] = FrameOf(ms[j + k])
    <2>1. /\ FramesFrom(ms, j, p) \in Seq(FrameSet(ms))
          /\ Len(FramesFrom(ms, j, p)) = p - j
          /\ \A k \in 1 .. p - j : FramesFrom(ms, j, p)[k] = FrameOf(ms[j + k])
      BY FramesFromFacts
    <2> QED
      BY <1>1, <1>2, <2>1, Zenon
  <1>4. PICK s \in Seq(F) : /\ s = FramesFrom(ms, j, p + 1) /\ Len(s) = d + 1
                            /\ \A k \in 1 .. d + 1 : s[k] = FrameOf(ms[j + k])
    <2>1. p + 1 \in Nat /\ j \in 0 .. p + 1
      OBVIOUS
    <2>2. /\ FramesFrom(ms, j, p + 1) \in Seq(FrameSet(ms))
          /\ Len(FramesFrom(ms, j, p + 1)) = (p + 1) - j
          /\ \A k \in 1 .. (p + 1) - j : FramesFrom(ms, j, p + 1)[k] = FrameOf(ms[j + k])
      BY <2>1, FramesFromFacts
    <2> QED
      BY <1>1, <1>2, <2>2, Zenon
  <1>5. PICK e \in F : e = FrameOf(ms[p + 1])
    <2>1. p + 1 \in Nat
      OBVIOUS
    <2> QED
      BY <1>1, <2>1 DEF FrameSet
  <1>6. /\ Append(t, e) \in Seq(F) /\ Len(Append(t, e)) = d + 1
        /\ Append(t, e)[d + 1] = e
        /\ \A i \in 1 .. d : Append(t, e)[i] = t[i]
    <2>1. Len(t) = d
      BY <1>3
    <2> QED
      BY <2>1, AppendProperties
  <1>7. ASSUME NEW i \in 1 .. d + 1
        PROVE  s[i] = Append(t, e)[i]
    <2>1. CASE i = d + 1
      BY <1>2, <1>4, <1>5, <1>6, <2>1
    <2>2. CASE i # d + 1
      <3>1. i \in 1 .. d
        BY <2>2
      <3> QED
        BY <1>3, <1>4, <1>6, <3>1
    <2> QED
      BY <2>1, <2>2
  <1>8. s = Append(t, e)
    BY <1>4, <1>6, <1>7, SeqEqual
  <1> QED
    BY <1>3, <1>4, <1>5, <1>8

(* After k rounds either k frames have been taken or all there are. *)
TakenUpTo(x, all, off, ms, n, j, k, p) ==
    /\ p \in 0 .. Len(ms) /\ j <= p /\ off[p] <= n
    /\ p = j + k \/ Ends(off, ms, n, p)
    /\ x = Found(FramesFrom(ms, j, p), Slice(all, off[p], n))

LEMMA AnotherRound ==
    ASSUME NEW all, NEW off, NEW ms, Carries(all, off, ms), NEW n \in 0 .. Len(all),
           NEW j \in Nat, NEW k \in Nat, NEW p, NEW x, TakenUpTo(x, all, off, ms, n, j, k, p)
    PROVE  \E q : TakenUpTo(Round(x), all, off, ms, n, j, k + 1, q)
  <1>1. /\ all \in Seq(Byte) /\ Len(all) \in Nat /\ Len(ms) \in Nat
        /\ \A i \in 0 .. Len(ms) : off[i] \in Nat /\ off[i] <= Len(all)
    BY CarriesFacts
  <1>2. /\ p \in 0 .. Len(ms) /\ j <= p /\ off[p] <= n
        /\ p = j + k \/ Ends(off, ms, n, p)
    BY DEF TakenUpTo
  <1>3. PICK fs, rest : /\ fs = FramesFrom(ms, j, p) /\ rest = Slice(all, off[p], n)
                        /\ x = Found(fs, rest)
    BY DEF TakenUpTo
  <1>4. CASE Ends(off, ms, n, p)
    <2>1. NextFrame(rest) = {}
      BY <1>3, <1>4, NoFrameAt
    <2>2. Round(x) = x
      BY <1>3, <2>1, RoundOf
    <2>3. TakenUpTo(x, all, off, ms, n, j, k + 1, p)
      BY <1>4 DEF TakenUpTo
    <2> QED
      BY <2>2, <2>3
  <1>5. CASE ~ Ends(off, ms, n, p)
    <2>1. p = j + k /\ p < Len(ms) /\ off[p + 1] <= n
      <3>1. p + 1 \in 0 .. Len(ms) \/ p = Len(ms)
        BY <1>1, <1>2
      <3> QED
        BY <1>1, <1>2, <1>5, <3>1 DEF Ends
    <2>2. p + 1 \in 0 .. Len(ms) /\ j <= p + 1 /\ p + 1 = j + (k + 1) /\ p \in Nat /\ j \in 0 .. p
      BY <1>1, <1>2, <2>1
    <2>3. n \in off[p + 1] .. Len(all)
      BY <1>1, <2>1, <2>2
    <2>4. NextFrame(rest) = Found(FrameOf(ms[p + 1]), Slice(all, off[p + 1], n))
      BY <1>2, <1>3, <2>1, <2>3, FrameAt
    <2>5. Round(x) = Found(Append(fs, FrameOf(ms[p + 1])), Slice(all, off[p + 1], n))
      BY <1>3, <2>4, RoundOf
    <2>6. Append(fs, FrameOf(ms[p + 1])) = FramesFrom(ms, j, p + 1)
      BY <1>3, <2>2, FramesFromGrow
    <2>7. TakenUpTo(Round(x), all, off, ms, n, j, k + 1, p + 1)
      BY <2>1, <2>2, <2>5, <2>6 DEF TakenUpTo
    <2> QED
      BY <2>7
  <1> QED
    BY <1>4, <1>5

(* tryDecode in a loop takes every frame that is there out of the buffer,    *)
(* and leaves the bytes after the last of them.                              *)
LEMMA FramesTaken ==
    ASSUME NEW all, NEW off, NEW ms, Carries(all, off, ms), NEW n \in 0 .. Len(all),
           NEW j \in 0 .. Len(ms), off[j] <= n
    PROVE  \E i : /\ Ends(off, ms, n, i) /\ j <= i
                  /\ TakeFrames(Slice(all, off[j], n))
                        = Found(FramesFrom(ms, j, i), Slice(all, off[i], n))
  <1>1. /\ all \in Seq(Byte) /\ Len(all) \in Nat /\ Len(ms) \in Nat
        /\ \A i \in 0 .. Len(ms) : off[i] \in Nat /\ off[i] <= Len(all)
    BY CarriesFacts
  <1>2. PICK a : a = off[j]
    OBVIOUS
  <1>3. a \in Nat /\ n \in Nat /\ a <= n /\ n <= Len(all) /\ j \in Nat /\ a \in 0 .. n
    BY <1>1, <1>2
  <1>4. PICK buffer \in Seq(Byte) : buffer = Slice(all, a, n) /\ Len(buffer) = n - a
    BY <1>1, <1>3, SliceFacts
  <1>5. PICK most \in Nat : most = Len(buffer) \div HeaderSize /\ n - a < 8 * (most + 1)
    <2>1. PICK d \in Nat : d = n - a
      <3>1. n - a \in Nat
        BY <1>3
      <3> QED
        BY <3>1
    <2>2. d \div 8 \in Nat /\ d < 8 * ((d \div 8) + 1)
      OBVIOUS
    <2> QED
      BY <1>4, <2>1, <2>2 DEF HeaderSize
  <1>6. PICK h : Rounds(h, buffer, most) /\ TakeFrames(buffer) = h[most]
    BY <1>5, TakenInRounds
  <1> DEFINE T == {k \in Nat : k <= most => \E p : TakenUpTo(h[k], all, off, ms, n, j, k, p)}
  <1>7. 0 \in T
    <2>1. h[0] = Found(<<>>, buffer)
      BY <1>6 DEF Rounds
    <2>2. FramesFrom(ms, j, j) = <<>>
      <3>1. j \in 0 .. j
        BY <1>3
      <3>2. FramesFrom(ms, j, j) \in Seq(FrameSet(ms)) /\ Len(FramesFrom(ms, j, j)) = j - j
        BY <1>3, <3>1, FramesFromFacts
      <3>3. j - j = 0
        BY <1>3
      <3> QED
        BY <3>2, <3>3, EmptySeq
    <2>3. j <= j /\ j = j + 0
      BY <1>3
    <2>4. TakenUpTo(h[0], all, off, ms, n, j, 0, j)
      BY <1>2, <1>4, <2>1, <2>2, <2>3 DEF TakenUpTo
    <2> QED
      BY <2>4
  <1>8. ASSUME NEW k \in Nat, k \in T
        PROVE  k + 1 \in T
    <2> SUFFICES ASSUME k + 1 <= most
                 PROVE  \E p : TakenUpTo(h[k + 1], all, off, ms, n, j, k + 1, p)
      OBVIOUS
    <2>1. k + 1 \in 1 .. most /\ (k + 1) - 1 = k /\ k <= most
      OBVIOUS
    <2>2. PICK p : TakenUpTo(h[k], all, off, ms, n, j, k, p)
      BY <1>8, <2>1
    <2>3. h[k + 1] = Round(h[k])
      BY <1>6, <2>1 DEF Rounds
    <2>4. \E q : TakenUpTo(Round(h[k]), all, off, ms, n, j, k + 1, q)
      BY <1>3, <2>2, AnotherRound
    <2> QED
      BY <2>3, <2>4
  <1> HIDE DEF T
  <1>9. most \in T
    BY <1>7, <1>8, NumberInduction
  <1>10. PICK i : TakenUpTo(h[most], all, off, ms, n, j, most, i)
    BY <1>9 DEF T
  <1>11. /\ i \in 0 .. Len(ms) /\ j <= i /\ off[i] <= n
         /\ i = j + most \/ Ends(off, ms, n, i)
         /\ h[most] = Found(FramesFrom(ms, j, i), Slice(all, off[i], n))
    BY <1>10 DEF TakenUpTo
  <1>12. Ends(off, ms, n, i)
    <2> SUFFICES ASSUME i = j + most, i < Len(ms), ~ (n < off[i + 1])
                 PROVE  FALSE
      BY <1>11 DEF Ends
    <2>1. i + 1 \in 0 .. Len(ms) /\ i + 1 = j + (most + 1) /\ most + 1 \in Nat
          /\ j + (most + 1) <= Len(ms)
      BY <1>1, <1>3, <1>11
    <2>2. off[j + (most + 1)] >= off[j] + 8 * (most + 1)
      BY <2>1, FramesApart
    <2>3. PICK b : b = off[i + 1]
      OBVIOUS
    <2>4. b \in Nat /\ b <= n
      BY <1>1, <1>3, <2>1, <2>3
    <2>5. PICK x \in Nat : x = 8 * (most + 1)
      <3>1. 8 * (most + 1) \in Nat
        OBVIOUS
      <3> QED
        BY <3>1
    <2>6. b >= a + x
      BY <1>2, <2>1, <2>2, <2>3, <2>5
    <2>7. n - a < x
      BY <1>5, <2>5
    <2> QED
      BY <1>3, <2>4, <2>6, <2>7
  <1> QED
    BY <1>2, <1>4, <1>6, <1>11, <1>12

-----------------------------------------------------------------------------
(* What is received *)

(* The first j messages, each as it comes out of its decoder *)
KeptFirst(ms, j) == [k \in 1 .. j |-> {AsKept(ms[k])}]

KeptSet(ms) == {{AsKept(ms[k])} : k \in Nat}

LEMMA KeptFirstFacts ==
    ASSUME NEW ms, NEW j \in Nat
    PROVE  /\ KeptFirst(ms, j) \in Seq(KeptSet(ms))
           /\ Len(KeptFirst(ms, j)) = j /\ DOMAIN KeptFirst(ms, j) = 1 .. j
           /\ \A k \in 1 .. j : KeptFirst(ms, j)[k] = {AsKept(ms[k])}
  <1>1. PICK v : v = KeptFirst(ms, j)
    OBVIOUS
  <1>2. \A k \in 1 .. j : v[k] = {AsKept(ms[k])} /\ k \in Nat
    BY <1>1 DEF KeptFirst
  <1>3. v = [k \in 1 .. j |-> v[k]]
    BY <1>1 DEF KeptFirst
  <1>4. \A k \in 1 .. j : v[k] \in KeptSet(ms)
    BY <1>2 DEF KeptSet
  <1>5. v \in [1 .. j -> KeptSet(ms)]
    BY <1>3, <1>4
  <1>6. v \in Seq(KeptSet(ms)) /\ Len(v) = j /\ DOMAIN v = 1 .. j
    BY <1>5
  <1> QED
    BY <1>1, <1>2, <1>6

(* The messages that come out of the frames go on where those before them    *)
(* stopped.                                                                  *)
LEMMA KeptOn ==
    ASSUME NEW ms, NEW i \in Nat, NEW j \in 0 .. i,
           \A k \in 1 .. i : IsMessage(ms[k]), NEW fs, fs = FramesFrom(ms, j, i)
    PROVE  KeptFirst(ms, j) \o [k \in DOMAIN fs |-> Dispatched(fs[k])] = KeptFirst(ms, i)
  <1>1. PICK d \in Nat : d = i - j /\ i = j + d
    <2>1. i - j \in Nat /\ i = j + (i - j)
      OBVIOUS
    <2> QED
      BY <2>1
  <1>2. j \in Nat /\ j <= i
    OBVIOUS
  <1>3. DOMAIN fs = 1 .. d /\ \A k \in 1 .. d : fs[k] = FrameOf(ms[j + k])
    <2>1. /\ DOMAIN FramesFrom(ms, j, i) = 1 .. i - j
          /\ \A k \in 1 .. i - j : FramesFrom(ms, j, i)[k] = FrameOf(ms[j + k])
      BY FramesFromFacts
    <2> QED
      BY <1>1, <2>1, Zenon
  <1>4. PICK S : S = KeptSet(ms)
    OBVIOUS
  <1>5. PICK y : y = [k \in DOMAIN fs |-> Dispatched(fs[k])]
    OBVIOUS
  <1>6. ASSUME NEW k \in 1 .. d
        PROVE  y[k] = {AsKept(ms[j + k])} /\ y[k] \in S
    <2>1. j + k \in 1 .. i /\ j + k \in Nat
      BY <1>1, <1>2
    <2>2. y[k] = Dispatched(FrameOf(ms[j + k]))
      BY <1>3, <1>5
    <2>3. y[k] = {AsKept(ms[j + k])}
      BY <2>1, <2>2, DispatchedAsKept
    <2> QED
      BY <1>4, <2>1, <2>3 DEF KeptSet
  <1>7. y \in Seq(S) /\ Len(y) = d
    <2>1. y = [k \in 1 .. d |-> y[k]]
      BY <1>3, <1>5
    <2>2. y \in [1 .. d -> S]
      BY <1>6, <2>1
    <2> QED
      BY <2>2
  <1>8. PICK x \in Seq(S) : /\ x = KeptFirst(ms, j) /\ Len(x) = j
                            /\ \A k \in 1 .. j : x[k] = {AsKept(ms[k])}
    <2>1. /\ KeptFirst(ms, j) \in Seq(KeptSet(ms)) /\ Len(KeptFirst(ms, j)) = j
          /\ \A k \in 1 .. j : KeptFirst(ms, j)[k] = {AsKept(ms[k])}
      BY <1>2, KeptFirstFacts
    <2> QED
      BY <1>4, <2>1, Zenon
  <1>9. PICK z \in Seq(S) : /\ z = KeptFirst(ms, i) /\ Len(z) = i
                            /\ \A k \in 1 .. i : z[k] = {AsKept(ms[k])}
    <2>1. /\ KeptFirst(ms, i) \in Seq(KeptSet(ms)) /\ Len(KeptFirst(ms, i)) = i
          /\ \A k \in 1 .. i : KeptFirst(ms, i)[k] = {AsKept(ms[k])}
      BY KeptFirstFacts
    <2> QED
      BY <1>4, <2>1, Zenon
  <1>10. PICK xy \in Seq(S) : xy = x \o y /\ Len(xy) = i
    <2>1. x \o y \in Seq(S) /\ Len(x \o y) = Len(x) + Len(y)
      BY <1>7, JoinFacts
    <2>2. Len(x) + Len(y) = i
      BY <1>1, <1>7, <1>8
    <2> QED
      BY <2>1, <2>2, Zenon
  <1>11. /\ \A k \in 1 .. j : xy[k] = x[k]
         /\ \A k \in 1 .. d : xy[j + k] = y[k]
    <2>1. /\ \A k \in 1 .. Len(x) : (x \o y)[k] = x[k]
          /\ \A k \in 1 .. Len(y) : (x \o y)[Len(x) + k] = y[k]
      BY <1>7, JoinFacts
    <2>2. Len(x) = j /\ Len(y) = d
      BY <1>7, <1>8
    <2> QED
      BY <1>10, <2>1, <2>2
  <1>12. ASSUME NEW k \in 1 .. i
         PROVE  xy[k] = z[k]
    <2>1. z[k] = {AsKept(ms[k])}
      BY <1>9
    <2>2. CASE k <= j
      <3>1. k \in 1 .. j
        BY <1>2, <2>2
      <3> QED
        BY <1>8, <1>11, <2>1, <3>1
    <2>3. CASE k > j
      <3>1. PICK q \in 1 .. d : k = j + q
        <4>1. k - j \in 1 .. d /\ k = j + (k - j)
          BY <1>1, <1>2, <2>3
        <4> QED
          BY <4>1
      <3> QED
        BY <1>6, <1>11, <2>1, <3>1
    <2> QED
      BY <1>2, <2>2, <2>3
  <1>13. xy = z
    BY <1>9, <1>10, <1>12, SeqEqual
  <1> QED
    BY <1>5, <1>8, <1>9, <1>10, <1>13

-----------------------------------------------------------------------------
(* The connections: where each stands in the bytes its client sent *)

(* A connection is closed or has come to a place in its stream. *)
Closed == -1

(* The event e takes the connection c from a to b. *)
Moves(e, c, all, a, b) ==
    \/ e.connection # c /\ b = a
    \/ e.connection = c /\ e.type = "Accept" /\ a = Closed /\ b = 0
    \/ e.connection = c /\ e.type = "Disconnect" /\ b = Closed
    \/ e.connection = c /\ e.type = "Read" /\ a = Closed /\ b = Closed
    \/ /\ e.connection = c /\ e.type = "Read"
       /\ a \in Nat /\ b \in Nat /\ a <= b /\ b <= Len(all)
       /\ e.payload = Slice(all, a, b)

(* The events take it from a to b, one after the other. *)
Flow(events, c, all, a, b) ==
    \E g : /\ g[0] = a /\ g[Len(events)] = b
           /\ \A k \in 1 .. Len(events) : Moves(events[k], c, all, g[k - 1], g[k])

IsList(s) == \E S : s \in Seq(S)

LEMMA FlowEnd ==
    ASSUME NEW events, NEW c, NEW all, NEW a, NEW b, NEW e, NEW b2,
           IsList(events), Flow(events, c, all, a, b), Moves(e, c, all, b, b2)
    PROVE  IsList(Append(events, e)) /\ Flow(Append(events, e), c, all, a, b2)
  <1>1. PICK S : events \in Seq(S)
    BY DEF IsList
  <1>2. PICK V : e \in V /\ S \subseteq V
    <2>1. e \in S \cup {e} /\ S \subseteq S \cup {e}
      OBVIOUS
    <2> QED
      BY <2>1
  <1>3. events \in Seq(V)
    BY <1>1, <1>2
  <1>4. PICK n \in Nat : n = Len(events)
    BY <1>1
  <1>5. PICK more \in Seq(V) : /\ more = Append(events, e) /\ Len(more) = n + 1
                               /\ \A k \in 1 .. n : more[k] = events[k]
                               /\ more[n + 1] = e
    <2>1. /\ Append(events, e) \in Seq(V) /\ Len(Append(events, e)) = Len(events) + 1
          /\ \A k \in 1 .. Len(events) : Append(events, e)[k] = events[k]
          /\ Append(events, e)[Len(events) + 1] = e
      BY <1>2, <1>3, AppendProperties
    <2> QED
      BY <1>4, <2>1, Zenon
  <1>6. PICK g : /\ g[0] = a /\ g[n] = b
                 /\ \A k \in 1 .. n : Moves(events[k], c, all, g[k - 1], g[k])
    BY <1>4 DEF Flow
  <1> DEFINE f == [k \in 0 .. n + 1 |-> IF k = n + 1 THEN b2 ELSE g[k]]
  <1>7. f[n + 1] = b2 /\ \A k \in 0 .. n : f[k] = g[k]
    OBVIOUS
  <1> HIDE DEF f
  <1>8. f[0] = a /\ f[n] = b
    BY <1>6, <1>7
  <1>9. ASSUME NEW k \in 1 .. n + 1
        PROVE  Moves(more[k], c, all, f[k - 1], f[k])
    <2>1. CASE k = n + 1
      <3>1. k - 1 = n
        BY <2>1
      <3>2. more[k] = e /\ f[k - 1] = b /\ f[k] = b2
        BY <1>5, <1>7, <1>8, <2>1, <3>1
      <3> QED
        BY <3>2, Zenon
    <2>2. CASE k # n + 1
      <3>1. k \in 1 .. n /\ k - 1 \in 0 .. n /\ k \in 0 .. n
        BY <2>2
      <3>2. more[k] = events[k] /\ f[k - 1] = g[k - 1] /\ f[k] = g[k]
        BY <1>5, <1>7, <3>1
      <3>3. Moves(events[k], c, all, g[k - 1], g[k])
        BY <1>6, <3>1
      <3> QED
        BY <3>2, <3>3, Zenon
    <2> QED
      BY <2>1, <2>2
  <1>10. Flow(more, c, all, a, b2)
    <2>1. Len(more) = n + 1
      BY <1>5
    <2> QED
      BY <1>7, <1>8, <1>9, <2>1, Zenon DEF Flow
  <1>11. IsList(more)
    BY DEF IsList
  <1> QED
    BY <1>5, <1>10, <1>11

LEMMA FlowStart ==
    ASSUME NEW events, NEW c, NEW all, NEW a, NEW b,
           IsList(events), Flow(events, c, all, a, b), events # <<>>
    PROVE  /\ IsList(Tail(events))
           /\ \E m : Moves(Head(events), c, all, a, m) /\ Flow(Tail(events), c, all, m, b)
  <1>1. PICK S : events \in Seq(S)
    BY DEF IsList
  <1>2. PICK n \in Nat : n = Len(events) /\ n >= 1
    BY <1>1, EmptySeq
  <1>3. PICK rest \in Seq(S) : /\ rest = Tail(events) /\ Len(rest) = n - 1
                               /\ \A k \in 1 .. n - 1 : rest[k] = events[k + 1]
    <2>1. /\ Tail(events) \in Seq(S) /\ Len(Tail(events)) = Len(events) - 1
          /\ \A k \in 1 .. Len(Tail(events)) : Tail(events)[k] = events[k + 1]
      BY <1>1, HeadTailProperties
    <2> QED
      BY <1>2, <2>1, Zenon
  <1>4. Head(events) = events[1]
    BY <1>1, HeadTailProperties
  <1>5. PICK g : /\ g[0] = a /\ g[n] = b
                 /\ \A k \in 1 .. n : Moves(events[k], c, all, g[k - 1], g[k])
    BY <1>2 DEF Flow
  <1>6. PICK m : m = g[1]
    OBVIOUS
  <1>7. Moves(Head(events), c, all, a, m)
    <2>1. 1 \in 1 .. n /\ 1 - 1 = 0
      BY <1>2
    <2>2. Moves(events[1], c, all, g[1 - 1], g[1])
      BY <1>5, <2>1
    <2> QED
      BY <1>4, <1>5, <1>6, <2>1, <2>2
  <1> DEFINE f == [k \in 0 .. n - 1 |-> g[k + 1]]
  <1>8. \A k \in 0 .. n - 1 : f[k] = g[k + 1]
    OBVIOUS
  <1> HIDE DEF f
  <1>9. f[0] = m /\ f[n - 1] = b
    <2>1. 0 \in 0 .. n - 1 /\ n - 1 \in 0 .. n - 1 /\ (n - 1) + 1 = n /\ 0 + 1 = 1
      BY <1>2
    <2>2. f[0] = g[0 + 1] /\ f[n - 1] = g[(n - 1) + 1]
      BY <1>8, <2>1
    <2> QED
      BY <1>5, <1>6, <2>1, <2>2
  <1>10. ASSUME NEW k \in 1 .. n - 1
         PROVE  Moves(rest[k], c, all, f[k - 1], f[k])
    <2>1. /\ k \in 0 .. n - 1 /\ k - 1 \in 0 .. n - 1 /\ k + 1 \in 1 .. n
          /\ (k - 1) + 1 = k /\ (k + 1) - 1 = k
      BY <1>2
    <2>2. f[k - 1] = g[(k - 1) + 1] /\ f[k] = g[k + 1] /\ rest[k] = events[k + 1]
      BY <1>3, <1>8, <2>1
    <2>3. Moves(events[k + 1], c, all, g[(k + 1) - 1], g[k + 1])
      BY <1>5, <2>1
    <2> QED
      BY <2>1, <2>2, <2>3
  <1>11. Flow(rest, c, all, m, b)
    <2>1. Len(rest) = n - 1
      BY <1>3
    <2> QED
      BY <1>9, <1>10, <2>1, Zenon DEF Flow
  <1>12. IsList(rest)
    BY DEF IsList
  <1> QED
    BY <1>3, <1>7, <1>11, <1>12

(* The bytes that are still to be read on c are those from b on. *)
StreamAt(str, c, all, b) ==
    \/ b = Closed /\ c \notin DOMAIN str
    \/ b \in 0 .. Len(all) /\ c \in DOMAIN str /\ str[c] = Slice(all, b, Len(all))

(* The decoder of c has got everything up to a: the first messages are out,  *)
(* and what has arrived of the next one is in the buffer.                    *)
DecoderAt(dec, got, c, ms, a) ==
    \/ a = Closed /\ c \notin DOMAIN dec /\ \E j \in 0 .. Len(ms) : got = KeptFirst(ms, j)
    \/ /\ a \in 0 .. Len(Bytes(ms)) /\ c \in DOMAIN dec
       /\ \E j : /\ Ends(Offsets(ms), ms, a, j) /\ got = KeptFirst(ms, j)
                 /\ dec[c] = Slice(Bytes(ms), Offsets(ms)[j], a)

(* Between the decoder and the stream of a connection are its events. *)
ConnectionInv(c, ms, str, events, dec, got) ==
    \E a, b : /\ DecoderAt(dec, got, c, ms, a)
              /\ Flow(events, c, Bytes(ms), a, b)
              /\ StreamAt(str, c, Bytes(ms), b)

WireInv ==
    /\ ScriptChosen /\ IsList(pending)
    /\ received = [c \in Connections |-> received[c]]
    /\ \A c \in Connections :
        ConnectionInv(c, script[c], stream, pending, decoders, received[c])

(* An event that is added takes the connection to where the stream is now. *)
Follows(e, c, all, str, str2) ==
    \A b : StreamAt(str, c, all, b) =>
        \E b2 : Moves(e, c, all, b, b2) /\ StreamAt(str2, c, all, b2)

LEMMA EventAdded ==
    ASSUME NEW c, NEW ms, NEW str, NEW events, NEW dec, NEW got, NEW e, NEW str2,
           ConnectionInv(c, ms, str, events, dec, got), IsList(events),
           Follows(e, c, Bytes(ms), str, str2)
    PROVE  ConnectionInv(c, ms, str2, Append(events, e), dec, got)
  <1>1. PICK a, b : /\ DecoderAt(dec, got, c, ms, a)
                    /\ Flow(events, c, Bytes(ms), a, b)
                    /\ StreamAt(str, c, Bytes(ms), b)
    BY DEF ConnectionInv
  <1>2. PICK b2 : Moves(e, c, Bytes(ms), b, b2) /\ StreamAt(str2, c, Bytes(ms), b2)
    BY <1>1 DEF Follows
  <1>3. Flow(Append(events, e), c, Bytes(ms), a, b2)
    BY <1>1, <1>2, FlowEnd
  <1> QED
    BY <1>1, <1>2, <1>3 DEF ConnectionInv

(* An event that is handled takes the connection to where its decoder is now. *)
Handles(e, c, ms, dec, got, dec2, got2) ==
    \A a, b : DecoderAt(dec, got, c, ms, a) /\ Moves(e, c, Bytes(ms), a, b)
                => DecoderAt(dec2, got2, c, ms, b)

LEMMA EventHandled ==
    ASSUME NEW c, NEW ms, NEW str, NEW events, NEW dec, NEW got, NEW dec2, NEW got2,
           ConnectionInv(c, ms, str, events, dec, got), IsList(events), events # <<>>,
           Handles(Head(events), c, ms, dec, got, dec2, got2)
    PROVE  ConnectionInv(c, ms, str, Tail(events), dec2, got2)
  <1>1. PICK a, b : /\ DecoderAt(dec, got, c, ms, a)
                    /\ Flow(events, c, Bytes(ms), a, b)
                    /\ StreamAt(str, c, Bytes(ms), b)
    BY DEF ConnectionInv
  <1>2. PICK m : Moves(Head(events), c, Bytes(ms), a, m) /\ Flow(Tail(events), c, Bytes(ms), m, b)
    BY <1>1, FlowStart
  <1>3. DecoderAt(dec2, got2, c, ms, m)
    BY <1>1, <1>2 DEF Handles
  <1> QED
    BY <1>1, <1>2, <1>3 DEF ConnectionInv

LEMMA BytesFacts ==
    ASSUME NEW s \in Scripts, NEW c \in Connections
    PROVE  Bytes(s[c]) \in Seq(Byte) /\ Len(Bytes(s[c])) \in Nat
  BY StreamCarries, CarriesFacts

(* Nothing but the events of a connection moves it. *)
LEMMA OthersStay ==
    ASSUME NEW c, NEW all, NEW e, e.connection # c, NEW str, NEW str2,
           c \in DOMAIN str <=> c \in DOMAIN str2, c \in DOMAIN str => str2[c] = str[c]
    PROVE  Follows(e, c, all, str, str2)
  BY DEF Follows, Moves, StreamAt

LEMMA OtherDecodersStay ==
    ASSUME NEW c, NEW ms, NEW e, e.connection # c, NEW dec, NEW dec2, NEW got, NEW got2,
           c \in DOMAIN dec <=> c \in DOMAIN dec2, c \in DOMAIN dec => dec2[c] = dec[c],
           got2 = got
    PROVE  Handles(e, c, ms, dec, got, dec2, got2)
  <1> SUFFICES ASSUME NEW a, NEW b, DecoderAt(dec, got, c, ms, a), b = a
               PROVE  DecoderAt(dec2, got2, c, ms, b)
    BY DEF Handles, Moves
  <1> QED
    BY DEF DecoderAt

(* enqueueEvent: what the events of a connection do to it *)
LEMMA AcceptFollows ==
    ASSUME NEW c, NEW all \in Seq(Byte), NEW e, e.connection = c, e.type = "Accept",
           NEW str, NEW str2, c \notin DOMAIN str, c \in DOMAIN str2, str2[c] = all
    PROVE  Follows(e, c, all, str, str2)
  <1> SUFFICES ASSUME NEW b, StreamAt(str, c, all, b)
               PROVE  \E b2 : Moves(e, c, all, b, b2) /\ StreamAt(str2, c, all, b2)
    BY DEF Follows
  <1>1. b = Closed
    BY DEF StreamAt
  <1>2. Moves(e, c, all, b, 0)
    BY <1>1 DEF Moves
  <1>3. Slice(all, 0, Len(all)) = all /\ 0 \in 0 .. Len(all)
    BY WholeSlice
  <1>4. StreamAt(str2, c, all, 0)
    BY <1>3 DEF StreamAt
  <1> QED
    BY <1>2, <1>4

LEMMA ReadFollows ==
    ASSUME NEW c, NEW all \in Seq(Byte), NEW e, e.connection = c, e.type = "Read",
           NEW str, NEW str2, c \in DOMAIN str, c \in DOMAIN str2,
           NEW size \in 0 .. Len(str[c]),
           e.payload = Take(str[c], size), str2[c] = Drop(str[c], size)
    PROVE  Follows(e, c, all, str, str2)
  <1> SUFFICES ASSUME NEW b, StreamAt(str, c, all, b)
               PROVE  \E b2 : Moves(e, c, all, b, b2) /\ StreamAt(str2, c, all, b2)
    BY DEF Follows
  <1>1. b \in 0 .. Len(all) /\ str[c] = Slice(all, b, Len(all))
    BY DEF StreamAt
  <1>2. PICK n \in 0 .. Len(all) : n = Len(all) /\ n \in Nat /\ b \in 0 .. n
    BY <1>1
  <1>3. Len(str[c]) = n - b
    <2>1. Len(Slice(all, b, n)) = n - b
      BY <1>2, SliceFacts
    <2> QED
      BY <1>1, <1>2, <2>1
  <1>4. PICK b2 \in Nat : b2 = b + size
    BY <1>1, <1>2, <1>3
  <1>5. b \in Nat /\ b2 \in 0 .. n /\ b \in 0 .. b2 /\ b2 - b = size /\ b <= b2 /\ b2 <= n
    BY <1>1, <1>2, <1>3, <1>4
  <1>6. /\ Take(Slice(all, b, n), b2 - b) = Slice(all, b, b2)
        /\ Drop(Slice(all, b, n), b2 - b) = Slice(all, b2, n)
    BY <1>2, <1>5, SliceCut
  <1>7. e.payload = Slice(all, b, b2) /\ str2[c] = Slice(all, b2, n)
    BY <1>1, <1>2, <1>5, <1>6
  <1>8. Moves(e, c, all, b, b2)
    BY <1>2, <1>5, <1>7 DEF Moves
  <1>9. StreamAt(str2, c, all, b2)
    BY <1>2, <1>5, <1>7 DEF StreamAt
  <1> QED
    BY <1>8, <1>9

LEMMA DisconnectFollows ==
    ASSUME NEW c, NEW all, NEW e, e.connection = c, e.type = "Disconnect",
           NEW str, NEW str2, c \notin DOMAIN str2
    PROVE  Follows(e, c, all, str, str2)
  BY DEF Follows, Moves, StreamAt

LEMMA LateReadFollows ==
    ASSUME NEW c, NEW all, NEW e, e.connection = c, e.type = "Read",
           NEW str, c \notin DOMAIN str
    PROVE  Follows(e, c, all, str, str)
  BY DEF Follows, Moves, StreamAt

(* drain: what the pipeline makes of them *)
LEMMA AcceptHandled ==
    ASSUME NEW s \in Scripts, NEW c \in Connections, NEW e,
           e.connection = c, e.type = "Accept", NEW dec, NEW got
    PROVE  Handles(e, c, s[c], dec, got, Emplace(dec, c, <<>>), <<>>)
  <1>1. PICK ms, all, off, dec2 : /\ ms = s[c] /\ all = Bytes(ms) /\ off = Offsets(ms)
                                  /\ dec2 = Emplace(dec, c, <<>>)
    OBVIOUS
  <1> SUFFICES ASSUME NEW a, NEW b, DecoderAt(dec, got, c, ms, a), Moves(e, c, all, a, b)
               PROVE  DecoderAt(dec2, <<>>, c, ms, b)
    BY <1>1 DEF Handles
  <1>2. a = Closed /\ b = 0
    BY DEF Moves
  <1>3. c \notin DOMAIN dec
    BY <1>2 DEF DecoderAt, Closed
  <1>4. c \in DOMAIN dec2 /\ dec2[c] = <<>>
    <2>1. dec2 = Put(dec, c, <<>>)
      BY <1>1, <1>3 DEF Emplace
    <2> QED
      BY <2>1 DEF Put
  <1>5. Carries(all, off, ms)
    BY <1>1, StreamCarries
  <1>6. /\ all \in Seq(Byte) /\ Len(all) \in Nat /\ Len(ms) \in Nat /\ off[0] = 0
        /\ \A k \in 0 .. Len(ms) : k < Len(ms) => off[k + 1] >= off[k] + 8
    BY <1>5, CarriesFacts
  <1>7. Ends(off, ms, 0, 0)
    <2>1. 0 \in 0 .. Len(ms) /\ (0 < Len(ms) => off[0 + 1] >= 0 + 8)
      BY <1>6
    <2>2. 0 < Len(ms) => 1 \in 0 .. Len(ms)
      BY <1>6
    <2>3. 0 < Len(ms) => off[1] \in Nat
      BY <1>5, <2>2, CarriesFacts
    <2> QED
      BY <1>6, <2>1, <2>3 DEF Ends
  <1>8. Slice(all, 0, 0) = <<>> /\ 0 \in 0 .. Len(all)
    BY <1>6, WholeSlice
  <1>9. KeptFirst(ms, 0) = <<>>
    BY KeptFirstFacts, EmptySeq
  <1> QED
    BY <1>1, <1>2, <1>4, <1>6, <1>7, <1>8, <1>9 DEF DecoderAt

LEMMA DisconnectHandled ==
    ASSUME NEW ms, NEW c, NEW e, e.connection = c, e.type = "Disconnect", NEW dec, NEW got
    PROVE  Handles(e, c, ms, dec, got, Without(dec, {c}), got)
  <1>1. PICK dec2 : dec2 = Without(dec, {c}) /\ c \notin DOMAIN dec2
    <2>1. c \notin DOMAIN Without(dec, {c})
      BY DEF Without, Restrict
    <2> QED
      BY <2>1
  <1> SUFFICES ASSUME NEW a, NEW b, DecoderAt(dec, got, c, ms, a), Moves(e, c, Bytes(ms), a, b)
               PROVE  DecoderAt(dec2, got, c, ms, b)
    BY <1>1 DEF Handles
  <1>2. b = Closed
    BY DEF Moves
  <1>3. \E j \in 0 .. Len(ms) : got = KeptFirst(ms, j)
    BY DEF DecoderAt, Ends
  <1> QED
    BY <1>1, <1>2, <1>3 DEF DecoderAt

LEMMA LateReadHandled ==
    ASSUME NEW ms, NEW c, NEW e, e.connection = c, e.type = "Read",
           NEW dec, c \notin DOMAIN dec, NEW got
    PROVE  Handles(e, c, ms, dec, got, dec, got)
  <1> SUFFICES ASSUME NEW a, NEW b, DecoderAt(dec, got, c, ms, a), Moves(e, c, Bytes(ms), a, b)
               PROVE  b = a
    BY DEF Handles
  <1>1. a = Closed
    BY DEF DecoderAt
  <1> QED
    BY <1>1 DEF Moves, Closed

LEMMA ReadHandled ==
    ASSUME NEW s \in Scripts, NEW c \in Connections, NEW e,
           e.connection = c, e.type = "Read", NEW dec, c \in DOMAIN dec, NEW got,
           NEW taken \in TakeFrames(dec[c] \o e.payload), NEW got2,
           got2 = got \o [k \in DOMAIN taken[1] |-> Dispatched(taken[1][k])]
    PROVE  Handles(e, c, s[c], dec, got, Put(dec, c, taken[2]), got2)
  <1>1. PICK ms, all, off, dec2 : /\ ms = s[c] /\ all = Bytes(ms) /\ off = Offsets(ms)
                                  /\ dec2 = Put(dec, c, taken[2])
    OBVIOUS
  <1> SUFFICES ASSUME NEW a, NEW b, DecoderAt(dec, got, c, ms, a), Moves(e, c, all, a, b)
               PROVE  DecoderAt(dec2, got2, c, ms, b)
    BY <1>1 DEF Handles
  <1>2. a \in 0 .. Len(all)
    BY <1>1 DEF DecoderAt
  <1>3. PICK j : Ends(off, ms, a, j) /\ got = KeptFirst(ms, j) /\ dec[c] = Slice(all, off[j], a)
    BY <1>1 DEF DecoderAt
  <1>4. Carries(all, off, ms)
    BY <1>1, StreamCarries
  <1>5. /\ all \in Seq(Byte) /\ Len(all) \in Nat /\ Len(ms) \in Nat
        /\ \A k \in 0 .. Len(ms) : off[k] \in Nat /\ off[k] <= Len(all)
    BY <1>4, CarriesFacts
  <1>6. /\ a \in Nat /\ b \in Nat /\ a <= b /\ b <= Len(all)
        /\ e.payload = Slice(all, a, b)
    <2>1. a # Closed
      BY <1>2, <1>5 DEF Closed
    <2> QED
      BY <2>1 DEF Moves
  <1>7. j \in 0 .. Len(ms) /\ off[j] <= a
    BY <1>3 DEF Ends
  <1>8. PICK o : o = off[j] /\ o \in Nat
    BY <1>5, <1>7
  <1>9. b \in 0 .. Len(all) /\ a \in 0 .. b /\ o \in 0 .. a /\ o <= b
    BY <1>5, <1>6, <1>7, <1>8
  <1>10. dec[c] \o e.payload = Slice(all, o, b)
    <2>1. Slice(all, o, a) \o Slice(all, a, b) = Slice(all, o, b)
      BY <1>5, <1>9, SliceJoin
    <2> QED
      BY <1>3, <1>6, <1>8, <2>1
  <1>11. PICK i : /\ Ends(off, ms, b, i) /\ j <= i
                  /\ TakeFrames(Slice(all, off[j], b))
                        = Found(FramesFrom(ms, j, i), Slice(all, off[i], b))
    BY <1>4, <1>7, <1>8, <1>9, FramesTaken
  <1>12. taken[1] = FramesFrom(ms, j, i) /\ taken[2] = Slice(all, off[i], b)
    BY <1>8, <1>10, <1>11 DEF Found
  <1>13. i \in 0 .. Len(ms)
    BY <1>11 DEF Ends
  <1>14. i \in Nat /\ j \in 0 .. i
    BY <1>5, <1>7, <1>11, <1>13
  <1>15. \A k \in 1 .. i : IsMessage(ms[k])
    <2>1. \A k \in 1 .. i : k \in 1 .. Len(ms)
      BY <1>5, <1>13
    <2> QED
      BY <1>1, <2>1, ScriptMessages
  <1>16. got2 = KeptFirst(ms, i)
    <2>1. PICK fs : fs = taken[1]
      OBVIOUS
    <2>2. KeptFirst(ms, j) \o [k \in DOMAIN fs |-> Dispatched(fs[k])] = KeptFirst(ms, i)
      BY <1>12, <1>14, <1>15, <2>1, KeptOn
    <2> QED
      BY <1>3, <2>1, <2>2
  <1>17. c \in DOMAIN dec2 /\ dec2[c] = taken[2]
    BY <1>1 DEF Put
  <1> QED
    BY <1>1, <1>9, <1>11, <1>12, <1>16, <1>17 DEF DecoderAt

-----------------------------------------------------------------------------
(* The inductive invariant *)

LEMMA WireInit == PipelineInit => WireInv
  <1> SUFFICES ASSUME PipelineInit
               PROVE  WireInv
    OBVIOUS
  <1>1. /\ script \in Scripts /\ stream = EmptyMap /\ pending = <<>> /\ decoders = EmptyMap
        /\ received = [c \in Connections |-> <<>>]
    BY DEF PipelineInit
  <1>2. IsList(pending) /\ Len(pending) = 0
    <2>1. <<>> \in Seq({})
      OBVIOUS
    <2> QED
      BY <1>1, <2>1 DEF IsList
  <1>3. received = [c \in Connections |-> received[c]]
    BY <1>1
  <1>4. DOMAIN stream = {} /\ DOMAIN decoders = {}
    BY <1>1 DEF EmptyMap
  <1>5. ASSUME NEW c \in Connections
        PROVE  ConnectionInv(c, script[c], stream, pending, decoders, received[c])
    <2>1. PICK ms : ms = script[c]
      OBVIOUS
    <2>2. Len(ms) \in Nat /\ 0 \in 0 .. Len(ms)
      BY <1>1, <2>1, ScriptMessages
    <2>3. received[c] = <<>> /\ KeptFirst(ms, 0) = <<>>
      BY <1>1, KeptFirstFacts, EmptySeq
    <2>4. DecoderAt(decoders, received[c], c, ms, Closed)
      BY <1>4, <2>2, <2>3 DEF DecoderAt
    <2>5. StreamAt(stream, c, Bytes(ms), Closed)
      BY <1>4 DEF StreamAt
    <2>6. Flow(pending, c, Bytes(ms), Closed, Closed)
      <3> DEFINE g == [k \in 0 .. 0 |-> Closed]
      <3>1. g[0] = Closed
        OBVIOUS
      <3> HIDE DEF g
      <3>2. g[Len(pending)] = Closed /\ 1 .. Len(pending) = {}
        BY <1>2, <3>1
      <3> QED
        BY <3>1, <3>2 DEF Flow
    <2> QED
      BY <2>1, <2>4, <2>5, <2>6 DEF ConnectionInv
  <1> QED
    BY <1>1, <1>2, <1>3, <1>5 DEF WireInv, ScriptChosen

(* An event is added that the streams follow. *)
LEMMA EnqueueKeeps ==
    ASSUME WireInv, NEW e, EnqueueEvent(e),
           \A d \in Connections : Follows(e, d, Bytes(script[d]), stream, stream')
    PROVE  WireInv'
  <1>1. /\ pending' = Append(pending, e) /\ script' = script
        /\ decoders' = decoders /\ received' = received
    BY DEF EnqueueEvent
  <1>2. IsList(Append(pending, e))
    <2>1. PICK S : pending \in Seq(S)
      BY DEF WireInv, IsList
    <2>2. pending \in Seq(S \cup {e})
      BY <2>1
    <2>3. Append(pending, e) \in Seq(S \cup {e})
      BY <2>2
    <2> QED
      BY <2>3 DEF IsList
  <1>3. ASSUME NEW d \in Connections
        PROVE  ConnectionInv(d, script[d], stream', Append(pending, e), decoders, received[d])
    <2>1. ConnectionInv(d, script[d], stream, pending, decoders, received[d]) /\ IsList(pending)
      BY DEF WireInv
    <2>2. Follows(e, d, Bytes(script[d]), stream, stream')
      OBVIOUS
    <2> QED
      BY <2>1, <2>2, EventAdded
  <1> QED
    BY <1>1, <1>2, <1>3 DEF WireInv, ScriptChosen

LEMMA ConnectKeeps ==
    ASSUME WireInv, NEW c \in Connections, Connect(c)
    PROVE  WireInv'
  <1>1. PICK e : e = [type |-> "Accept", connection |-> c]
    OBVIOUS
  <1>2. /\ e.type = "Accept" /\ e.connection = c /\ EnqueueEvent(e)
        /\ c \notin DOMAIN stream /\ stream' = Put(stream, c, Bytes(script[c]))
    BY <1>1 DEF Connect
  <1>3. /\ DOMAIN stream' = DOMAIN stream \cup {c} /\ stream'[c] = Bytes(script[c])
        /\ \A x \in DOMAIN stream : x # c => stream'[x] = stream[x]
    BY <1>2 DEF Put
  <1>4. ASSUME NEW d \in Connections
        PROVE  Follows(e, d, Bytes(script[d]), stream, stream')
    <2>1. CASE d = c
      <3>1. Bytes(script[c]) \in Seq(Byte)
        BY BytesFacts DEF WireInv, ScriptChosen
      <3>2. Follows(e, c, Bytes(script[c]), stream, stream')
        BY <1>2, <1>3, <3>1, AcceptFollows
      <3> QED
        BY <2>1, <3>2
    <2>2. CASE d # c
      <3>1. /\ e.connection # d /\ (d \in DOMAIN stream <=> d \in DOMAIN stream')
            /\ (d \in DOMAIN stream => stream'[d] = stream[d])
        BY <1>2, <1>3, <2>2
      <3> QED
        BY <3>1, OthersStay
    <2> QED
      BY <2>1, <2>2
  <1> QED
    BY <1>2, <1>4, EnqueueKeeps

LEMMA ArriveKeeps ==
    ASSUME WireInv, NEW c \in Connections, NEW n \in ReadSizes, Arrive(c, n)
    PROVE  WireInv'
  <1>1. PICK size, e :
            /\ size = (IF n < Len(stream[c]) THEN n ELSE Len(stream[c]))
            /\ e = [type |-> "Read", connection |-> c, payload |-> Take(stream[c], size)]
    OBVIOUS
  <1>2. /\ e.type = "Read" /\ e.connection = c /\ e.payload = Take(stream[c], size)
        /\ EnqueueEvent(e)
        /\ c \in DOMAIN stream /\ stream' = Put(stream, c, Drop(stream[c], size))
    BY <1>1 DEF Arrive
  <1>3. /\ DOMAIN stream' = DOMAIN stream \cup {c} /\ stream'[c] = Drop(stream[c], size)
        /\ \A x \in DOMAIN stream : x # c => stream'[x] = stream[x]
    BY <1>2 DEF Put
  <1>4. PICK all \in Seq(Byte) : all = Bytes(script[c]) /\ Len(all) \in Nat
    BY BytesFacts DEF WireInv, ScriptChosen
  <1>5. Len(stream[c]) \in Nat
    <2>1. PICK b : StreamAt(stream, c, all, b)
      BY <1>4 DEF WireInv, ConnectionInv
    <2>2. b \in 0 .. Len(all) /\ stream[c] = Slice(all, b, Len(all))
      BY <1>2, <2>1 DEF StreamAt
    <2>3. Len(all) \in 0 .. Len(all)
      BY <1>4
    <2>4. Slice(all, b, Len(all)) \in Seq(Byte)
      BY <2>2, <2>3, SliceFacts
    <2> QED
      BY <2>2, <2>4
  <1>6. size \in 0 .. Len(stream[c])
    <2>1. n \in Nat
      BY PipelineConstants
    <2> QED
      BY <1>1, <1>5, <2>1
  <1>7. ASSUME NEW d \in Connections
        PROVE  Follows(e, d, Bytes(script[d]), stream, stream')
    <2>1. CASE d = c
      <3>1. c \in DOMAIN stream'
        BY <1>3
      <3>2. Follows(e, c, all, stream, stream')
        BY <1>2, <1>3, <1>6, <3>1, ReadFollows
      <3> QED
        BY <1>4, <2>1, <3>2
    <2>2. CASE d # c
      <3>1. /\ e.connection # d /\ (d \in DOMAIN stream <=> d \in DOMAIN stream')
            /\ (d \in DOMAIN stream => stream'[d] = stream[d])
        BY <1>2, <1>3, <2>2
      <3> QED
        BY <3>1, OthersStay
    <2> QED
      BY <2>1, <2>2
  <1> QED
    BY <1>2, <1>7, EnqueueKeeps

LEMMA DisconnectKeeps ==
    ASSUME WireInv, NEW c \in Connections, Disconnect(c)
    PROVE  WireInv'
  <1>1. PICK e : e = [type |-> "Disconnect", connection |-> c]
    OBVIOUS
  <1>2. /\ e.type = "Disconnect" /\ e.connection = c /\ EnqueueEvent(e)
        /\ stream' = Without(stream, {c})
    BY <1>1 DEF Disconnect
  <1>3. /\ DOMAIN stream' = DOMAIN stream \ {c}
        /\ \A x \in DOMAIN stream : x # c => stream'[x] = stream[x]
    BY <1>2 DEF Without, Restrict
  <1>4. ASSUME NEW d \in Connections
        PROVE  Follows(e, d, Bytes(script[d]), stream, stream')
    <2>1. CASE d = c
      <3>1. c \notin DOMAIN stream'
        BY <1>3
      <3>2. Follows(e, c, Bytes(script[c]), stream, stream')
        BY <1>2, <3>1, DisconnectFollows
      <3> QED
        BY <2>1, <3>2
    <2>2. CASE d # c
      <3>1. /\ e.connection # d /\ (d \in DOMAIN stream <=> d \in DOMAIN stream')
            /\ (d \in DOMAIN stream => stream'[d] = stream[d])
        BY <1>2, <1>3, <2>2
      <3> QED
        BY <3>1, OthersStay
    <2> QED
      BY <2>1, <2>2
  <1> QED
    BY <1>2, <1>4, EnqueueKeeps

LEMMA LateReadKeeps ==
    ASSUME WireInv, NEW c \in Connections, NEW n \in ReadSizes, LateRead(c, n)
    PROVE  WireInv'
  <1>1. PICK e : e = [type |-> "Read", connection |-> c, payload |-> Take(Bytes(script[c]), n)]
    OBVIOUS
  <1>2. /\ e.type = "Read" /\ e.connection = c /\ EnqueueEvent(e)
        /\ c \notin DOMAIN stream /\ stream' = stream
    BY <1>1 DEF LateRead
  <1>3. ASSUME NEW d \in Connections
        PROVE  Follows(e, d, Bytes(script[d]), stream, stream')
    <2>1. CASE d = c
      <3>1. Follows(e, c, Bytes(script[c]), stream, stream)
        BY <1>2, LateReadFollows
      <3> QED
        BY <1>2, <2>1, <3>1
    <2>2. CASE d # c
      <3>1. e.connection # d
        BY <1>2, <2>2
      <3>2. Follows(e, d, Bytes(script[d]), stream, stream)
        BY <3>1, OthersStay
      <3> QED
        BY <1>2, <3>2
    <2> QED
      BY <2>1, <2>2
  <1> QED
    BY <1>2, <1>3, EnqueueKeeps

(* An event is taken off the list and handled. *)
LEMMA DrainKeeps ==
    ASSUME WireInv, Drain
    PROVE  WireInv'
  <1>1. PICK e, c : e = Head(pending) /\ c = e.connection
    OBVIOUS
  <1>2. /\ pending # <<>> /\ pending' = Tail(pending) /\ script' = script /\ stream' = stream
        /\ \/ e.type = "Accept" /\ RegisterConnection(c)
           \/ e.type = "Read" /\ OnRead(c, e.payload)
           \/ e.type = "Disconnect" /\ RemoveConnection(c)
    BY <1>1 DEF Drain
  <1>3. /\ script \in Scripts /\ IsList(pending)
        /\ received = [d \in Connections |-> received[d]]
        /\ \A d \in Connections :
            ConnectionInv(d, script[d], stream, pending, decoders, received[d])
    BY DEF WireInv, ScriptChosen
  <1>4. IsList(Tail(pending))
    <2>1. PICK S : pending \in Seq(S)
      BY <1>3 DEF IsList
    <2>2. Tail(pending) \in Seq(S)
      BY <1>2, <2>1
    <2> QED
      BY <2>2 DEF IsList
  <1>5. /\ received' = [d \in Connections |-> received'[d]]
        /\ \A d \in Connections :
            Handles(e, d, script[d], decoders, received[d], decoders', received'[d])
    <2>1. CASE e.type = "Accept" /\ RegisterConnection(c)
      <3>1. /\ decoders' = Emplace(decoders, c, <<>>)
            /\ received' = [received EXCEPT ![c] = <<>>]
        BY <2>1 DEF RegisterConnection
      <3>2. /\ received' = [d \in Connections |-> received'[d]]
            /\ c \in Connections => received'[c] = <<>>
            /\ \A d \in Connections : d # c => received'[d] = received[d]
        BY <1>3, <3>1
      <3>3. /\ DOMAIN decoders' = DOMAIN decoders \cup {c}
            /\ \A x \in DOMAIN decoders : x # c => decoders'[x] = decoders[x]
        BY <3>1 DEF Emplace, Put
      <3>4. ASSUME NEW d \in Connections, d = c
            PROVE  Handles(e, d, script[d], decoders, received[d], decoders', received'[d])
        <4>1. Handles(e, c, script[c], decoders, received[c], Emplace(decoders, c, <<>>), <<>>)
          BY <1>1, <1>3, <2>1, <3>4, AcceptHandled
        <4> QED
          BY <3>1, <3>2, <3>4, <4>1
      <3>5. ASSUME NEW d \in Connections, d # c
            PROVE  Handles(e, d, script[d], decoders, received[d], decoders', received'[d])
        <4>1. /\ e.connection # d /\ (d \in DOMAIN decoders <=> d \in DOMAIN decoders')
              /\ (d \in DOMAIN decoders => decoders'[d] = decoders[d])
              /\ received'[d] = received[d]
          BY <1>1, <3>2, <3>3, <3>5
        <4> QED
          BY <4>1, OtherDecodersStay
      <3> QED
        BY <3>2, <3>4, <3>5
    <2>2. CASE e.type = "Read" /\ OnRead(c, e.payload)
      <3>1. CASE c \notin DOMAIN decoders
        <4>1. decoders' = decoders /\ received' = received
          BY <2>2, <3>1 DEF OnRead
        <4>2. ASSUME NEW d \in Connections
              PROVE  Handles(e, d, script[d], decoders, received[d], decoders, received[d])
          <5>1. CASE d = c
            BY <1>1, <2>2, <3>1, <5>1, LateReadHandled
          <5>2. CASE d # c
            BY <1>1, <5>2, OtherDecodersStay
          <5> QED
            BY <5>1, <5>2
        <4> QED
          BY <1>3, <4>1, <4>2
      <3>2. CASE c \in DOMAIN decoders
        <4>1. PICK taken \in TakeFrames(decoders[c] \o e.payload) :
                /\ decoders' = Put(decoders, c, taken[2])
                /\ received' = [received EXCEPT ![c] =
                        @ \o [k \in DOMAIN taken[1] |-> Dispatched(taken[1][k])]]
          BY <2>2, <3>2 DEF OnRead
        <4>2. PICK y : y = [k \in DOMAIN taken[1] |-> Dispatched(taken[1][k])]
          OBVIOUS
        <4>3. received' = [received EXCEPT ![c] = @ \o y]
          BY <4>1, <4>2
        <4>4. /\ received' = [d \in Connections |-> received'[d]]
              /\ c \in Connections => received'[c] = received[c] \o y
              /\ \A d \in Connections : d # c => received'[d] = received[d]
          BY <1>3, <4>3
        <4>5. /\ DOMAIN decoders' = DOMAIN decoders
              /\ \A x \in DOMAIN decoders : x # c => decoders'[x] = decoders[x]
          BY <3>2, <4>1 DEF Put
        <4>6. ASSUME NEW d \in Connections, d = c
              PROVE  Handles(e, d, script[d], decoders, received[d], decoders', received'[d])
          <5>1. PICK got2 : got2 = received'[c] /\ got2 = received[c] \o
                                [k \in DOMAIN taken[1] |-> Dispatched(taken[1][k])]
            BY <4>2, <4>4, <4>6
          <5>2. Handles(e, c, script[c], decoders, received[c],
                        Put(decoders, c, taken[2]), got2)
            BY <1>1, <1>3, <2>2, <3>2, <4>6, <5>1, ReadHandled
          <5> QED
            BY <4>1, <4>6, <5>1, <5>2
        <4>7. ASSUME NEW d \in Connections, d # c
              PROVE  Handles(e, d, script[d], decoders, received[d], decoders', received'[d])
          <5>1. /\ e.connection # d /\ (d \in DOMAIN decoders <=> d \in DOMAIN decoders')
                /\ (d \in DOMAIN decoders => decoders'[d] = decoders[d])
                /\ received'[d] = received[d]
            BY <1>1, <4>4, <4>5, <4>7
          <5> QED
            BY <5>1, OtherDecodersStay
        <4> QED
          BY <4>4, <4>6, <4>7
      <3> QED
        BY <3>1, <3>2
    <2>3. CASE e.type = "Disconnect" /\ RemoveConnection(c)
      <3>1. decoders' = Without(decoders, {c}) /\ received' = received
        BY <2>3 DEF RemoveConnection
      <3>2. /\ DOMAIN decoders' = DOMAIN decoders \ {c}
            /\ \A x \in DOMAIN decoders : x # c => decoders'[x] = decoders[x]
        BY <3>1 DEF Without, Restrict
      <3>3. ASSUME NEW d \in Connections, d = c
            PROVE  Handles(e, d, script[d], decoders, received[d], decoders', received[d])
        <4>1. Handles(e, c, script[c], decoders, received[c], Without(decoders, {c}), received[c])
          BY <1>1, <2>3, DisconnectHandled
        <4> QED
          BY <3>1, <3>3, <4>1
      <3>4. ASSUME NEW d \in Connections, d # c
            PROVE  Handles(e, d, script[d], decoders, received[d], decoders', received[d])
        <4>1. /\ e.connection # d /\ (d \in DOMAIN decoders <=> d \in DOMAIN decoders')
              /\ (d \in DOMAIN decoders => decoders'[d] = decoders[d])
          BY <1>1, <3>2, <3>4
        <4> QED
          BY <4>1, OtherDecodersStay
      <3> QED
        BY <1>3, <3>1, <3>3, <3>4
    <2> QED
      BY <1>2, <2>1, <2>2, <2>3
  <1>6. ASSUME NEW d \in Connections
        PROVE  ConnectionInv(d, script[d], stream, Tail(pending), decoders', received'[d])
    <2>1. ConnectionInv(d, script[d], stream, pending, decoders, received[d])
      BY <1>3
    <2>2. Handles(Head(pending), d, script[d], decoders, received[d], decoders', received'[d])
      BY <1>1, <1>5
    <2> QED
      BY <1>2, <1>3, <2>1, <2>2, EventHandled
  <1> QED
    BY <1>2, <1>3, <1>4, <1>5, <1>6 DEF WireInv, ScriptChosen

LEMMA WireStep == WireInv /\ [PipelineNext]_pipelineVars => WireInv'
  <1> SUFFICES ASSUME WireInv, [PipelineNext]_pipelineVars
               PROVE  WireInv'
    OBVIOUS
  <1>1. ASSUME NEW c \in Connections, Connect(c)
        PROVE  WireInv'
    BY <1>1, ConnectKeeps
  <1>2. ASSUME NEW c \in Connections, Disconnect(c)
        PROVE  WireInv'
    BY <1>2, DisconnectKeeps
  <1>3. ASSUME NEW c \in Connections, NEW n \in ReadSizes, Arrive(c, n)
        PROVE  WireInv'
    BY <1>3, ArriveKeeps
  <1>4. ASSUME NEW c \in Connections, NEW n \in ReadSizes, LateRead(c, n)
        PROVE  WireInv'
    BY <1>4, LateReadKeeps
  <1>5. CASE Drain
    BY <1>5, DrainKeeps
  <1>6. CASE UNCHANGED pipelineVars
    BY <1>6 DEF pipelineVars, WireInv, ScriptChosen
  <1> QED
    BY <1>1, <1>2, <1>3, <1>4, <1>5, <1>6 DEF PipelineNext

LEMMA WireInvReceived == WireInv => ReceivedAsSent
  <1> SUFFICES ASSUME WireInv, NEW c \in Connections
               PROVE  /\ Len(received[c]) <= Len(script[c])
                      /\ \A k \in DOMAIN received[c] : received[c][k] = {AsKept(script[c][k])}
    BY DEF ReceivedAsSent
  <1>1. PICK ms, got : ms = script[c] /\ got = received[c]
    OBVIOUS
  <1>2. Len(ms) \in Nat
    BY <1>1, ScriptMessages DEF WireInv, ScriptChosen
  <1>3. PICK j \in 0 .. Len(ms) : got = KeptFirst(ms, j)
    <2>1. PICK a : DecoderAt(decoders, got, c, ms, a)
      BY <1>1 DEF WireInv, ConnectionInv
    <2> QED
      BY <2>1 DEF DecoderAt, Ends
  <1>4. j \in Nat /\ j <= Len(ms)
    BY <1>2
  <1>5. /\ Len(KeptFirst(ms, j)) = j /\ DOMAIN KeptFirst(ms, j) = 1 .. j
        /\ \A k \in 1 .. j : KeptFirst(ms, j)[k] = {AsKept(ms[k])}
    BY <1>4, KeptFirstFacts
  <1> QED
    BY <1>1, <1>3, <1>4, <1>5

(* ReceivedAsSent for any clients, any messages and any pieces in which the  *)
(* bytes arrive: drain gives the callback the messages each client sent, in  *)
(* order and whole, also where a connection breaks off in the middle of a    *)
(* frame and its id is used again.                                           *)
THEOREM MessagesArriveAsSent == PipelineSpec => []ReceivedAsSent
  BY WireInit, WireStep, WireInvReceived, PTL DEF PipelineSpec

LEMMA RefusedByDecoders == ScriptChosen => PartsAreRefused
  <1> SUFFICES ASSUME script \in Scripts, NEW c \in Connections, NEW k \in DOMAIN script[c],
                      NEW m, m = script[c][k], NEW payload, payload = Encode(m.type, m.body)
               PROVE  /\ \A n \in 0 .. Len(payload) - 1 : Decode(m.type, Take(payload, n)) = {}
                      /\ Decode(m.type, Append(payload, 0)) = {}
    BY DEF PartsAreRefused, ScriptChosen
  <1>1. IsMessage(m)
    BY ScriptMessages
  <1>2. /\ payload \in Seq(Byte)
        /\ \A n \in 0 .. Len(payload) - 1 : Decode(m.type, Take(payload, n)) = {}
        /\ \A more \in Seq(Byte) : more # <<>> => Decode(m.type, payload \o more) = {}
    BY <1>1, DecodeUndoesEncode
  <1>3. <<0>> \in Seq(Byte) /\ <<0>> # <<>>
    BY ByteModNat DEF Byte
  <1>4. Append(payload, 0) = payload \o <<0>>
    <2>1. 0 \in Byte
      BY ByteModNat DEF Byte
    <2> QED
      BY <1>2, <2>1, AppendIsConcat, Zenon
  <1> QED
    BY <1>2, <1>3, <1>4

(* PartsAreRefused holds whatever messages the clients may send: decode...   *)
(* of every packet type checks each length against what is left and that     *)
(* nothing is left at the end.                                               *)
THEOREM PartsRefused == PipelineSpec => []PartsAreRefused
  <1>1. WireInv => PartsAreRefused
    BY RefusedByDecoders DEF WireInv
  <1> QED
    BY <1>1, WireInit, WireStep, PTL DEF PipelineSpec
=============================================================================
