-------------------------- MODULE DispatcherProofs --------------------------
(***************************************************************************)
(* The packet queue, the dispatcher and the worker pool, for every number  *)
(* of producers and workers, every capacity and every overflow policy: no  *)
(* packet is lost or handled twice, a packet overtakes another only in the *)
(* hands of the workers, and stop leaves nothing behind.                   *)
(***************************************************************************)
EXTENDS PacketDispatcher, SequenceTheorems, FiniteSetTheorems, TLAPS

-----------------------------------------------------------------------------
(* The inductive invariant, in parts *)

Places(t) ==
    IF t \in Producers THEN {"idle", "push", "asleep", "notify"}
    ELSE IF t = Dispatcher
         THEN {"pop", "asleep", "notify", "submit", "submitNotify", "exit"}
         ELSE {"take", "asleep", "start", "run", "exit"}

dataVars == <<queue, jobs, held, running, history>>

(* What the containers hold. *)
DataTypes ==
    /\ queue \in Seq(Packets) /\ jobs \in Seq(Packets) /\ held \in Seq(Packets)
    /\ running \in [Workers -> SUBSET Packets]
    /\ sent \in [Producers -> Nat]
    /\ \A p \in Producers : sent[p] <= MaxJobs[p]
    /\ accepted \subseteq Packets /\ dropped \subseteq Packets /\ handled \subseteq Packets

(* Where the threads are, and what each holds there. *)
Positions ==
    /\ pc = [t \in Threads |-> pc[t]]
    /\ \A t \in Threads : pc[t] \in Places(t)
    /\ \A p \in Producers : pc[p] \in {"push", "asleep"} => sent[p] < MaxJobs[p]
    /\ Len(held) = IF pc[Dispatcher] \in {"notify", "submit"} THEN 1 ELSE 0
    /\ \A w \in Workers :
        /\ pc[w] \in {"start", "run"} => \E k : running[w] = {k}
        /\ pc[w] \notin {"start", "run"} => running[w] = {}

(* How far start and stop have come. A thread of the pool is gone only when  *)
(* nothing can reach it any more, the dispatcher only when the queue is      *)
(* stopped.                                                                  *)
Phases ==
    /\ policy \in Policies /\ stopped \in BOOLEAN /\ poolStop \in BOOLEAN
    /\ control \in {"halted", "running", "stopQueue", "joinDispatcher", "stopPool",
                    "joinWorkers"}
    /\ starts \in 0 .. MaxStarts
    /\ control = "halted" => \A w \in Workers : pc[w] = "exit"
    /\ control \in {"halted", "stopPool", "joinWorkers"} => pc[Dispatcher] = "exit"
    /\ control = "running" /\ ~stopped => pc[Dispatcher] # "exit"
    /\ \A w \in Workers : pc[w] = "exit" =>
        jobs = <<>> /\ control \in {"halted", "stopPool", "joinWorkers"}
    /\ poolStop => control \in {"halted", "stopPool", "joinWorkers"}
    /\ pc[Dispatcher] = "exit" /\ stopped /\ policy = "Block" /\ Capacity > 0
        => queue = <<>>

FrameInv == DataTypes /\ Positions /\ Phases

-----------------------------------------------------------------------------
(* Threads and packets *)

(* The three kinds of threads. *)
LEMMA ThreadKinds ==
    /\ Dispatcher \in Threads /\ Dispatcher \notin Producers /\ Dispatcher \notin Workers
    /\ \A p \in Producers : p \in Threads /\ p # Dispatcher /\ p \notin Workers
    /\ \A w \in Workers : w \in Threads /\ w # Dispatcher /\ w \notin Producers
    /\ \A t \in Threads : t \in Producers \/ t \in Workers \/ t = Dispatcher
  BY DispatcherConstants DEF Threads

(* A packet is named by its producer and its number. *)
LEMMA PacketParts ==
    ASSUME NEW k \in Packets
    PROVE  k[1] \in Producers /\ k[2] \in Nat /\ k = <<k[1], k[2]>>
  <1>1. PICK p \in Producers : k \in {p} \X (1 .. MaxJobs[p])
    BY DEF Packets
  <1>2. MaxJobs[p] \in Nat
    BY DispatcherConstants
  <1> QED
    BY <1>1, <1>2

(* The packet a producer offers next. *)
LEMMA NextPacketParts ==
    ASSUME DataTypes, NEW p \in Producers, sent[p] < MaxJobs[p]
    PROVE  /\ NextPacket(p) \in Packets
           /\ NextPacket(p)[1] = p /\ NextPacket(p)[2] = sent[p] + 1
  <1>1. sent[p] \in Nat /\ MaxJobs[p] \in Nat
    BY DispatcherConstants DEF DataTypes
  <1>2. sent[p] + 1 \in 1 .. MaxJobs[p]
    BY <1>1
  <1>3. <<p, sent[p] + 1>> \in {p} \X (1 .. MaxJobs[p])
    BY <1>2
  <1> QED
    BY <1>3 DEF NextPacket, Packets

(* A thread moves on by itself. *)
LEMMA PcMove ==
    ASSUME Positions, NEW t \in Threads, NEW v, pc' = [pc EXCEPT ![t] = v]
    PROVE  /\ pc' = [u \in Threads |-> pc'[u]]
           /\ pc'[t] = v
           /\ \A u \in Threads : u # t => pc'[u] = pc[u]
  BY DEF Positions

(* g is f after some sleeping threads were woken. *)
Woken(f, g) ==
    /\ g = [t \in Threads |-> g[t]]
    /\ \A t \in Threads : g[t] = f[t] \/ (f[t] = "asleep" /\ g[t] = Resume(t))

(* notify_one wakes at most one of the threads of T. *)
LEMMA NotifyOneWakes ==
    ASSUME NEW f, f = [t \in Threads |-> f[t]], NEW T, T \subseteq Threads,
           NEW g \in NotifyOne(f, T)
    PROVE  Woken(f, g)
  <1>1. CASE g = f
    BY <1>1 DEF Woken
  <1>2. CASE \E t \in T : f[t] = "asleep" /\ g = [f EXCEPT ![t] = Resume(t)]
    BY <1>2 DEF Woken
  <1> QED
    BY <1>1, <1>2 DEF NotifyOne

(* notify_all wakes all of them. *)
LEMMA NotifyAllWakes ==
    ASSUME NEW f, f = [t \in Threads |-> f[t]], NEW T
    PROVE  Woken(f, NotifyAll(f, T))
  BY DEF Woken, NotifyAll

(* Steps that wake threads after one of them moved from a place without a    *)
(* packet, or with one, to another such place.                               *)
LEMMA WakeFrame ==
    ASSUME FrameInv, NEW f, Woken(f, pc'), f = [t \in Threads |-> f[t]],
           \A t \in Threads : f[t] \in Places(t),
           \A p \in Producers : f[p] \in {"push", "asleep"} => sent[p] < MaxJobs[p],
           Len(held) = IF f[Dispatcher] \in {"notify", "submit"} THEN 1 ELSE 0,
           f[Dispatcher] = "exit" <=> pc[Dispatcher] = "exit",
           \A w \in Workers : f[w] = pc[w],
           UNCHANGED <<queueVars, poolVars, starts, dataVars>>,
           \/ UNCHANGED control
           \/ control = "stopQueue" /\ control' = "joinDispatcher"
           \/ control = "stopPool" /\ control' = "joinWorkers"
    PROVE  FrameInv'
  <1>1. /\ UNCHANGED <<policy, queue, stopped, jobs, poolStop, starts, held, running>>
        /\ UNCHANGED <<sent, accepted, dropped, handled>>
    BY DEF queueVars, poolVars, dataVars, history
  <1>2. \A t \in Threads :
            /\ pc'[t] \in Places(t)
            /\ pc'[t] = "exit" <=> f[t] = "exit"
            /\ pc'[t] \in {"start", "run"} <=> f[t] \in {"start", "run"}
            /\ pc'[t] \in {"notify", "submit"} <=> f[t] \in {"notify", "submit"}
            /\ t \in Producers /\ pc'[t] \in {"push", "asleep"} => f[t] \in {"push", "asleep"}
    BY ThreadKinds DEF Woken, Resume, Places
  <1>3. DataTypes'
    BY <1>1 DEF FrameInv, DataTypes
  <1>4. Positions'
    BY <1>1, <1>2, ThreadKinds DEF FrameInv, Positions, Woken
  <1>5. Phases'
    BY <1>1, <1>2, ThreadKinds DEF FrameInv, Phases
  <1> QED
    BY <1>3, <1>4, <1>5 DEF FrameInv

(* The threads that only move: a call, a wait or a handler begins, a loop    *)
(* ends.                                                                     *)
LEMMA MoveFrame ==
    ASSUME FrameInv,
           \/ \E p \in Producers : CallPush(p) \/ PushWait(p)
           \/ PopWait \/ PopEnd
           \/ \E w \in Workers : TakeWait(w) \/ TakeEnd(w) \/ HandlerBegins(w)
    PROVE  FrameInv'
  <1>1. /\ UNCHANGED <<policy, queue, stopped, jobs, poolStop, starts, held, running, control>>
        /\ UNCHANGED <<sent, accepted, dropped, handled>>
    BY DEF CallPush, PushWait, PopWait, PopEnd, TakeWait, TakeEnd, HandlerBegins,
           queueVars, poolVars, history
  <1>2. DataTypes'
    BY <1>1 DEF FrameInv, DataTypes
  <1>3. ASSUME NEW p \in Producers, CallPush(p) \/ PushWait(p)
        PROVE  Positions' /\ Phases'
    <2>1. PICK v \in {"push", "asleep"} : pc' = [pc EXCEPT ![p] = v]
      BY <1>3 DEF CallPush, PushWait
    <2>2. sent[p] < MaxJobs[p]
      BY <1>3 DEF CallPush, PushWait, FrameInv, Positions
    <2>3. /\ pc' = [u \in Threads |-> pc'[u]] /\ pc'[p] = v
          /\ \A u \in Threads : u # p => pc'[u] = pc[u]
      BY <2>1, PcMove, ThreadKinds DEF FrameInv
    <2>4. Positions'
      BY <1>1, <2>1, <2>2, <2>3, ThreadKinds DEF FrameInv, Positions, Places
    <2>5. Phases'
      BY <1>1, <2>3, ThreadKinds DEF FrameInv, Phases
    <2> QED
      BY <2>4, <2>5
  <1>4. ASSUME PopWait \/ PopEnd
        PROVE  Positions' /\ Phases'
    <2>1. PICK v \in {"asleep", "exit"} :
              /\ pc' = [pc EXCEPT ![Dispatcher] = v] /\ pc[Dispatcher] = "pop"
              /\ v = "exit" => stopped /\ queue = <<>>
      BY <1>4 DEF PopWait, PopEnd
    <2>2. /\ pc' = [u \in Threads |-> pc'[u]] /\ pc'[Dispatcher] = v
          /\ \A u \in Threads : u # Dispatcher => pc'[u] = pc[u]
      BY <2>1, PcMove, ThreadKinds DEF FrameInv
    <2>3. Positions'
      BY <1>1, <2>1, <2>2, ThreadKinds DEF FrameInv, Positions, Places
    <2>4. Phases'
      BY <1>1, <2>1, <2>2, ThreadKinds DEF FrameInv, Phases
    <2> QED
      BY <2>3, <2>4
  <1>5. ASSUME NEW w \in Workers, TakeWait(w) \/ TakeEnd(w)
        PROVE  Positions' /\ Phases'
    <2>1. PICK v \in {"asleep", "exit"} :
              /\ pc' = [pc EXCEPT ![w] = v] /\ pc[w] = "take"
              /\ v = "exit" => poolStop /\ jobs = <<>>
      BY <1>5 DEF TakeWait, TakeEnd
    <2>2. /\ pc' = [u \in Threads |-> pc'[u]] /\ pc'[w] = v
          /\ \A u \in Threads : u # w => pc'[u] = pc[u]
      BY <2>1, PcMove, ThreadKinds DEF FrameInv
    <2>3. Positions'
      BY <1>1, <2>1, <2>2, ThreadKinds DEF FrameInv, Positions, Places
    <2>4. Phases'
      BY <1>1, <2>1, <2>2, ThreadKinds DEF FrameInv, Phases
    <2> QED
      BY <2>3, <2>4
  <1>6. ASSUME NEW w \in Workers, HandlerBegins(w)
        PROVE  Positions' /\ Phases'
    <2>1. pc' = [pc EXCEPT ![w] = "run"] /\ pc[w] = "start"
      BY <1>6 DEF HandlerBegins
    <2>2. /\ pc' = [u \in Threads |-> pc'[u]] /\ pc'[w] = "run"
          /\ \A u \in Threads : u # w => pc'[u] = pc[u]
      BY <2>1, PcMove, ThreadKinds DEF FrameInv
    <2>3. Positions'
      BY <1>1, <2>1, <2>2, ThreadKinds DEF FrameInv, Positions, Places
    <2>4. Phases'
      BY <1>1, <2>1, <2>2, ThreadKinds DEF FrameInv, Phases
    <2> QED
      BY <2>3, <2>4
  <1> QED
    BY <1>2, <1>3, <1>4, <1>5, <1>6 DEF FrameInv

(* The notifications that follow an unlock. *)
LEMMA NotifyFrame ==
    ASSUME FrameInv,
           \/ \E p \in Producers : PushNotify(p)
           \/ PopNotify \/ SubmitNotify
           \/ StopQueueNotify \/ StopPoolNotify
    PROVE  FrameInv'
  <1>1. UNCHANGED <<queueVars, poolVars, starts, dataVars>>
    <2>1. UNCHANGED <<queueVars, poolVars, held, running, starts, history>>
      BY DEF PushNotify, PopNotify, SubmitNotify, StopQueueNotify, StopPoolNotify
    <2> QED
      BY <2>1 DEF queueVars, poolVars, dataVars
  <1>2. /\ pc = [t \in Threads |-> pc[t]]
        /\ \A t \in Threads : pc[t] \in Places(t)
        /\ \A p \in Producers : pc[p] \in {"push", "asleep"} => sent[p] < MaxJobs[p]
        /\ Len(held) = IF pc[Dispatcher] \in {"notify", "submit"} THEN 1 ELSE 0
    BY DEF FrameInv, Positions
  <1>3. QueueThreads \subseteq Threads /\ Workers \subseteq Threads
    BY DEF QueueThreads, Threads
  <1>4. ASSUME NEW p \in Producers, PushNotify(p)
        PROVE  FrameInv'
    <2> DEFINE f == [pc EXCEPT ![p] = "idle"]
    <2>1. /\ f = [t \in Threads |-> f[t]] /\ f[p] = "idle"
          /\ \A t \in Threads : t # p => f[t] = pc[t]
      BY <1>2, ThreadKinds
    <2>2. pc' \in NotifyOne(f, QueueThreads) /\ UNCHANGED control
      BY <1>4 DEF PushNotify
    <2> HIDE DEF f
    <2>3. Woken(f, pc')
      BY <1>3, <2>1, <2>2, NotifyOneWakes
    <2>4. \A t \in Threads : f[t] \in Places(t)
      BY <1>2, <2>1 DEF Places
    <2> QED
      BY <1>1, <1>2, <2>1, <2>2, <2>3, <2>4, ThreadKinds, WakeFrame
  <1>5. ASSUME NEW v \in {"submit", "pop"}, NEW T,
               T \subseteq Threads,
               pc' \in NotifyOne([pc EXCEPT ![Dispatcher] = v], T),
               v = "submit" => pc[Dispatcher] = "notify",
               v = "pop" => pc[Dispatcher] = "submitNotify",
               UNCHANGED control
        PROVE  FrameInv'
    <2> DEFINE f == [pc EXCEPT ![Dispatcher] = v]
    <2>1. /\ f = [t \in Threads |-> f[t]] /\ f[Dispatcher] = v
          /\ \A t \in Threads : t # Dispatcher => f[t] = pc[t]
      BY <1>2, ThreadKinds
    <2>2. pc' \in NotifyOne(f, T)
      BY <1>5
    <2> HIDE DEF f
    <2>3. Woken(f, pc')
      BY <1>5, <2>1, <2>2, NotifyOneWakes
    <2>4. \A t \in Threads : f[t] \in Places(t)
      BY <1>2, <2>1, ThreadKinds DEF Places
    <2>5. /\ Len(held) = IF f[Dispatcher] \in {"notify", "submit"} THEN 1 ELSE 0
          /\ f[Dispatcher] = "exit" <=> pc[Dispatcher] = "exit"
      BY <1>2, <1>5, <2>1
    <2> QED
      BY <1>1, <1>2, <1>5, <2>1, <2>3, <2>4, <2>5, ThreadKinds, WakeFrame
  <1>6. CASE PopNotify
    BY <1>3, <1>5, <1>6 DEF PopNotify
  <1>7. CASE SubmitNotify
    BY <1>3, <1>5, <1>7 DEF SubmitNotify
  <1>8. CASE StopQueueNotify
    <2>1. Woken(pc, pc') /\ control = "stopQueue" /\ control' = "joinDispatcher"
      BY <1>2, <1>8, NotifyAllWakes DEF StopQueueNotify
    <2> QED
      BY <1>1, <1>2, <2>1, WakeFrame
  <1>9. CASE StopPoolNotify
    <2>1. Woken(pc, pc') /\ control = "stopPool" /\ control' = "joinWorkers"
      BY <1>2, <1>9, NotifyAllWakes DEF StopPoolNotify
    <2> QED
      BY <1>1, <1>2, <2>1, WakeFrame
  <1> QED
    BY <1>4, <1>6, <1>7, <1>8, <1>9

(* PacketDispatcher::start and the locked parts of stop *)
LEMMA ControlFrame ==
    ASSUME FrameInv, Start \/ StopQueue \/ StopPool \/ StopReturn
    PROVE  FrameInv'
  <1>1. /\ UNCHANGED <<policy, queue, jobs, held, running>>
        /\ UNCHANGED <<sent, accepted, dropped, handled>>
    BY DEF Start, StopQueue, StopPool, StopReturn, queueVars, poolVars, history
  <1>2. DataTypes'
    BY <1>1 DEF FrameInv, DataTypes
  <1>3. CASE Start
    <2>1. /\ control = "halted" /\ starts < MaxStarts
          /\ control' = "running" /\ starts' = starts + 1
          /\ poolStop' = FALSE /\ UNCHANGED stopped
          /\ pc' = [t \in Threads |-> IF t \in Producers THEN pc[t] ELSE Resume(t)]
      BY <1>3 DEF Start, queueVars
    <2>2. /\ pc' = [t \in Threads |-> pc'[t]]
          /\ \A p \in Producers : pc'[p] = pc[p]
          /\ pc'[Dispatcher] = "pop"
          /\ \A w \in Workers : pc'[w] = "take" /\ pc[w] = "exit"
          /\ pc[Dispatcher] = "exit"
      BY <2>1, ThreadKinds DEF Resume, FrameInv, Phases
    <2>3. Positions'
      BY <1>1, <2>2, ThreadKinds DEF FrameInv, Positions, Places
    <2>4. starts' \in 0 .. MaxStarts
      BY <2>1, DispatcherConstants DEF FrameInv, Phases
    <2>5. Phases'
      BY <1>1, <2>1, <2>2, <2>4 DEF FrameInv, Phases
    <2> QED
      BY <1>2, <2>3, <2>5 DEF FrameInv
  <1>4. CASE StopQueue \/ StopPool \/ StopReturn
    <2>1. UNCHANGED <<pc, starts>>
      BY <1>4 DEF StopQueue, StopPool, StopReturn
    <2>2. Positions'
      BY <1>1, <2>1 DEF FrameInv, Positions
    <2>3. CASE StopQueue
      <3>1. /\ control = "running" /\ control' = "stopQueue"
            /\ stopped' = TRUE /\ UNCHANGED poolStop
        BY <2>3 DEF StopQueue, poolVars
      <3>2. ~poolStop /\ (pc[Dispatcher] = "exit" => stopped)
        BY <3>1 DEF FrameInv, Phases
      <3> QED
        BY <1>1, <1>2, <2>1, <2>2, <3>1, <3>2 DEF FrameInv, Phases
    <2>4. CASE StopPool
      <3>1. /\ control = "joinDispatcher" /\ control' = "stopPool"
            /\ pc[Dispatcher] = "exit" /\ poolStop' = TRUE /\ UNCHANGED stopped
        BY <2>4 DEF StopPool, queueVars
      <3> QED
        BY <1>1, <1>2, <2>1, <2>2, <3>1 DEF FrameInv, Phases
    <2>5. CASE StopReturn
      <3>1. /\ control = "joinWorkers" /\ control' = "halted"
            /\ \A w \in Workers : pc[w] = "exit"
            /\ UNCHANGED <<stopped, poolStop>>
        BY <2>5 DEF StopReturn, queueVars, poolVars
      <3> QED
        BY <1>1, <1>2, <2>1, <2>2, <3>1 DEF FrameInv, Phases
    <2> QED
      BY <1>4, <2>3, <2>4, <2>5
  <1> QED
    BY <1>3, <1>4

-----------------------------------------------------------------------------
(* Sequences of packets *)

(* The packets of a producer stand in s in the order it sent them. *)
Sorted(s) ==
    \A i, j \in 1 .. Len(s) : i < j /\ s[i][1] = s[j][1] => s[i][2] < s[j][2]

(* The packets in S come before those of the same producer in T. *)
Before(S, T) == \A j \in S : \A k \in T : j[1] = k[1] => j[2] < k[2]

(* What a sequence is made of. *)
LEMMA ElementsOf ==
    ASSUME NEW s \in Seq(Packets)
    PROVE  /\ \A k : k \in ToSet(s) <=> \E i \in 1 .. Len(s) : k = s[i]
           /\ ToSet(s) \subseteq Packets
  <1>1. DOMAIN s = 1 .. Len(s) /\ \A i \in 1 .. Len(s) : s[i] \in Packets
    BY LenProperties, ElementOfSeq
  <1> QED
    BY <1>1 DEF ToSet

(* Taking the first packet out. *)
LEMMA TakeFirst ==
    ASSUME NEW s \in Seq(Packets), s # <<>>
    PROVE  /\ Head(s) \in Packets /\ Tail(s) \in Seq(Packets)
           /\ Len(Tail(s)) = Len(s) - 1 /\ Len(s) \in Nat /\ Len(s) > 0
           /\ ToSet(s) = {Head(s)} \cup ToSet(Tail(s))
           /\ Sorted(s) => /\ Sorted(Tail(s)) /\ Before({Head(s)}, ToSet(Tail(s)))
                           /\ Head(s) \notin ToSet(Tail(s))
  <1>1. /\ Head(s) \in Packets /\ Tail(s) \in Seq(Packets)
        /\ Len(Tail(s)) = Len(s) - 1
        /\ \A i \in 1 .. Len(Tail(s)) : Tail(s)[i] = s[i + 1]
    BY HeadTailProperties
  <1>2. Len(s) \in Nat /\ Len(s) > 0 /\ Head(s) = s[1]
    BY LenProperties, EmptySeq
  <1>3. ToSet(s) = {Head(s)} \cup ToSet(Tail(s))
    <2>1. \A i \in 1 .. Len(s) : i = 1 \/ (i - 1 \in 1 .. Len(Tail(s)) /\ s[i] = Tail(s)[i - 1])
      BY <1>1, <1>2
    <2>2. \A k : k \in ToSet(s) <=> \E i \in 1 .. Len(s) : k = s[i]
      BY ElementsOf
    <2>3. \A k : k \in ToSet(Tail(s)) <=> \E i \in 1 .. Len(Tail(s)) : k = Tail(s)[i]
      BY <1>1, ElementsOf
    <2>4. \A k \in ToSet(s) : k \in {Head(s)} \cup ToSet(Tail(s))
      <3>1. SUFFICES ASSUME NEW i \in 1 .. Len(s)
                     PROVE  s[i] = Head(s) \/ s[i] \in ToSet(Tail(s))
        BY <2>2
      <3>2. CASE i = 1
        BY <1>2, <3>2
      <3>3. CASE i - 1 \in 1 .. Len(Tail(s)) /\ s[i] = Tail(s)[i - 1]
        BY <2>3, <3>3
      <3> QED
        BY <2>1, <3>2, <3>3
    <2>5. \A k \in ToSet(Tail(s)) : k \in ToSet(s)
      <3>1. \A i \in 1 .. Len(Tail(s)) : i + 1 \in 1 .. Len(s) /\ Tail(s)[i] = s[i + 1]
        BY <1>1, <1>2
      <3> QED
        BY <2>2, <2>3, <3>1
    <2>6. Head(s) \in ToSet(s)
      BY <1>2, ElementsOf
    <2> QED
      BY <2>4, <2>5, <2>6
  <1>4. ASSUME Sorted(s)
        PROVE  Sorted(Tail(s)) /\ Before({Head(s)}, ToSet(Tail(s)))
    <2>1. ASSUME NEW i \in 1 .. Len(Tail(s)), NEW j \in 1 .. Len(Tail(s)),
                 i < j, Tail(s)[i][1] = Tail(s)[j][1]
          PROVE  Tail(s)[i][2] < Tail(s)[j][2]
      <3>1. i + 1 \in 1 .. Len(s) /\ j + 1 \in 1 .. Len(s) /\ i + 1 < j + 1
        BY <1>1, <1>2, <2>1
      <3>2. Tail(s)[i] = s[i + 1] /\ Tail(s)[j] = s[j + 1]
        BY <1>2, <2>1
      <3>3. s[i + 1][1] = s[j + 1][1] => s[i + 1][2] < s[j + 1][2]
        BY <1>4, <3>1 DEF Sorted
      <3> QED
        BY <2>1, <3>2, <3>3
    <2>2. ASSUME NEW k \in ToSet(Tail(s)), s[1][1] = k[1]
          PROVE  s[1][2] < k[2]
      <3>1. PICK i \in 1 .. Len(Tail(s)) : k = Tail(s)[i]
        <4>1. PICK t \in Seq(Packets) : t = Tail(s)
          BY <1>1
        <4>2. k \in ToSet(t)
          BY <4>1
        <4>3. \E i \in 1 .. Len(t) : k = t[i]
          BY <4>2, ElementsOf, Zenon
        <4> QED
          BY <4>1, <4>3
      <3>2. i + 1 \in 1 .. Len(s) /\ 1 \in 1 .. Len(s) /\ 1 < i + 1 /\ k = s[i + 1]
        BY <1>1, <1>2, <3>1
      <3> QED
        BY <1>4, <2>2, <3>2 DEF Sorted
    <2> QED
      BY <1>2, <2>1, <2>2 DEF Sorted, Before
  <1>5. Before({Head(s)}, ToSet(Tail(s))) => Head(s) \notin ToSet(Tail(s))
    BY <1>1, PacketParts DEF Before
  <1> QED
    BY <1>1, <1>2, <1>3, <1>4, <1>5

(* Putting a packet at the end. *)
LEMMA PutLast ==
    ASSUME NEW s \in Seq(Packets), NEW e \in Packets
    PROVE  /\ Append(s, e) \in Seq(Packets)
           /\ Len(Append(s, e)) = Len(s) + 1 /\ Len(s) \in Nat
           /\ ToSet(Append(s, e)) = ToSet(s) \cup {e}
           /\ Sorted(s) /\ Before(ToSet(s), {e}) => Sorted(Append(s, e))
  <1>1. /\ Append(s, e) \in Seq(Packets) /\ Len(s) \in Nat
        /\ Len(Append(s, e)) = Len(s) + 1
        /\ \A i \in 1 .. Len(s) : Append(s, e)[i] = s[i]
        /\ Append(s, e)[Len(s) + 1] = e
    BY AppendProperties, LenProperties
  <1>2. ToSet(Append(s, e)) = ToSet(s) \cup {e}
    <2>1. \A i \in 1 .. Len(s) + 1 : i \in 1 .. Len(s) \/ i = Len(s) + 1
      BY <1>1
    <2>2. \A i \in 1 .. Len(s) : i \in 1 .. Len(s) + 1
      BY <1>1
    <2>3. Len(s) + 1 \in 1 .. Len(s) + 1
      BY <1>1
    <2>4. \A k : k \in ToSet(s) <=> \E i \in 1 .. Len(s) : k = s[i]
      BY ElementsOf
    <2>5. \A k : k \in ToSet(Append(s, e))
                    <=> \E i \in 1 .. Len(s) + 1 : k = Append(s, e)[i]
      <3>1. \A k : k \in ToSet(Append(s, e))
                      <=> \E i \in 1 .. Len(Append(s, e)) : k = Append(s, e)[i]
        BY <1>1, ElementsOf, Zenon
      <3> QED
        BY <1>1, <3>1
    <2>6. \A k \in ToSet(Append(s, e)) : k \in ToSet(s) \cup {e}
      BY <1>1, <2>1, <2>4, <2>5
    <2>7. \A k \in ToSet(s) \cup {e} : k \in ToSet(Append(s, e))
      BY <1>1, <2>2, <2>3, <2>4, <2>5
    <2> QED
      BY <2>6, <2>7
  <1>3. ASSUME Sorted(s), Before(ToSet(s), {e}),
               NEW i \in 1 .. Len(s) + 1, NEW j \in 1 .. Len(s) + 1,
               i < j, Append(s, e)[i][1] = Append(s, e)[j][1]
        PROVE  Append(s, e)[i][2] < Append(s, e)[j][2]
    <2>1. i \in 1 .. Len(s) /\ s[i] \in ToSet(s)
      BY <1>1, <1>3, ElementsOf
    <2>2. CASE j \in 1 .. Len(s)
      BY <1>1, <1>3, <2>1, <2>2 DEF Sorted
    <2>3. CASE j = Len(s) + 1
      BY <1>1, <1>3, <2>1, <2>3 DEF Before
    <2> QED
      BY <1>1, <2>2, <2>3
  <1> QED
    BY <1>1, <1>2, <1>3 DEF Sorted

(* A sequence of one packet, and one of none. *)
LEMMA OnePacket ==
    ASSUME NEW s \in Seq(Packets)
    PROVE  /\ Len(s) = 0 <=> s = <<>>
           /\ s = <<>> => ToSet(s) = {}
           /\ Len(s) = 1 => s[1] \in Packets /\ s = <<s[1]>> /\ ToSet(s) = {s[1]}
  <1>1. Len(s) = 0 <=> s = <<>>
    BY EmptySeq, LenProperties
  <1>2. ASSUME s = <<>>
        PROVE  ToSet(s) = {}
    <2>1. \A k : k \in ToSet(s) <=> \E i \in 1 .. Len(s) : k = s[i]
      BY ElementsOf
    <2>2. Len(s) = 0
      BY <1>1, <1>2
    <2> QED
      BY <2>1, <2>2
  <1>3. ASSUME Len(s) = 1
        PROVE  s[1] \in Packets /\ s = <<s[1]>> /\ ToSet(s) = {s[1]}
    <2>1. s[1] \in Packets
      BY <1>3, ElementOfSeq
    <2>2. <<s[1]>> \in Seq(Packets) /\ Len(<<s[1]>>) = 1 /\ <<s[1]>>[1] = s[1]
      BY <2>1
    <2>3. s = <<s[1]>>
      BY <1>3, <2>2, SeqEqual
    <2>4. ToSet(s) = {s[1]}
      BY <1>3, ElementsOf
    <2> QED
      BY <2>1, <2>3, <2>4
  <1> QED
    BY <1>1, <1>2, <1>3

-----------------------------------------------------------------------------
(* The steps that move packets *)

(* A push that ends counts the packet as sent. *)
LEMMA SentMore ==
    ASSUME DataTypes, NEW p \in Producers, sent[p] < MaxJobs[p],
           sent' = [sent EXCEPT ![p] = @ + 1]
    PROVE  /\ sent' \in [Producers -> Nat] /\ sent'[p] = sent[p] + 1
           /\ \A q \in Producers : q # p => sent'[q] = sent[q]
           /\ \A q \in Producers : sent'[q] <= MaxJobs[q] /\ sent[q] <= sent'[q]
           /\ \A q \in Producers : sent[q] \in Nat /\ MaxJobs[q] \in Nat
  <1>1. \A q \in Producers : sent[q] \in Nat /\ MaxJobs[q] \in Nat /\ sent[q] <= MaxJobs[q]
    BY DispatcherConstants DEF DataTypes
  <1>2. sent' \in [Producers -> Nat] /\ sent'[p] = sent[p] + 1
    BY <1>1 DEF DataTypes
  <1>3. \A q \in Producers : q # p => sent'[q] = sent[q]
    BY DEF DataTypes
  <1>4. \A q \in Producers : sent'[q] <= MaxJobs[q] /\ sent[q] <= sent'[q]
    <2>1. TAKE q \in Producers
    <2>2. CASE q = p
      BY <1>1, <1>2, <2>2
    <2>3. CASE q # p
      BY <1>1, <1>3, <2>3
    <2> QED
      BY <2>2, <2>3
  <1> QED
    BY <1>1, <1>2, <1>3, <1>4

(* What PushAccept does to the queue: at most the head goes, one packet comes.*)
LEMMA PushAcceptEffect ==
    ASSUME FrameInv, NEW p \in Producers, PushAccept(p)
    PROVE  \E base, gone :
            /\ \/ base = queue /\ gone = {}
               \/ queue # <<>> /\ base = Tail(queue) /\ gone = {Head(queue)}
            /\ queue' = Append(base, NextPacket(p))
            /\ dropped' = dropped \cup gone
            /\ accepted' = accepted \cup {NextPacket(p)}
            /\ sent' = [sent EXCEPT ![p] = @ + 1]
            /\ pc' = [pc EXCEPT ![p] = "notify"]
            /\ pc[p] = "push" /\ sent[p] < MaxJobs[p]
            /\ Capacity > 0 /\ policy = "Block" => ~stopped
            /\ UNCHANGED <<policy, stopped, jobs, poolStop, held, running, control, starts, handled>>
  <1> DEFINE evicted == IF policy = "DropOldest" /\ Full THEN {Head(queue)} ELSE {}
  <1>1. /\ queue' = Append(IF evicted = {} THEN queue ELSE Tail(queue), NextPacket(p))
        /\ dropped' = dropped \cup evicted
    BY DEF PushAccept
  <1>2. /\ accepted' = accepted \cup {NextPacket(p)}
        /\ sent' = [sent EXCEPT ![p] = @ + 1]
        /\ pc' = [pc EXCEPT ![p] = "notify"]
        /\ Capacity > 0 /\ policy = "Block" => ~stopped
        /\ UNCHANGED <<policy, stopped, jobs, poolStop, held, running, control, starts, handled>>
    BY DEF PushAccept, poolVars
  <1>3. pc[p] = "push" /\ sent[p] < MaxJobs[p]
    BY DEF PushAccept, FrameInv, Positions
  <1>4. Full => queue # <<>>
    BY DispatcherConstants, OnePacket DEF Full, FrameInv, DataTypes
  <1>5. evicted = {} \/ (evicted = {Head(queue)} /\ queue # <<>>)
    BY <1>4
  <1>6. CASE evicted = {}
    <2>1. queue' = Append(queue, NextPacket(p)) /\ dropped' = dropped \cup {}
      BY <1>1, <1>6
    <2> QED
      BY <1>2, <1>3, <2>1
  <1>7. CASE evicted = {Head(queue)} /\ queue # <<>>
    <2>1. queue' = Append(Tail(queue), NextPacket(p)) /\ dropped' = dropped \cup {Head(queue)}
      BY <1>1, <1>7
    <2> QED
      BY <1>2, <1>3, <1>7, <2>1
  <1> QED
    BY <1>5, <1>6, <1>7

(* The ends of push. *)
LEMMA PushFrame ==
    ASSUME FrameInv, NEW p \in Producers,
           PushStopped(p) \/ PushDropNewest(p) \/ PushAccept(p)
    PROVE  FrameInv'
  <1>1. NextPacket(p) \in Packets /\ sent[p] < MaxJobs[p]
    <2>1. pc[p] = "push"
      BY DEF PushStopped, PushDropNewest, PushAccept
    <2> QED
      BY <2>1, NextPacketParts DEF FrameInv, Positions
  <1>2. PICK v \in {"idle", "notify"} : pc' = [pc EXCEPT ![p] = v]
    BY DEF PushStopped, PushDropNewest, PushAccept
  <1>3. sent' = [sent EXCEPT ![p] = @ + 1]
    BY DEF PushStopped, PushDropNewest, PushAccept
  <1>4. /\ pc' = [u \in Threads |-> pc'[u]] /\ pc'[p] = v
        /\ \A u \in Threads : u # p => pc'[u] = pc[u]
    BY <1>2, PcMove, ThreadKinds DEF FrameInv
  <1>5. /\ sent' \in [Producers -> Nat]
        /\ \A q \in Producers : q # p => sent'[q] = sent[q]
        /\ \A q \in Producers : sent'[q] <= MaxJobs[q]
    BY <1>1, <1>3, SentMore DEF FrameInv
  <1>6. /\ UNCHANGED <<policy, stopped, jobs, poolStop, held, running, control, starts, handled>>
    BY DEF PushStopped, PushDropNewest, PushAccept, queueVars, poolVars
  <1>7. Positions'
    BY <1>2, <1>4, <1>5, <1>6, ThreadKinds DEF FrameInv, Positions, Places
  <1>8. /\ queue' \in Seq(Packets) /\ accepted' \subseteq Packets /\ dropped' \subseteq Packets
        /\ UNCHANGED queue \/ (Capacity > 0 /\ policy = "Block" => ~stopped)
    <2>1. CASE PushStopped(p)
      BY <2>1 DEF PushStopped, queueVars, FrameInv, DataTypes
    <2>2. CASE PushDropNewest(p)
      BY <1>1, <2>2 DEF PushDropNewest, queueVars, FrameInv, DataTypes
    <2>3. CASE PushAccept(p)
      <3>1. PICK base, gone :
                /\ \/ base = queue /\ gone = {}
                   \/ queue # <<>> /\ base = Tail(queue) /\ gone = {Head(queue)}
                /\ queue' = Append(base, NextPacket(p))
                /\ dropped' = dropped \cup gone
                /\ accepted' = accepted \cup {NextPacket(p)}
                /\ Capacity > 0 /\ policy = "Block" => ~stopped
        BY <2>3, PushAcceptEffect
      <3>2. base \in Seq(Packets) /\ gone \subseteq Packets
        <4>1. queue \in Seq(Packets)
          BY DEF FrameInv, DataTypes
        <4>2. queue # <<>> => Tail(queue) \in Seq(Packets) /\ {Head(queue)} \subseteq Packets
          BY <4>1, TakeFirst
        <4> QED
          BY <3>1, <4>1, <4>2
      <3>3. queue' \in Seq(Packets)
        BY <1>1, <3>1, <3>2, PutLast
      <3> QED
        BY <1>1, <3>1, <3>2, <3>3 DEF FrameInv, DataTypes
    <2> QED
      BY <2>1, <2>2, <2>3
  <1>9. DataTypes'
    BY <1>5, <1>6, <1>8 DEF FrameInv, DataTypes
  <1>10. Phases'
    BY <1>4, <1>6, <1>8, ThreadKinds DEF FrameInv, Phases
  <1> QED
    BY <1>7, <1>9, <1>10 DEF FrameInv

(* PacketQueue::pop takes the head of the queue. *)
LEMMA PopTakeFrame ==
    ASSUME FrameInv, PopTake
    PROVE  FrameInv'
  <1>1. PICK v \in {"notify", "submit"} : pc' = [pc EXCEPT ![Dispatcher] = v]
    BY DEF PopTake
  <1>2. /\ pc[Dispatcher] = "pop" /\ queue # <<>>
        /\ held' = <<Head(queue)>> /\ queue' = Tail(queue)
        /\ UNCHANGED <<policy, stopped, jobs, poolStop, running, control, starts>>
        /\ UNCHANGED <<sent, accepted, dropped, handled>>
    BY DEF PopTake, poolVars, history
  <1>3. /\ pc' = [u \in Threads |-> pc'[u]] /\ pc'[Dispatcher] = v
        /\ \A u \in Threads : u # Dispatcher => pc'[u] = pc[u]
    BY <1>1, PcMove, ThreadKinds DEF FrameInv
  <1>4. queue' \in Seq(Packets) /\ held' \in Seq(Packets) /\ Len(held') = 1
    BY <1>2, TakeFirst DEF FrameInv, DataTypes
  <1>5. DataTypes'
    BY <1>2, <1>4 DEF FrameInv, DataTypes
  <1>6. Positions'
    BY <1>1, <1>2, <1>3, <1>4, ThreadKinds DEF FrameInv, Positions, Places
  <1>7. Phases'
    BY <1>1, <1>2, <1>3, ThreadKinds DEF FrameInv, Phases
  <1> QED
    BY <1>5, <1>6, <1>7 DEF FrameInv

(* What submit does: the packet held goes to the end of jobs_. *)
LEMMA SubmitEffect ==
    ASSUME FrameInv, Submit
    PROVE  /\ held[1] \in Packets /\ ToSet(held) = {held[1]} /\ Len(held) = 1
           /\ jobs' = Append(jobs, held[1]) /\ held' = <<>>
           /\ pc[Dispatcher] = "submit"
           /\ pc' = [pc EXCEPT ![Dispatcher] = "submitNotify"]
           /\ UNCHANGED <<policy, queue, stopped, poolStop, running, control, starts>>
           /\ UNCHANGED <<sent, accepted, dropped, handled>>
  <1>1. /\ pc[Dispatcher] = "submit" /\ jobs' = jobs \o held /\ held' = <<>>
        /\ pc' = [pc EXCEPT ![Dispatcher] = "submitNotify"]
        /\ UNCHANGED <<policy, queue, stopped, poolStop, running, control, starts>>
        /\ UNCHANGED <<sent, accepted, dropped, handled>>
    BY DEF Submit, queueVars, history
  <1>2. held \in Seq(Packets) /\ jobs \in Seq(Packets) /\ Len(held) = 1
    BY <1>1 DEF FrameInv, DataTypes, Positions
  <1>3. held[1] \in Packets /\ held = <<held[1]>> /\ ToSet(held) = {held[1]}
    BY <1>2, OnePacket
  <1>4. \A h \in Packets : jobs \o <<h>> = Append(jobs, h)
    BY <1>2, AppendIsConcat
  <1>5. jobs' = Append(jobs, held[1])
    BY <1>1, <1>3, <1>4
  <1> QED
    BY <1>1, <1>2, <1>3, <1>5

LEMMA SubmitFrame ==
    ASSUME FrameInv, Submit
    PROVE  FrameInv'
  <1>1. /\ held[1] \in Packets
        /\ jobs' = Append(jobs, held[1]) /\ held' = <<>>
        /\ pc[Dispatcher] = "submit"
        /\ pc' = [pc EXCEPT ![Dispatcher] = "submitNotify"]
        /\ UNCHANGED <<policy, queue, stopped, poolStop, running, control, starts>>
        /\ UNCHANGED <<sent, accepted, dropped, handled>>
    BY SubmitEffect
  <1>2. /\ pc' = [u \in Threads |-> pc'[u]] /\ pc'[Dispatcher] = "submitNotify"
        /\ \A u \in Threads : u # Dispatcher => pc'[u] = pc[u]
    BY <1>1, PcMove, ThreadKinds DEF FrameInv
  <1>3. jobs' \in Seq(Packets) /\ held' \in Seq(Packets) /\ Len(held') = 0
    BY <1>1, PutLast, EmptySeq DEF FrameInv, DataTypes
  <1>4. DataTypes'
    BY <1>1, <1>3 DEF FrameInv, DataTypes
  <1>5. UNCHANGED <<running, sent>>
    BY <1>1
  <1>6. Positions'
    BY <1>2, <1>3, <1>5, ThreadKinds DEF FrameInv, Positions, Places
  <1>7. \A w \in Workers : pc[w] # "exit"
    BY <1>1 DEF FrameInv, Phases
  <1>8. Phases'
    BY <1>1, <1>2, <1>7, ThreadKinds DEF FrameInv, Phases
  <1> QED
    BY <1>4, <1>6, <1>8 DEF FrameInv

(* A worker takes a packet. *)
LEMMA TakeFrame ==
    ASSUME FrameInv, NEW w \in Workers, Take(w)
    PROVE  FrameInv'
  <1>1. /\ pc[w] = "take" /\ jobs # <<>> /\ jobs' = Tail(jobs)
        /\ UNCHANGED <<policy, queue, stopped, poolStop, held, control, starts>>
        /\ UNCHANGED <<sent, accepted, dropped, handled>>
    BY DEF Take, queueVars, history
  <1>2. /\ pc' = [u \in Threads |-> pc'[u]] /\ pc'[w] = "start"
        /\ \A u \in Threads : u # w => pc'[u] = pc[u]
    BY PcMove, ThreadKinds DEF FrameInv, Take
  <1>3. Head(jobs) \in Packets /\ jobs' \in Seq(Packets)
    BY <1>1, TakeFirst DEF FrameInv, DataTypes
  <1>4. /\ running' \in [Workers -> SUBSET Packets] /\ running'[w] = {Head(jobs)}
        /\ \A v \in Workers : v # w => running'[v] = running[v]
    BY <1>3 DEF Take, FrameInv, DataTypes
  <1>5. DataTypes'
    BY <1>1, <1>3, <1>4 DEF FrameInv, DataTypes
  <1>6. UNCHANGED <<held, sent>>
    BY <1>1
  <1>7. Positions'
    <2>1. \A t \in Threads : pc'[t] \in Places(t)
      BY <1>2, ThreadKinds DEF FrameInv, Positions, Places
    <2>2. \A p \in Producers : pc'[p] \in {"push", "asleep"} => sent'[p] < MaxJobs[p]
      BY <1>2, <1>6, ThreadKinds DEF FrameInv, Positions
    <2>3. Len(held') = IF pc'[Dispatcher] \in {"notify", "submit"} THEN 1 ELSE 0
      BY <1>2, <1>6, ThreadKinds DEF FrameInv, Positions
    <2>4. \A v \in Workers : /\ pc'[v] \in {"start", "run"} => \E k : running'[v] = {k}
                             /\ pc'[v] \notin {"start", "run"} => running'[v] = {}
      <3>1. \E k : running'[w] = {k}
        BY <1>4
      <3>2. \A v \in Workers \ {w} : pc'[v] = pc[v] /\ running'[v] = running[v]
        BY <1>2, <1>4, ThreadKinds
      <3> QED
        BY <1>2, <3>1, <3>2 DEF FrameInv, Positions
    <2> QED
      BY <1>2, <2>1, <2>2, <2>3, <2>4 DEF Positions
  <1>8. \A v \in Workers : pc[v] # "exit"
    BY <1>1 DEF FrameInv, Phases
  <1>9. Phases'
    BY <1>1, <1>2, <1>8, ThreadKinds DEF FrameInv, Phases
  <1> QED
    BY <1>5, <1>7, <1>9 DEF FrameInv

(* A handler returns. *)
LEMMA HandlerReturnsFrame ==
    ASSUME FrameInv, NEW w \in Workers, HandlerReturns(w)
    PROVE  FrameInv'
  <1>1. /\ pc[w] = "run" /\ handled' = handled \cup running[w]
        /\ UNCHANGED <<policy, queue, stopped, jobs, poolStop, held, control, starts>>
        /\ UNCHANGED <<sent, accepted, dropped>>
    BY DEF HandlerReturns, queueVars, poolVars
  <1>2. /\ pc' = [u \in Threads |-> pc'[u]] /\ pc'[w] = "take"
        /\ \A u \in Threads : u # w => pc'[u] = pc[u]
    BY PcMove, ThreadKinds DEF FrameInv, HandlerReturns
  <1>3. /\ running' \in [Workers -> SUBSET Packets] /\ running'[w] = {}
        /\ \A v \in Workers : v # w => running'[v] = running[v]
    BY DEF HandlerReturns, FrameInv, DataTypes
  <1>4. DataTypes'
    BY <1>1, <1>3 DEF FrameInv, DataTypes
  <1>5. UNCHANGED <<held, sent>>
    BY <1>1
  <1>6. Positions'
    <2>1. \A t \in Threads : pc'[t] \in Places(t)
      BY <1>2, ThreadKinds DEF FrameInv, Positions, Places
    <2>2. \A p \in Producers : pc'[p] \in {"push", "asleep"} => sent'[p] < MaxJobs[p]
      BY <1>2, <1>5, ThreadKinds DEF FrameInv, Positions
    <2>3. Len(held') = IF pc'[Dispatcher] \in {"notify", "submit"} THEN 1 ELSE 0
      BY <1>2, <1>5, ThreadKinds DEF FrameInv, Positions
    <2>4. ASSUME NEW v \in Workers
          PROVE  /\ pc'[v] \in {"start", "run"} => \E k : running'[v] = {k}
                 /\ pc'[v] \notin {"start", "run"} => running'[v] = {}
      <3>1. CASE v = w
        BY <1>2, <1>3, <3>1
      <3>2. CASE v # w
        <4>1. pc'[v] = pc[v] /\ running'[v] = running[v]
          BY <1>2, <1>3, <3>2, ThreadKinds
        <4>2. /\ pc[v] \in {"start", "run"} => \E k : running[v] = {k}
              /\ pc[v] \notin {"start", "run"} => running[v] = {}
          BY DEF FrameInv, Positions
        <4> QED
          BY <4>1, <4>2
      <3> QED
        BY <3>1, <3>2
    <2> QED
      BY <1>2, <2>1, <2>2, <2>3, <2>4 DEF Positions
  <1>7. Phases'
    BY <1>1, <1>2, ThreadKinds DEF FrameInv, Phases
  <1> QED
    BY <1>4, <1>6, <1>7 DEF FrameInv

-----------------------------------------------------------------------------
(* Frame: the types and the phases *)

(* The seven steps that move packets; every other step leaves dataVars alone.*)
PushEnds(p) == PushStopped(p) \/ PushDropNewest(p) \/ PushAccept(p)
PacketStep ==
    \/ \E p \in Producers : PushEnds(p)
    \/ PopTake \/ Submit
    \/ \E w \in Workers : Take(w) \/ HandlerReturns(w)

LEMMA FrameStep ==
    ASSUME FrameInv, [DispatcherNext]_dispatcherVars
    PROVE  FrameInv'
  <1>1. CASE UNCHANGED dispatcherVars
    BY <1>1 DEF FrameInv, DataTypes, Positions, Phases, dispatcherVars, queueVars, poolVars, history
  <1>2. CASE \E p \in Producers : PushEnds(p)
    BY <1>2, PushFrame DEF PushEnds
  <1>3. CASE PopTake \/ Submit
    BY <1>3, PopTakeFrame, SubmitFrame
  <1>4. CASE \E w \in Workers : Take(w) \/ HandlerReturns(w)
    BY <1>4, TakeFrame, HandlerReturnsFrame
  <1>5. CASE \/ \E p \in Producers : CallPush(p) \/ PushWait(p)
             \/ PopWait \/ PopEnd
             \/ \E w \in Workers : TakeWait(w) \/ TakeEnd(w) \/ HandlerBegins(w)
    BY <1>5, MoveFrame
  <1>6. CASE \/ \E p \in Producers : PushNotify(p)
             \/ PopNotify \/ SubmitNotify
             \/ StopQueueNotify \/ StopPoolNotify
    BY <1>6, NotifyFrame
  <1>7. CASE Start \/ StopQueue \/ StopPool \/ StopReturn
    BY <1>7, ControlFrame
  <1> QED
    BY <1>1, <1>2, <1>3, <1>4, <1>5, <1>6, <1>7
       DEF DispatcherNext, Push, PushEnds, DispatchLoop, WorkerLoop, Stopping

LEMMA OtherSteps ==
    ASSUME [DispatcherNext]_dispatcherVars, ~PacketStep
    PROVE  UNCHANGED dataVars
  <1>1. CASE UNCHANGED dispatcherVars
    BY <1>1 DEF dispatcherVars, queueVars, poolVars, history, dataVars
  <1>2. CASE \/ \E p \in Producers : CallPush(p) \/ PushWait(p) \/ PushNotify(p)
             \/ PopWait \/ PopEnd \/ PopNotify \/ SubmitNotify
             \/ \E w \in Workers : TakeWait(w) \/ TakeEnd(w) \/ HandlerBegins(w)
             \/ Start \/ StopQueue \/ Stopping
    <2>1. UNCHANGED <<queue, jobs, held, running, history>>
      BY <1>2
         DEF CallPush, PushWait, PushNotify, PopWait, PopEnd, PopNotify, SubmitNotify,
             TakeWait, TakeEnd, HandlerBegins, Start, StopQueue, Stopping, StopQueueNotify, StopPool,
             StopPoolNotify, StopReturn, queueVars, poolVars
    <2> QED
      BY <2>1 DEF dataVars
  <1> QED
    BY <1>1, <1>2
       DEF PacketStep, PushEnds, DispatcherNext, Push, DispatchLoop, WorkerLoop

LEMMA FrameInit ==
    ASSUME DispatcherInit
    PROVE  FrameInv
  <1>1. DataTypes
    BY DispatcherConstants, EmptySeq DEF DispatcherInit, DataTypes
  <1>2. /\ pc = [t \in Threads |-> pc[t]]
        /\ \A p \in Producers : pc[p] = "idle"
        /\ \A w \in Workers : pc[w] = "exit"
        /\ pc[Dispatcher] = "exit"
    BY ThreadKinds DEF DispatcherInit
  <1>3. Positions
    BY <1>2, ThreadKinds, EmptySeq DEF DispatcherInit, Positions, Places
  <1>4. Phases
    <2>1. /\ policy \in Policies /\ stopped = FALSE /\ poolStop = FALSE
          /\ control = "halted" /\ starts \in 0 .. MaxStarts
          /\ queue = <<>> /\ jobs = <<>>
      BY DispatcherConstants DEF DispatcherInit
    <2> QED
      BY <1>2, <2>1 DEF Phases
  <1> QED
    BY <1>1, <1>3, <1>4 DEF FrameInv

(* Every state the dispatcher can reach is a state of FrameInv. *)
THEOREM DispatcherFrame == DispatcherSpec => []FrameInv
  <1>1. DispatcherInit => FrameInv
    BY FrameInit
  <1>2. FrameInv /\ [DispatcherNext]_dispatcherVars => FrameInv'
    BY FrameStep
  <1> QED
    BY <1>1, <1>2, PTL DEF DispatcherSpec

(* worker_pool.cpp keeps its types: in particular the dispatcher has a       *)
(* packet in hand exactly between pop and submit, and a worker exactly from  *)
(* taking it to its handler's return.                                        *)
THEOREM DispatcherTypeCorrect == DispatcherSpec => []DispatcherTypeOK
  <1>1. ASSUME FrameInv
        PROVE  DispatcherTypeOK
    <2>1. \A t \in Threads :
              Places(t) \subseteq {"idle", "push", "pop", "take", "asleep", "notify", "submit",
                                   "submitNotify", "start", "run", "exit"}
      BY DEF Places
    <2>2. pc \in [Threads -> {"idle", "push", "pop", "take", "asleep", "notify", "submit",
                              "submitNotify", "start", "run", "exit"}]
      BY <1>1, <2>1 DEF FrameInv, Positions
    <2>3. \A w \in Workers : Cardinality(running[w]) = IF pc[w] \in {"start", "run"} THEN 1 ELSE 0
      <3>1. TAKE w \in Workers
      <3>2. CASE pc[w] \in {"start", "run"}
        <4>1. PICK k : running[w] = {k}
          BY <1>1, <3>2 DEF FrameInv, Positions
        <4>2. Cardinality(running[w]) = 1
          BY <4>1, FS_Singleton
        <4> QED
          BY <3>2, <4>2
      <3>3. CASE pc[w] \notin {"start", "run"}
        <4>1. Cardinality(running[w]) = 0
          BY <1>1, <3>3, FS_EmptySet DEF FrameInv, Positions
        <4> QED
          BY <3>3, <4>1
      <3> QED
        BY <3>2, <3>3
    <2>4. \A p \in Producers : sent[p] \in 0 .. MaxJobs[p]
      BY <1>1, DispatcherConstants DEF FrameInv, DataTypes
    <2>5. Len(held) = IF pc[Dispatcher] \in {"notify", "submit"} THEN 1 ELSE 0
      BY <1>1 DEF FrameInv, Positions
    <2> QED
      BY <1>1, <2>2, <2>3, <2>4, <2>5 DEF FrameInv, DataTypes, Phases, DispatcherTypeOK
  <1> QED
    BY <1>1, DispatcherFrame, PTL

(* PacketDispatcher::stop drains: when it has returned, no packet is held by *)
(* the dispatcher, waits in the pool or is being handled, and a bounded      *)
(* blocking queue is empty. The pool must have a thread: WorkerPool takes a  *)
(* thread count of 0, and then nobody empties jobs_.                         *)
THEOREM DispatcherStopDrains ==
    ASSUME Workers # {}
    PROVE  DispatcherSpec => []StopDrains
  <1>1. ASSUME FrameInv
        PROVE  StopDrains
    <2>1. SUFFICES ASSUME control = "halted"
                   PROVE  /\ held = <<>> /\ jobs = <<>> /\ UNION Range(running) = {}
                          /\ policy = "Block" /\ Capacity > 0 /\ stopped => queue = <<>>
      BY DEF StopDrains
    <2>2. (\A w \in Workers : pc[w] = "exit") /\ pc[Dispatcher] = "exit"
      BY <1>1, <2>1 DEF FrameInv, Phases
    <2>3. jobs = <<>>
      BY <1>1, <2>2 DEF FrameInv, Phases
    <2>4. held = <<>>
      BY <1>1, <2>2, OnePacket DEF FrameInv, Positions, DataTypes
    <2>5. UNION Range(running) = {}
      <3>1. running \in [Workers -> SUBSET Packets]
        BY <1>1 DEF FrameInv, DataTypes
      <3>2. \A w \in Workers : running[w] = {}
        BY <1>1, <2>2 DEF FrameInv, Positions
      <3>3. \A e \in Range(running) : e = {}
        BY <3>1, <3>2 DEF Range
      <3> QED
        BY <3>3
    <2>6. policy = "Block" /\ Capacity > 0 /\ stopped => queue = <<>>
      BY <1>1, <2>2 DEF FrameInv, Phases
    <2> QED
      BY <2>3, <2>4, <2>5, <2>6
  <1> QED
    BY <1>1, DispatcherFrame, PTL

-----------------------------------------------------------------------------
(* Order *)

(* Jobs come before the packet held, that before the queue, and all of them  *)
(* before what their producers send next.                                    *)
OrderInv ==
    /\ Sorted(queue) /\ Sorted(jobs)
    /\ Before(ToSet(jobs), ToSet(held))
    /\ Before(ToSet(jobs), ToSet(queue))
    /\ Before(ToSet(held), ToSet(queue))
    /\ \A k \in Waiting \cup accepted \cup dropped : k[2] <= sent[k[1]]

(* What waits are packets. *)
LEMMA WaitingPackets ==
    ASSUME FrameInv
    PROVE  /\ Waiting \subseteq Packets
           /\ Waiting \cup accepted \cup dropped \subseteq Packets
           /\ ToSet(queue) \subseteq Waiting /\ ToSet(held) \subseteq Waiting
           /\ ToSet(jobs) \subseteq Waiting
  <1>1. ToSet(queue) \subseteq Packets /\ ToSet(held) \subseteq Packets /\ ToSet(jobs) \subseteq Packets
    BY ElementsOf DEF FrameInv, DataTypes
  <1>2. accepted \subseteq Packets /\ dropped \subseteq Packets
    BY DEF FrameInv, DataTypes
  <1> QED
    BY <1>1, <1>2 DEF Waiting

(* The next packet of p is newer than all it has sent. *)
LEMMA NextIsNew ==
    ASSUME FrameInv, OrderInv, NEW p \in Producers, sent[p] < MaxJobs[p]
    PROVE  /\ NextPacket(p) \in Packets
           /\ Before(Waiting, {NextPacket(p)}) /\ Before(accepted, {NextPacket(p)})
           /\ NextPacket(p) \notin accepted \cup dropped \cup Waiting
  <1>1. /\ NextPacket(p) \in Packets
        /\ NextPacket(p)[1] = p /\ NextPacket(p)[2] = sent[p] + 1
    BY NextPacketParts DEF FrameInv
  <1>2. sent[p] \in Nat
    BY DEF FrameInv, DataTypes
  <1>3. ASSUME NEW k \in Waiting \cup accepted \cup dropped, k[1] = p
        PROVE  k[2] < sent[p] + 1
    <2>1. k[2] \in Nat
      BY PacketParts, WaitingPackets
    <2>2. k[2] <= sent[p]
      BY <1>3 DEF OrderInv
    <2> QED
      BY <1>2, <2>1, <2>2
  <1>4. Before(Waiting, {NextPacket(p)}) /\ Before(accepted, {NextPacket(p)})
    BY <1>1, <1>3 DEF Before
  <1>5. NextPacket(p) \notin accepted \cup dropped \cup Waiting
    BY <1>1, <1>2, <1>3
  <1> QED
    BY <1>1, <1>4, <1>5

(* Numbers stay below the count of what was sent when one more is sent. *)
LEMMA NumbersGrow ==
    ASSUME FrameInv, OrderInv, NEW p \in Producers, sent[p] < MaxJobs[p],
           sent' = [sent EXCEPT ![p] = @ + 1],
           NEW k \in Waiting \cup accepted \cup dropped \cup {NextPacket(p)}
    PROVE  k[2] <= sent'[k[1]]
  <1>1. /\ sent'[p] = sent[p] + 1 /\ sent' \in [Producers -> Nat]
        /\ \A q \in Producers : sent[q] \in Nat /\ sent[q] <= sent'[q]
    BY SentMore DEF FrameInv
  <1>2. CASE k = NextPacket(p)
    BY <1>1, <1>2, NextPacketParts DEF FrameInv
  <1>3. CASE k \in Waiting \cup accepted \cup dropped
    <2>1. k[2] <= sent[k[1]]
      BY <1>3 DEF OrderInv
    <2>2. k[1] \in Producers /\ k[2] \in Nat
      BY <1>3, PacketParts, WaitingPackets
    <2> QED
      BY <1>1, <2>1, <2>2
  <1> QED
    BY <1>2, <1>3

(* A push ends: the queue grows at its end, and may lose its head. *)
LEMMA PushOrder ==
    ASSUME FrameInv, OrderInv, NEW p \in Producers, PushEnds(p)
    PROVE  /\ OrderInv'
           /\ Waiting' \subseteq Waiting \cup {NextPacket(p)}
           /\ Before(accepted, {NextPacket(p)})
  <1>1. sent[p] < MaxJobs[p] /\ UNCHANGED <<jobs, held>>
        /\ sent' = [sent EXCEPT ![p] = @ + 1]
    <2>1. /\ pc[p] = "push" /\ UNCHANGED <<jobs, held>>
          /\ sent' = [sent EXCEPT ![p] = @ + 1]
      BY DEF PushEnds, PushStopped, PushDropNewest, PushAccept, poolVars
    <2> QED
      BY <2>1 DEF FrameInv, Positions
  <1>2. /\ Sorted(queue') /\ ToSet(queue') \subseteq ToSet(queue) \cup {NextPacket(p)}
        /\ accepted' \subseteq accepted \cup {NextPacket(p)}
        /\ dropped' \subseteq dropped \cup Waiting \cup {NextPacket(p)}
    <2>1. CASE PushStopped(p)
      BY <2>1 DEF PushStopped, queueVars, OrderInv
    <2>2. CASE PushDropNewest(p)
      BY <2>2 DEF PushDropNewest, queueVars, OrderInv
    <2>3. CASE PushAccept(p)
      <3>1. PICK base, gone :
                /\ \/ base = queue /\ gone = {}
                   \/ queue # <<>> /\ base = Tail(queue) /\ gone = {Head(queue)}
                /\ queue' = Append(base, NextPacket(p))
                /\ dropped' = dropped \cup gone
                /\ accepted' = accepted \cup {NextPacket(p)}
        BY <2>3, PushAcceptEffect
      <3>2. queue \in Seq(Packets) /\ Sorted(queue)
        BY DEF FrameInv, DataTypes, OrderInv
      <3>3. queue # <<>> => /\ Tail(queue) \in Seq(Packets) /\ Sorted(Tail(queue))
                            /\ ToSet(queue) = {Head(queue)} \cup ToSet(Tail(queue))
        BY <3>2, TakeFirst
      <3>4. /\ base \in Seq(Packets) /\ Sorted(base)
            /\ ToSet(base) \subseteq ToSet(queue) /\ gone \subseteq ToSet(queue)
        BY <3>1, <3>2, <3>3
      <3>5. NextPacket(p) \in Packets /\ Before(Waiting, {NextPacket(p)})
        BY <1>1, NextIsNew
      <3>6. Before(ToSet(base), {NextPacket(p)})
        BY <3>4, <3>5, WaitingPackets DEF Before
      <3>7. Sorted(queue') /\ ToSet(queue') = ToSet(base) \cup {NextPacket(p)}
        BY <3>1, <3>4, <3>5, <3>6, PutLast
      <3> QED
        BY <3>1, <3>4, <3>7, WaitingPackets
    <2> QED
      BY <2>1, <2>2, <2>3 DEF PushEnds
  <1>3. Before(Waiting, {NextPacket(p)}) /\ Before(accepted, {NextPacket(p)})
    BY <1>1, NextIsNew
  <1>4. Before(ToSet(jobs), ToSet(queue) \cup {NextPacket(p)})
        /\ Before(ToSet(held), ToSet(queue) \cup {NextPacket(p)})
    BY <1>3, WaitingPackets DEF OrderInv, Before
  <1>5. Before(ToSet(jobs), ToSet(queue')) /\ Before(ToSet(held), ToSet(queue'))
    BY <1>2, <1>4 DEF Before
  <1>6. Waiting' \cup accepted' \cup dropped'
            \subseteq Waiting \cup accepted \cup dropped \cup {NextPacket(p)}
    BY <1>1, <1>2 DEF Waiting
  <1>7. \A k \in Waiting' \cup accepted' \cup dropped' : k[2] <= sent'[k[1]]
    BY <1>1, <1>6, NumbersGrow
  <1>8. Waiting' \subseteq Waiting \cup {NextPacket(p)}
    BY <1>1, <1>2 DEF Waiting
  <1> QED
    BY <1>1, <1>2, <1>3, <1>5, <1>7, <1>8 DEF OrderInv

(* PacketQueue::pop hands over the oldest packet. *)
LEMMA PopTakeOrder ==
    ASSUME FrameInv, OrderInv, PopTake
    PROVE  OrderInv' /\ Waiting' = Waiting /\ ToSet(held) = {}
  <1>1. /\ pc[Dispatcher] = "pop" /\ queue # <<>>
        /\ held' = <<Head(queue)>> /\ queue' = Tail(queue)
        /\ UNCHANGED <<jobs, sent, accepted, dropped>>
    BY DEF PopTake, poolVars, history
  <1>2. ToSet(held) = {}
    <2>1. held \in Seq(Packets) /\ Len(held) = 0
      BY <1>1 DEF FrameInv, Positions, DataTypes
    <2> QED
      BY <2>1, OnePacket
  <1>3. /\ Sorted(queue') /\ Before({Head(queue)}, ToSet(queue'))
        /\ ToSet(queue) = {Head(queue)} \cup ToSet(queue')
        /\ Head(queue) \in Packets
    BY <1>1, TakeFirst DEF FrameInv, DataTypes, OrderInv
  <1>4. ToSet(held') = {Head(queue)}
    <2>1. /\ <<Head(queue)>> \in Seq(Packets) /\ Len(<<Head(queue)>>) = 1
          /\ <<Head(queue)>>[1] = Head(queue)
      BY <1>3
    <2>2. ToSet(<<Head(queue)>>) = {Head(queue)}
      BY <2>1, OnePacket
    <2> QED
      BY <1>1, <2>2
  <1>5. Before(ToSet(jobs), ToSet(held')) /\ Before(ToSet(jobs), ToSet(queue'))
    BY <1>3, <1>4 DEF OrderInv, Before
  <1>6. Waiting' = Waiting
    BY <1>1, <1>2, <1>3, <1>4 DEF Waiting
  <1> QED
    BY <1>1, <1>2, <1>3, <1>4, <1>5, <1>6 DEF OrderInv

(* WorkerPool::submit puts it behind the jobs that are there. *)
LEMMA SubmitOrder ==
    ASSUME FrameInv, OrderInv, Submit
    PROVE  OrderInv' /\ Waiting' = Waiting
  <1>1. /\ held[1] \in Packets /\ ToSet(held) = {held[1]}
        /\ jobs' = Append(jobs, held[1]) /\ held' = <<>>
        /\ UNCHANGED <<queue, sent, accepted, dropped>>
    BY SubmitEffect
  <1>2. ToSet(held') = {}
    BY <1>1, EmptySeq, OnePacket
  <1>3. jobs \in Seq(Packets) /\ Sorted(jobs) /\ Before(ToSet(jobs), {held[1]})
    BY <1>1 DEF FrameInv, DataTypes, OrderInv
  <1>4. Sorted(jobs') /\ ToSet(jobs') = ToSet(jobs) \cup {held[1]}
    BY <1>1, <1>3, PutLast
  <1>5. Before(ToSet(jobs'), ToSet(queue'))
    BY <1>1, <1>4 DEF OrderInv, Before
  <1>6. Before(ToSet(jobs'), ToSet(held')) /\ Before(ToSet(held'), ToSet(queue'))
    BY <1>2 DEF Before
  <1>7. Waiting' = Waiting
    BY <1>1, <1>2, <1>4 DEF Waiting
  <1> QED
    BY <1>1, <1>4, <1>5, <1>6, <1>7 DEF OrderInv

(* A worker takes the oldest job; everything else of its producer is newer.  *)
LEMMA TakeOrder ==
    ASSUME FrameInv, OrderInv, NEW w \in Workers, Take(w)
    PROVE  /\ OrderInv' /\ Waiting = Waiting' \cup {Head(jobs)}
           /\ Before({Head(jobs)}, Waiting') /\ Head(jobs) \notin Waiting'
           /\ Head(jobs) \in Packets
  <1>1. /\ jobs # <<>> /\ jobs' = Tail(jobs)
        /\ UNCHANGED <<queue, held, sent, accepted, dropped>>
    BY DEF Take, queueVars, history
  <1>2. /\ Sorted(jobs') /\ Before({Head(jobs)}, ToSet(jobs'))
        /\ ToSet(jobs) = {Head(jobs)} \cup ToSet(jobs')
        /\ Head(jobs) \in Packets
    BY <1>1, TakeFirst DEF FrameInv, DataTypes, OrderInv
  <1>3. Before({Head(jobs)}, ToSet(held)) /\ Before({Head(jobs)}, ToSet(queue))
    BY <1>2 DEF OrderInv, Before
  <1>4. Before({Head(jobs)}, Waiting')
    BY <1>1, <1>2, <1>3 DEF Waiting, Before
  <1>5. Head(jobs) \notin Waiting'
    BY <1>2, <1>4, PacketParts DEF Before
  <1>6. Waiting = Waiting' \cup {Head(jobs)}
    BY <1>1, <1>2 DEF Waiting
  <1>7. Before(ToSet(jobs'), ToSet(held')) /\ Before(ToSet(jobs'), ToSet(queue'))
    BY <1>1, <1>2 DEF OrderInv, Before
  <1> QED
    BY <1>1, <1>2, <1>4, <1>5, <1>6, <1>7 DEF OrderInv

LEMMA OrderInit ==
    ASSUME DispatcherInit
    PROVE  OrderInv
  <1>1. queue = <<>> /\ jobs = <<>> /\ held = <<>> /\ accepted = {} /\ dropped = {}
    BY DEF DispatcherInit
  <1>2. ToSet(<<>>) = {}
    BY EmptySeq, OnePacket
  <1>3. Sorted(<<>>)
    BY DEF Sorted
  <1> QED
    BY <1>1, <1>2, <1>3 DEF OrderInv, Before, Waiting

LEMMA OrderInvStep ==
    ASSUME FrameInv, OrderInv, [DispatcherNext]_dispatcherVars
    PROVE  OrderInv'
  <1>1. CASE ~PacketStep
    BY <1>1, OtherSteps DEF dataVars, history, OrderInv, Waiting
  <1>2. ASSUME NEW w \in Workers, HandlerReturns(w)
        PROVE  OrderInv'
    BY <1>2 DEF HandlerReturns, queueVars, poolVars, OrderInv, Waiting
  <1> QED
    BY <1>1, <1>2, PushOrder, PopTakeOrder, SubmitOrder, TakeOrder DEF PacketStep

-----------------------------------------------------------------------------
(* Census *)

Busy == UNION Range(running)
Evicted == dropped \cap accepted

(* Every accepted packet is at one place; nothing that waits was begun,      *)
(* handled or dropped before, and nothing begun was handled before.          *)
Whereabouts ==
    /\ accepted = Waiting \cup Busy \cup handled \cup Evicted
    /\ \A k \in Waiting : k \notin Busy /\ k \notin handled /\ k \notin dropped
    /\ \A k \in Busy : k \notin handled
    /\ \A v, w \in Workers : v # w => running[v] \cap running[w] = {}

Counts ==
    /\ IsFiniteSet(accepted)
    /\ Len(queue) + Len(held) + Len(jobs)
         + Cardinality(Busy) + Cardinality(handled) + Cardinality(Evicted)
       = Cardinality(accepted)

CensusInv == Whereabouts /\ Counts

(* What the workers are busy with. *)
LEMMA BusyWith ==
    ASSUME running \in [Workers -> SUBSET Packets]
    PROVE  \A k : k \in Busy <=> \E w \in Workers : k \in running[w]
  BY DEF Busy, Range

(* All the numbers of the count are numbers. *)
LEMMA CensusNumbers ==
    ASSUME FrameInv, CensusInv
    PROVE  /\ Len(queue) \in Nat /\ Len(held) \in Nat /\ Len(jobs) \in Nat
           /\ IsFiniteSet(Busy) /\ IsFiniteSet(handled) /\ IsFiniteSet(Evicted)
           /\ IsFiniteSet(accepted)
           /\ Cardinality(Busy) \in Nat /\ Cardinality(handled) \in Nat
           /\ Cardinality(Evicted) \in Nat /\ Cardinality(accepted) \in Nat
  <1>1. Len(queue) \in Nat /\ Len(held) \in Nat /\ Len(jobs) \in Nat
    BY LenProperties DEF FrameInv, DataTypes
  <1>2. IsFiniteSet(accepted)
    BY DEF CensusInv, Counts
  <1>3. /\ Busy \in SUBSET accepted /\ handled \in SUBSET accepted
        /\ Evicted \in SUBSET accepted
    BY DEF CensusInv, Whereabouts
  <1>4. IsFiniteSet(Busy) /\ IsFiniteSet(handled) /\ IsFiniteSet(Evicted)
    BY <1>2, <1>3, FS_Subset
  <1> QED
    BY <1>1, <1>2, <1>4, FS_CardinalityType

(* A push that fails, or drops the new packet, changes no place. *)
LEMMA PushFailsCensus ==
    ASSUME FrameInv, OrderInv, CensusInv, NEW p \in Producers,
           PushStopped(p) \/ PushDropNewest(p)
    PROVE  CensusInv'
  <1>1. /\ UNCHANGED <<queue, jobs, held, running, accepted, handled>>
        /\ dropped' \subseteq dropped \cup {NextPacket(p)} /\ dropped \subseteq dropped'
        /\ pc[p] = "push"
    BY DEF PushStopped, PushDropNewest, queueVars, poolVars
  <1>2. sent[p] < MaxJobs[p]
    BY <1>1 DEF FrameInv, Positions
  <1>3. NextPacket(p) \notin accepted \cup dropped \cup Waiting
    BY <1>2, NextIsNew
  <1>4. UNCHANGED <<Waiting, Busy, Evicted>>
    BY <1>1, <1>3 DEF Waiting, Busy, Evicted
  <1>5. Whereabouts'
    BY <1>1, <1>3, <1>4 DEF CensusInv, Whereabouts
  <1>6. Counts'
    BY <1>1, <1>4 DEF CensusInv, Counts
  <1> QED
    BY <1>5, <1>6 DEF CensusInv

(* A push that succeeds adds one packet, and may turn the oldest into a      *)
(* dropped one.                                                              *)
LEMMA PushAcceptCensus ==
    ASSUME FrameInv, OrderInv, CensusInv, NEW p \in Producers, PushAccept(p)
    PROVE  CensusInv'
  <1> DEFINE n == NextPacket(p)
  <1>1. PICK base, gone :
            /\ \/ base = queue /\ gone = {}
               \/ queue # <<>> /\ base = Tail(queue) /\ gone = {Head(queue)}
            /\ queue' = Append(base, n)
            /\ dropped' = dropped \cup gone
            /\ accepted' = accepted \cup {n}
            /\ sent[p] < MaxJobs[p]
            /\ UNCHANGED <<jobs, held, running, handled>>
    BY PushAcceptEffect
  <1>2. n \in Packets /\ n \notin accepted \cup dropped \cup Waiting
    BY <1>1, NextIsNew
  <1> HIDE DEF n
  <1>3. queue \in Seq(Packets) /\ Sorted(queue)
    BY DEF FrameInv, DataTypes, OrderInv
  <1>4. queue # <<>> =>
            /\ Tail(queue) \in Seq(Packets) /\ Len(Tail(queue)) = Len(queue) - 1
            /\ ToSet(queue) = {Head(queue)} \cup ToSet(Tail(queue))
            /\ Head(queue) \notin ToSet(Tail(queue)) /\ Head(queue) \in Packets
    BY <1>3, TakeFirst
  <1>5. base \in Seq(Packets) /\ ToSet(queue) = ToSet(base) \cup gone
        /\ \A k \in gone : k \notin ToSet(base)
    BY <1>1, <1>3, <1>4
  <1>6. Len(queue') = Len(base) + 1 /\ ToSet(queue') = ToSet(base) \cup {n} /\ Len(base) \in Nat
    BY <1>1, <1>2, <1>5, PutLast
  <1>7. \A k \in gone : k \notin ToSet(held) \cup ToSet(jobs)
    <2>1. ASSUME NEW k \in gone, k \in ToSet(held) \cup ToSet(jobs)
          PROVE  FALSE
      <3>1. k \in ToSet(queue)
        BY <1>5, <2>1
      <3>2. k[2] < k[2]
        BY <2>1, <3>1 DEF OrderInv, Before
      <3>3. k \in Packets
        BY <1>3, <3>1, ElementsOf
      <3> QED
        BY <3>2, <3>3, PacketParts
    <2> QED
      BY <2>1
  <1>8. Waiting = (Waiting' \ {n}) \cup gone /\ n \in Waiting' /\ \A k \in gone : k \notin Waiting'
    <2>1. gone \subseteq Waiting
      BY <1>5 DEF Waiting
    <2>2. Waiting' = ToSet(base) \cup {n} \cup ToSet(held) \cup ToSet(jobs)
      BY <1>1, <1>6 DEF Waiting
    <2>3. Waiting = ToSet(base) \cup gone \cup ToSet(held) \cup ToSet(jobs)
      BY <1>5 DEF Waiting
    <2> QED
      BY <1>2, <1>5, <1>7, <2>1, <2>2, <2>3
  <1>9. Busy' = Busy /\ Busy \subseteq accepted /\ handled \subseteq accepted
    BY <1>1 DEF Busy, CensusInv, Whereabouts
  <1>10. gone \subseteq accepted /\ \A k \in gone : k \notin dropped
    BY <1>8 DEF CensusInv, Whereabouts
  <1>11. Evicted' = Evicted \cup gone
    BY <1>1, <1>2, <1>10 DEF Evicted
  <1>12. Whereabouts'
    <2>1. accepted' = Waiting' \cup Busy' \cup handled' \cup Evicted'
      BY <1>1, <1>2, <1>8, <1>9, <1>11 DEF CensusInv, Whereabouts
    <2>2. \A k \in Waiting' : k \notin Busy' /\ k \notin handled' /\ k \notin dropped'
      BY <1>1, <1>2, <1>8, <1>9 DEF CensusInv, Whereabouts
    <2>3. \A k \in Busy' : k \notin handled'
      BY <1>1, <1>9 DEF CensusInv, Whereabouts
    <2>4. \A v, w \in Workers : v # w => running'[v] \cap running'[w] = {}
      BY <1>1 DEF CensusInv, Whereabouts
    <2> QED
      BY <2>1, <2>2, <2>3, <2>4 DEF Whereabouts
  <1>13. Counts'
    <2>1. IsFiniteSet(accepted') /\ Cardinality(accepted') = Cardinality(accepted) + 1
      BY <1>1, <1>2, FS_AddElement DEF CensusInv, Counts
    <2>2. \/ Len(queue') = Len(queue) + 1 /\ Cardinality(Evicted') = Cardinality(Evicted)
          \/ Len(queue') = Len(queue) /\ Cardinality(Evicted') = Cardinality(Evicted) + 1
      <3>1. Len(queue) \in Nat /\ Cardinality(Evicted) \in Nat /\ IsFiniteSet(Evicted)
        BY CensusNumbers
      <3>2. CASE base = queue /\ gone = {}
        <4>1. Evicted' = Evicted
          BY <1>11, <3>2
        <4> QED
          BY <1>6, <3>1, <3>2, <4>1
      <3>3. CASE queue # <<>> /\ base = Tail(queue) /\ gone = {Head(queue)}
        <4>1. Head(queue) \notin Evicted
          BY <1>10, <3>3 DEF Evicted
        <4>2. Evicted' = Evicted \cup {Head(queue)}
          BY <1>11, <3>3
        <4>3. Cardinality(Evicted') = Cardinality(Evicted) + 1
          BY <3>1, <4>1, <4>2, FS_AddElement
        <4> QED
          BY <1>4, <1>6, <3>1, <3>3, <4>3
      <3> QED
        BY <1>1, <3>2, <3>3
    <2>3. UNCHANGED <<jobs, held, handled, Busy>>
      BY <1>1, <1>9
    <2>4. /\ Len(held') = Len(held) /\ Len(jobs') = Len(jobs)
          /\ Cardinality(Busy') = Cardinality(Busy)
          /\ Cardinality(handled') = Cardinality(handled)
      BY <2>3
    <2>5. Len(queue) + Len(held) + Len(jobs) + Cardinality(Busy) + Cardinality(handled)
            + Cardinality(Evicted) = Cardinality(accepted)
      BY DEF CensusInv, Counts
    <2>6. Len(queue') + Len(held') + Len(jobs') + Cardinality(Busy') + Cardinality(handled')
            + Cardinality(Evicted') = Cardinality(accepted')
      <3>1. /\ Len(queue) \in Nat /\ Len(held) \in Nat /\ Len(jobs) \in Nat
            /\ Cardinality(Busy) \in Nat /\ Cardinality(handled) \in Nat
            /\ Cardinality(Evicted) \in Nat /\ Cardinality(accepted) \in Nat
        BY CensusNumbers
      <3>2. CASE /\ Len(queue') = Len(queue) + 1
                 /\ Cardinality(Evicted') = Cardinality(Evicted)
        BY <2>1, <2>4, <2>5, <3>1, <3>2
      <3>3. CASE /\ Len(queue') = Len(queue)
                 /\ Cardinality(Evicted') = Cardinality(Evicted) + 1
        BY <2>1, <2>4, <2>5, <3>1, <3>3
      <3> QED
        BY <2>2, <3>2, <3>3
    <2> QED
      BY <2>1, <2>6 DEF Counts
  <1> QED
    BY <1>12, <1>13 DEF CensusInv

(* pop and submit move a packet from one waiting place to the next. *)
LEMMA HandOverCensus ==
    ASSUME FrameInv, OrderInv, CensusInv, PopTake \/ Submit
    PROVE  CensusInv'
  <1>1. Waiting' = Waiting /\ UNCHANGED <<running, accepted, dropped, handled>>
    BY PopTakeOrder, SubmitOrder DEF PopTake, Submit, history
  <1>2. Busy' = Busy /\ Evicted' = Evicted
    BY <1>1 DEF Busy, Evicted
  <1>3. Whereabouts'
    BY <1>1, <1>2 DEF CensusInv, Whereabouts
  <1>4. Len(queue') + Len(held') + Len(jobs') = Len(queue) + Len(held) + Len(jobs)
    <2>1. CASE PopTake
      <3>1. /\ pc[Dispatcher] = "pop" /\ queue # <<>> /\ queue \in Seq(Packets)
            /\ held' = <<Head(queue)>> /\ queue' = Tail(queue) /\ jobs' = jobs
        BY <2>1 DEF PopTake, poolVars, FrameInv, DataTypes
      <3>2. Len(queue') = Len(queue) - 1 /\ Len(queue) \in Nat
        BY <3>1, TakeFirst
      <3>3. Len(held') = 1 /\ Len(held) = 0
        BY <3>1 DEF FrameInv, Positions
      <3>4. Len(jobs') = Len(jobs) /\ Len(jobs) \in Nat
        BY <3>1, CensusNumbers
      <3> QED
        BY <3>2, <3>3, <3>4
    <2>2. CASE Submit
      <3>1. /\ held[1] \in Packets /\ Len(held) = 1
            /\ jobs' = Append(jobs, held[1]) /\ held' = <<>> /\ queue' = queue
        BY <2>2, SubmitEffect
      <3>2. Len(jobs') = Len(jobs) + 1
        BY <3>1, PutLast DEF FrameInv, DataTypes
      <3>3. Len(held') = 0 /\ Len(queue') = Len(queue)
        BY <3>1, EmptySeq
      <3> QED
        BY <3>1, <3>2, <3>3, CensusNumbers
    <2> QED
      BY <2>1, <2>2
  <1>5. Counts'
    <2>1. /\ Cardinality(Busy') = Cardinality(Busy)
          /\ Cardinality(handled') = Cardinality(handled)
          /\ Cardinality(Evicted') = Cardinality(Evicted)
          /\ Cardinality(accepted') = Cardinality(accepted) /\ IsFiniteSet(accepted')
      BY <1>1, <1>2 DEF CensusInv, Counts
    <2>2. Len(queue) + Len(held) + Len(jobs) + Cardinality(Busy) + Cardinality(handled)
            + Cardinality(Evicted) = Cardinality(accepted)
      BY DEF CensusInv, Counts
    <2>3. Len(queue') + Len(held') + Len(jobs') + Cardinality(Busy') + Cardinality(handled')
            + Cardinality(Evicted') = Cardinality(accepted')
      BY <1>4, <2>1, <2>2
    <2> QED
      BY <2>1, <2>3 DEF Counts
  <1> QED
    BY <1>3, <1>5 DEF CensusInv

(* A worker takes a packet that nobody has begun. *)
LEMMA TakeCensus ==
    ASSUME FrameInv, OrderInv, CensusInv, NEW w \in Workers, Take(w)
    PROVE  CensusInv'
  <1> DEFINE h == Head(jobs)
  <1>1. /\ jobs # <<>> /\ jobs' = Tail(jobs)
        /\ UNCHANGED <<queue, held, accepted, dropped, handled>>
    BY DEF Take, queueVars, history
  <1>2. Waiting = Waiting' \cup {h} /\ h \notin Waiting' /\ h \in Packets
    BY TakeOrder
  <1>3. /\ running \in [Workers -> SUBSET Packets] /\ running[w] = {}
        /\ running' \in [Workers -> SUBSET Packets]
    BY TakeFrame DEF FrameInv, DataTypes, Positions, Take
  <1>4. running'[w] = {h} /\ \A v \in Workers : v # w => running'[v] = running[v]
    BY <1>3 DEF Take
  <1>5. Len(jobs') = Len(jobs) - 1 /\ Len(jobs) \in Nat
    BY <1>1, TakeFirst DEF FrameInv, DataTypes
  <1> HIDE DEF h
  <1>6. Busy' = Busy \cup {h}
    <2>1. \A k : k \in Busy <=> \E v \in Workers : k \in running[v]
      BY <1>3, BusyWith
    <2>2. \A k : k \in Busy' <=> \E v \in Workers : k \in running'[v]
      BY <1>3 DEF Busy, Range
    <2> QED
      BY <1>3, <1>4, <2>1, <2>2
  <1>7. h \notin Busy /\ h \notin handled /\ h \notin dropped
    BY <1>2 DEF CensusInv, Whereabouts
  <1>8. Evicted' = Evicted
    BY <1>1 DEF Evicted
  <1>9. Whereabouts'
    <2>1. accepted' = Waiting' \cup Busy' \cup handled' \cup Evicted'
      BY <1>1, <1>2, <1>6, <1>8 DEF CensusInv, Whereabouts
    <2>2. \A k \in Waiting' : k \notin Busy' /\ k \notin handled' /\ k \notin dropped'
      BY <1>1, <1>2, <1>6 DEF CensusInv, Whereabouts
    <2>3. \A k \in Busy' : k \notin handled'
      BY <1>1, <1>6, <1>7 DEF CensusInv, Whereabouts
    <2>4. \A v \in Workers : h \notin running[v]
      BY <1>3, <1>7, BusyWith
    <2>5. \A u, v \in Workers : u # v => running'[u] \cap running'[v] = {}
      BY <1>4, <2>4 DEF CensusInv, Whereabouts
    <2> QED
      BY <2>1, <2>2, <2>3, <2>5 DEF Whereabouts
  <1>10. Counts'
    <2>1. Cardinality(Busy') = Cardinality(Busy) + 1
      BY <1>6, <1>7, CensusNumbers, FS_AddElement
    <2>2. /\ Len(queue') = Len(queue) /\ Len(held') = Len(held)
          /\ Cardinality(handled') = Cardinality(handled)
          /\ Cardinality(Evicted') = Cardinality(Evicted)
          /\ Cardinality(accepted') = Cardinality(accepted) /\ IsFiniteSet(accepted')
      BY <1>1, <1>8 DEF CensusInv, Counts
    <2>3. Len(queue) + Len(held) + Len(jobs) + Cardinality(Busy) + Cardinality(handled)
            + Cardinality(Evicted) = Cardinality(accepted)
      BY DEF CensusInv, Counts
    <2>4. Len(queue') + Len(held') + Len(jobs') + Cardinality(Busy') + Cardinality(handled')
            + Cardinality(Evicted') = Cardinality(accepted')
      BY <1>5, <2>1, <2>2, <2>3, CensusNumbers
    <2> QED
      BY <2>2, <2>4 DEF Counts
  <1> QED
    BY <1>9, <1>10 DEF CensusInv

(* A handler returns for the first time from the packet it was given. *)
LEMMA HandlerReturnsCensus ==
    ASSUME FrameInv, CensusInv, NEW w \in Workers, HandlerReturns(w)
    PROVE  CensusInv'
  <1>1. /\ pc[w] = "run" /\ handled' = handled \cup running[w]
        /\ UNCHANGED <<queue, jobs, held, accepted, dropped>>
    BY DEF HandlerReturns, queueVars, poolVars
  <1>2. PICK h : running[w] = {h}
    BY <1>1 DEF FrameInv, Positions
  <1>3. /\ running \in [Workers -> SUBSET Packets]
        /\ running' \in [Workers -> SUBSET Packets]
        /\ running'[w] = {} /\ \A v \in Workers : v # w => running'[v] = running[v]
    BY DEF FrameInv, DataTypes, HandlerReturns
  <1>4. \A k : k \in Busy <=> \E v \in Workers : k \in running[v]
    BY <1>3, BusyWith
  <1>5. \A v \in Workers : v # w => h \notin running[v]
    BY <1>2 DEF CensusInv, Whereabouts
  <1>6. Busy' = Busy \ {h} /\ h \in Busy
    <2>1. \A k : k \in Busy' <=> \E v \in Workers : k \in running'[v]
      BY <1>3 DEF Busy, Range
    <2>2. h \in Busy
      BY <1>2, <1>4
    <2>3. \A k \in Busy' : k \in Busy \ {h}
      BY <1>3, <1>4, <1>5, <2>1
    <2>4. \A k \in Busy \ {h} : k \in Busy'
      BY <1>2, <1>3, <1>4, <2>1
    <2> QED
      BY <2>2, <2>3, <2>4
  <1>7. h \notin handled /\ handled' = handled \cup {h}
    BY <1>1, <1>2, <1>6 DEF CensusInv, Whereabouts
  <1>8. Waiting' = Waiting /\ Evicted' = Evicted /\ h \notin Waiting
    BY <1>1, <1>6 DEF Waiting, Evicted, CensusInv, Whereabouts
  <1>9. Whereabouts'
    <2>1. accepted' = Waiting' \cup Busy' \cup handled' \cup Evicted'
      BY <1>1, <1>6, <1>7, <1>8 DEF CensusInv, Whereabouts
    <2>2. \A k \in Waiting' : k \notin Busy' /\ k \notin handled' /\ k \notin dropped'
      BY <1>1, <1>6, <1>7, <1>8 DEF CensusInv, Whereabouts
    <2>3. \A k \in Busy' : k \notin handled'
      BY <1>6, <1>7 DEF CensusInv, Whereabouts
    <2>4. \A u, v \in Workers : u # v => running'[u] \cap running'[v] = {}
      BY <1>3 DEF CensusInv, Whereabouts
    <2> QED
      BY <2>1, <2>2, <2>3, <2>4 DEF Whereabouts
  <1>10. Counts'
    <2>1. Cardinality(Busy') = Cardinality(Busy) - 1
      BY <1>6, CensusNumbers, FS_RemoveElement
    <2>2. Cardinality(handled') = Cardinality(handled) + 1
      BY <1>7, CensusNumbers, FS_AddElement
    <2>3. /\ Len(queue') = Len(queue) /\ Len(held') = Len(held) /\ Len(jobs') = Len(jobs)
          /\ Cardinality(Evicted') = Cardinality(Evicted)
          /\ Cardinality(accepted') = Cardinality(accepted) /\ IsFiniteSet(accepted')
      BY <1>1, <1>8 DEF CensusInv, Counts
    <2>4. Len(queue) + Len(held) + Len(jobs) + Cardinality(Busy) + Cardinality(handled)
            + Cardinality(Evicted) = Cardinality(accepted)
      BY DEF CensusInv, Counts
    <2>5. Len(queue') + Len(held') + Len(jobs') + Cardinality(Busy') + Cardinality(handled')
            + Cardinality(Evicted') = Cardinality(accepted')
      BY <2>1, <2>2, <2>3, <2>4, CensusNumbers
    <2> QED
      BY <2>3, <2>5 DEF Counts
  <1> QED
    BY <1>9, <1>10 DEF CensusInv

LEMMA CensusInvStep ==
    ASSUME FrameInv, OrderInv, CensusInv, [DispatcherNext]_dispatcherVars
    PROVE  CensusInv'
  <1>1. CASE ~PacketStep
    <2>1. UNCHANGED <<queue, jobs, held, running, sent, accepted, dropped, handled>>
      BY <1>1, OtherSteps DEF dataVars, history
    <2>2. UNCHANGED <<Waiting, Busy, Evicted>>
      BY <2>1 DEF Waiting, Busy, Evicted
    <2> QED
      BY <2>1, <2>2 DEF CensusInv, Whereabouts, Counts
  <1> QED
    BY <1>1, PushFailsCensus, PushAcceptCensus, HandOverCensus, TakeCensus,
       HandlerReturnsCensus DEF PacketStep, PushEnds

LEMMA CensusInit ==
    ASSUME DispatcherInit
    PROVE  CensusInv
  <1>1. /\ queue = <<>> /\ jobs = <<>> /\ held = <<>>
        /\ accepted = {} /\ dropped = {} /\ handled = {}
        /\ running = [w \in Workers |-> {}]
    BY DEF DispatcherInit
  <1>2. ToSet(<<>>) = {} /\ Len(<<>>) = 0
    BY EmptySeq, OnePacket
  <1>3. Busy = {} /\ Waiting = {} /\ Evicted = {}
    BY <1>1, <1>2 DEF Busy, Range, Waiting, Evicted
  <1>4. Whereabouts
    BY <1>1, <1>3 DEF Whereabouts
  <1>5. Counts
    BY <1>1, <1>2, <1>3, FS_EmptySet DEF Counts
  <1> QED
    BY <1>4, <1>5 DEF CensusInv

(* No packet is lost and none is handled twice: an accepted packet is at     *)
(* exactly one place between push and the handler's return, unless           *)
(* DropOldest dropped it from the queue, and no two workers handle the same. *)
THEOREM DispatcherAccounts == DispatcherSpec => []EveryPacketAccounted
  <1>1. DispatcherInit => FrameInv /\ OrderInv /\ CensusInv
    BY FrameInit, OrderInit, CensusInit
  <1>2. FrameInv /\ OrderInv /\ CensusInv /\ [DispatcherNext]_dispatcherVars
            => FrameInv' /\ OrderInv' /\ CensusInv'
    BY FrameStep, OrderInvStep, CensusInvStep
  <1>3. CensusInv => EveryPacketAccounted
    BY DEF CensusInv, Whereabouts, Counts, EveryPacketAccounted, InFlight, Busy, Evicted
  <1> QED
    BY <1>1, <1>2, <1>3, PTL DEF DispatcherSpec

-----------------------------------------------------------------------------
(* Overtaking *)

(* What the workers have taken comes before what waits. *)
BusyFirst == Before(Busy, Waiting)

LEMMA BusyFirstStep ==
    ASSUME FrameInv, OrderInv, CensusInv, BusyFirst, [DispatcherNext]_dispatcherVars
    PROVE  BusyFirst'
  <1>1. CASE ~PacketStep
    <2>1. UNCHANGED <<queue, jobs, held, running>>
      BY <1>1, OtherSteps DEF dataVars
    <2>2. UNCHANGED <<Waiting, Busy>>
      BY <2>1 DEF Waiting, Busy
    <2> QED
      BY <2>2 DEF BusyFirst
  <1>2. ASSUME NEW p \in Producers, PushEnds(p)
        PROVE  BusyFirst'
    <2>1. UNCHANGED running
      BY <1>2 DEF PushEnds, PushStopped, PushDropNewest, PushAccept
    <2>2. Busy' = Busy /\ Busy \subseteq accepted
      BY <2>1 DEF Busy, CensusInv, Whereabouts
    <2>3. /\ Waiting' \subseteq Waiting \cup {NextPacket(p)}
          /\ Before(accepted, {NextPacket(p)})
      BY <1>2, PushOrder
    <2> QED
      BY <2>2, <2>3 DEF BusyFirst, Before
  <1>3. CASE PopTake \/ Submit
    <2>1. Waiting' = Waiting /\ UNCHANGED running
      BY <1>3, PopTakeOrder, SubmitOrder DEF PopTake, Submit
    <2>2. Busy' = Busy
      BY <2>1 DEF Busy
    <2> QED
      BY <2>1, <2>2 DEF BusyFirst
  <1>4. ASSUME NEW w \in Workers, Take(w)
        PROVE  BusyFirst'
    <2>1. /\ running' = [running EXCEPT ![w] = {Head(jobs)}]
          /\ running \in [Workers -> SUBSET Packets]
      BY <1>4 DEF Take, FrameInv, DataTypes
    <2>2. /\ Before({Head(jobs)}, Waiting') /\ Waiting' \subseteq Waiting
          /\ Head(jobs) \in Packets
      BY <1>4, TakeOrder
    <2>3. running' \in [Workers -> SUBSET Packets]
      BY <2>1, <2>2
    <2>4. \A k \in Busy' : k = Head(jobs) \/ k \in Busy
      <3> SUFFICES ASSUME NEW k \in Busy' PROVE k = Head(jobs) \/ k \in Busy
        OBVIOUS
      <3>1. PICK v \in Workers : k \in running'[v]
        BY <2>3 DEF Busy, Range
      <3> QED
        BY <2>1, <3>1, BusyWith
    <2> QED
      BY <2>2, <2>4 DEF BusyFirst, Before
  <1>5. ASSUME NEW w \in Workers, HandlerReturns(w)
        PROVE  BusyFirst'
    <2>1. /\ running' = [running EXCEPT ![w] = {}]
          /\ running \in [Workers -> SUBSET Packets]
          /\ UNCHANGED <<queue, held, jobs>>
      BY <1>5 DEF HandlerReturns, FrameInv, DataTypes, queueVars, poolVars
    <2>2. running' \in [Workers -> SUBSET Packets]
      BY <2>1
    <2>3. Waiting' = Waiting
      BY <2>1 DEF Waiting
    <2>4. \A k \in Busy' : k \in Busy
      <3> SUFFICES ASSUME NEW k \in Busy' PROVE k \in Busy
        OBVIOUS
      <3>1. PICK v \in Workers : k \in running'[v]
        BY <2>2 DEF Busy, Range
      <3> QED
        BY <2>1, <3>1, BusyWith
    <2> QED
      BY <2>3, <2>4 DEF BusyFirst, Before
  <1> QED
    BY <1>1, <1>2, <1>3, <1>4, <1>5 DEF PacketStep

(* A packet overtakes an earlier one of its producer only in the hands of    *)
(* the workers of workerLoop: when a handler begins, every packet accepted   *)
(* earlier from the same producer is handled, dropped or taken by another    *)
(* worker. With a single worker handlers therefore begin in order.           *)
THEOREM DispatcherOrder == DispatcherSpec => OnlyWorkersOvertake
  <1> DEFINE Inv == FrameInv /\ OrderInv /\ CensusInv /\ BusyFirst
  <1>1. DispatcherInit => Inv
    <2> SUFFICES ASSUME DispatcherInit PROVE BusyFirst
      BY FrameInit, OrderInit, CensusInit
    <2>1. running = [w \in Workers |-> {}]
      BY DEF DispatcherInit
    <2>2. Busy = {}
      BY <2>1 DEF Busy, Range
    <2> QED
      BY <2>2 DEF BusyFirst, Before
  <1>2. Inv /\ [DispatcherNext]_dispatcherVars => Inv'
    BY FrameStep, OrderInvStep, CensusInvStep, BusyFirstStep
  <1>3. ASSUME Inv PROVE BeginStep
    <2> SUFFICES ASSUME NEW w \in Workers, pc[w] = "start",
                        NEW j \in running[w], NEW k \in accepted,
                        k[1] = j[1], k[2] < j[2],
                        k \notin handled, k \notin dropped
                 PROVE  \E v \in Workers \ {w} : k \in running[v]
      BY DEF BeginStep
    <2>1. k \in Waiting \/ k \in Busy
      BY <1>3 DEF CensusInv, Whereabouts, Evicted
    <2>2. running \in [Workers -> SUBSET Packets]
      BY <1>3 DEF FrameInv, DataTypes
    <2>3. j \in Packets /\ k \in Packets
      BY <1>3, <2>2 DEF FrameInv, DataTypes
    <2>4. j[2] \in Nat /\ k[2] \in Nat
      BY <2>3, PacketParts
    <2>5. j \in Busy
      BY <2>2, BusyWith
    <2>6. k \notin Waiting
      BY <1>3, <2>4, <2>5 DEF BusyFirst, Before
    <2>7. PICK v \in Workers : k \in running[v]
      BY <2>1, <2>2, <2>6, BusyWith
    <2>8. \E l : running[w] = {l}
      BY <1>3 DEF FrameInv, Positions
    <2>9. k # j
      BY <2>4
    <2>10. v # w
      BY <2>7, <2>8, <2>9
    <2> QED
      BY <2>7, <2>10
  <1>4. Inv /\ [DispatcherNext]_dispatcherVars => [BeginStep]_dispatcherVars
    BY <1>3
  <1> HIDE DEF Inv
  <1> QED
    BY <1>1, <1>2, <1>4, PTL DEF DispatcherSpec, OnlyWorkersOvertake
=============================================================================
