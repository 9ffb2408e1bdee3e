-------------------------- MODULE PacketDispatcher --------------------------
(***************************************************************************)
(* net/worker_pool.cpp: packets go from the producers (event-loop threads) *)
(* through a PacketQueue to the dispatcher thread, which submits them to a *)
(* WorkerPool. A controller thread starts and stops the whole.             *)
(*                                                                         *)
(* A step is one critical section, or one notification, which the code     *)
(* sends after unlocking. One condition variable serves producers waiting  *)
(* for room and the dispatcher waiting for work. Spurious wake-ups are     *)
(* left out: every wait re-checks its predicate, and none may be relied on.*)
(* The dispatcher has a handler, as wherever one is constructed: without   *)
(* one dispatchLoop would throw every packet away.                         *)
(***************************************************************************)
EXTENDS Integers, Sequences, FiniteSets, SequencesExt

CONSTANTS
    Producers,   \* threads that call enqueue
    Workers,     \* threads of the pool
    Dispatcher,  \* the dispatcher thread
    Capacity,    \* PacketQueue::Config::capacity, 0 for no limit
    Policies,    \* the overflow policies a configuration may choose
    MaxJobs,     \* producer -> bound on its packets
    MaxStarts    \* bound on the calls of start

ASSUME DispatcherConstants ==
    /\ Capacity \in Nat /\ MaxJobs \in [Producers -> Nat] /\ MaxStarts \in Nat
    /\ Policies \subseteq {"Block", "DropNewest", "DropOldest"}
    /\ Dispatcher \notin Producers \cup Workers
    /\ Producers \cap Workers = {}

VARIABLES
    policy,    \* PacketQueue::Config::overflow_policy
    queue,     \* PacketQueue::queue_
    stopped,   \* PacketQueue::stopped_
    jobs,      \* WorkerPool::jobs_
    poolStop,  \* WorkerPool::stop_requested_
    pc,        \* where each thread is
    held,      \* the packet the dispatcher popped, if any, as a sequence
    running,   \* worker -> the packet in its hands, as a set
    control,   \* where the controller is in start and stop
    starts,    \* calls of start so far
    sent,      \* producer -> packets it has offered
    accepted,  \* packets whose push returned true
    dropped,   \* packets dropped by the overflow policy (dropped_)
    handled    \* packets the handler returned from

queueVars == <<policy, queue, stopped>>
poolVars == <<jobs, poolStop>>
history == <<sent, accepted, dropped, handled>>
dispatcherVars == <<queueVars, poolVars, pc, held, running, control, starts, history>>

Threads == Producers \cup Workers \cup {Dispatcher}
QueueThreads == Producers \cup {Dispatcher}
Packets == UNION {{p} \X (1 .. MaxJobs[p]) : p \in Producers}

-----------------------------------------------------------------------------
(* Where a thread goes on when its wait is over: back to the predicate. *)
Resume(t) == IF t \in Producers THEN "push" ELSE IF t = Dispatcher THEN "pop" ELSE "take"

(* notify_one among the threads of T: the states it may lead to from f. *)
NotifyOne(f, T) ==
    LET asleep == {t \in T : f[t] = "asleep"}
    IN  IF asleep = {} THEN {f} ELSE {[f EXCEPT ![t] = Resume(t)] : t \in asleep}

NotifyAll(f, T) ==
    [t \in DOMAIN f |-> IF t \in T /\ f[t] = "asleep" THEN Resume(t) ELSE f[t]]

Full == Capacity > 0 /\ Len(queue) >= Capacity

DispatcherInit ==
    /\ policy \in Policies /\ queue = <<>> /\ stopped = FALSE
    /\ jobs = <<>> /\ poolStop = FALSE
    /\ pc = [t \in Threads |-> IF t \in Producers THEN "idle" ELSE "exit"]
    /\ held = <<>> /\ running = [w \in Workers |-> {}]
    /\ control = "halted" /\ starts = 0
    /\ sent = [p \in Producers |-> 0]
    /\ accepted = {} /\ dropped = {} /\ handled = {}

-----------------------------------------------------------------------------
(* PacketQueue::push *)

NextPacket(p) == <<p, sent[p] + 1>>

CallPush(p) ==
    /\ pc[p] = "idle" /\ sent[p] < MaxJobs[p]
    /\ pc' = [pc EXCEPT ![p] = "push"]
    /\ UNCHANGED <<queueVars, poolVars, held, running, control, starts, history>>

PushWait(p) ==
    /\ pc[p] = "push" /\ policy = "Block" /\ Full /\ ~stopped
    /\ pc' = [pc EXCEPT ![p] = "asleep"]
    /\ UNCHANGED <<queueVars, poolVars, held, running, control, starts, history>>

(* Blocked or not, a push into a stopped, bounded, blocking queue fails. *)
PushStopped(p) ==
    /\ pc[p] = "push" /\ policy = "Block" /\ Capacity > 0 /\ stopped
    /\ pc' = [pc EXCEPT ![p] = "idle"]
    /\ sent' = [sent EXCEPT ![p] = @ + 1]
    /\ UNCHANGED <<queueVars, poolVars, held, running, control, starts,
                   accepted, dropped, handled>>

PushDropNewest(p) ==
    /\ pc[p] = "push" /\ policy = "DropNewest" /\ Full
    /\ dropped' = dropped \cup {NextPacket(p)}
    /\ pc' = [pc EXCEPT ![p] = "idle"]
    /\ sent' = [sent EXCEPT ![p] = @ + 1]
    /\ UNCHANGED <<queueVars, poolVars, held, running, control, starts,
                   accepted, handled>>

(* Mutant: the eviction is not counted. *)
PushAcceptUncounted(p) ==
    /\ pc[p] = "push"
    /\ Capacity > 0 /\ policy = "Block" => ~Full /\ ~stopped
    /\ policy = "DropNewest" => ~Full
    /\ queue' = Append(IF policy = "DropOldest" /\ Full THEN Tail(queue) ELSE queue,
                       NextPacket(p))
    /\ accepted' = accepted \cup {NextPacket(p)}
    /\ sent' = [sent EXCEPT ![p] = @ + 1]
    /\ pc' = [pc EXCEPT ![p] = "notify"]
    /\ UNCHANGED <<policy, stopped, poolVars, held, running, control, starts, dropped, handled>>

(* Mutant: a blocking push that finds room does not look at stopped_. *)
PushAcceptStopped(p) ==
    /\ pc[p] = "push"
    /\ policy = "Block" => ~Full
    /\ policy = "DropNewest" => ~Full
    /\ LET evicted == IF policy = "DropOldest" /\ Full THEN {Head(queue)} ELSE {}
       IN  /\ queue' = Append(IF evicted = {} THEN queue ELSE Tail(queue), NextPacket(p))
           /\ dropped' = dropped \cup evicted
    /\ accepted' = accepted \cup {NextPacket(p)}
    /\ sent' = [sent EXCEPT ![p] = @ + 1]
    /\ pc' = [pc EXCEPT ![p] = "notify"]
    /\ UNCHANGED <<policy, stopped, poolVars, held, running, control, starts, handled>>

(* DropOldest makes room by dropping the head; only Block looks at stopped_. *)
PushAccept(p) ==
    /\ pc[p] = "push"
    /\ Capacity > 0 /\ policy = "Block" => ~Full /\ ~stopped
    /\ policy = "DropNewest" => ~Full
    /\ LET evicted == IF policy = "DropOldest" /\ Full THEN {Head(queue)} ELSE {}
       IN  /\ queue' = Append(IF evicted = {} THEN queue ELSE Tail(queue), NextPacket(p))
           /\ dropped' = dropped \cup evicted
    /\ accepted' = accepted \cup {NextPacket(p)}
    /\ sent' = [sent EXCEPT ![p] = @ + 1]
    /\ pc' = [pc EXCEPT ![p] = "notify"]
    /\ UNCHANGED <<policy, stopped, poolVars, held, running, control, starts, handled>>

(* Mutant: the dispatcher is not told that there is work. *)
PushNotifyNobody(p) ==
    /\ pc[p] = "notify"
    /\ pc' = [pc EXCEPT ![p] = "idle"]
    /\ UNCHANGED <<queueVars, poolVars, held, running, control, starts, history>>

PushNotify(p) ==
    /\ pc[p] = "notify"
    /\ pc' \in NotifyOne([pc EXCEPT ![p] = "idle"], QueueThreads)
    /\ UNCHANGED <<queueVars, poolVars, held, running, control, starts, history>>

Push(p) ==
    \/ PushWait(p) \/ PushStopped(p) \/ PushDropNewest(p)
    \/ PushAccept(p) \/ PushNotify(p)

-----------------------------------------------------------------------------
(* PacketDispatcher::dispatchLoop with PacketQueue::pop and WorkerPool::submit *)

PopWait ==
    /\ pc[Dispatcher] = "pop" /\ queue = <<>> /\ ~stopped
    /\ pc' = [pc EXCEPT ![Dispatcher] = "asleep"]
    /\ UNCHANGED <<queueVars, poolVars, held, running, control, starts, history>>

PopEnd ==
    /\ pc[Dispatcher] = "pop" /\ queue = <<>> /\ stopped
    /\ pc' = [pc EXCEPT ![Dispatcher] = "exit"]
    /\ UNCHANGED <<queueVars, poolVars, held, running, control, starts, history>>

PopTake ==
    /\ pc[Dispatcher] = "pop" /\ queue # <<>>
    /\ held' = <<Head(queue)>>
    /\ queue' = Tail(queue)
    /\ pc' = [pc EXCEPT ![Dispatcher] = IF Capacity > 0 THEN "notify" ELSE "submit"]
    /\ UNCHANGED <<policy, stopped, poolVars, running, control, starts, history>>

(* Mutant: nobody is told that there is room. *)
PopNotifyNobody ==
    /\ pc[Dispatcher] = "notify"
    /\ pc' = [pc EXCEPT ![Dispatcher] = "submit"]
    /\ UNCHANGED <<queueVars, poolVars, held, running, control, starts, history>>

PopNotify ==
    /\ pc[Dispatcher] = "notify"
    /\ pc' \in NotifyOne([pc EXCEPT ![Dispatcher] = "submit"], QueueThreads)
    /\ UNCHANGED <<queueVars, poolVars, held, running, control, starts, history>>

(* Mutant: the packet is submitted and kept. *)
SubmitCopy ==
    /\ pc[Dispatcher] = "submit"
    /\ jobs' = jobs \o held
    /\ pc' = [pc EXCEPT ![Dispatcher] = "submitNotify"]
    /\ UNCHANGED <<queueVars, poolStop, held, running, control, starts, history>>

Submit ==
    /\ pc[Dispatcher] = "submit"
    /\ jobs' = jobs \o held
    /\ held' = <<>>
    /\ pc' = [pc EXCEPT ![Dispatcher] = "submitNotify"]
    /\ UNCHANGED <<queueVars, poolStop, running, control, starts, history>>

SubmitNotify ==
    /\ pc[Dispatcher] = "submitNotify"
    /\ pc' \in NotifyOne([pc EXCEPT ![Dispatcher] = "pop"], Workers)
    /\ UNCHANGED <<queueVars, poolVars, held, running, control, starts, history>>

DispatchLoop == PopWait \/ PopEnd \/ PopTake \/ PopNotify \/ Submit \/ SubmitNotify

-----------------------------------------------------------------------------
(* WorkerPool::workerLoop *)

TakeWait(w) ==
    /\ pc[w] = "take" /\ jobs = <<>> /\ ~poolStop
    /\ pc' = [pc EXCEPT ![w] = "asleep"]
    /\ UNCHANGED <<queueVars, poolVars, held, running, control, starts, history>>

TakeEnd(w) ==
    /\ pc[w] = "take" /\ jobs = <<>> /\ poolStop
    /\ pc' = [pc EXCEPT ![w] = "exit"]
    /\ UNCHANGED <<queueVars, poolVars, held, running, control, starts, history>>

(* Mutant: the newest job goes first. *)
TakeLast(w) ==
    /\ pc[w] = "take" /\ jobs # <<>>
    /\ running' = [running EXCEPT ![w] = {Last(jobs)}]
    /\ jobs' = Front(jobs)
    /\ pc' = [pc EXCEPT ![w] = "start"]
    /\ UNCHANGED <<queueVars, poolStop, held, control, starts, history>>

Take(w) ==
    /\ pc[w] = "take" /\ jobs # <<>>
    /\ running' = [running EXCEPT ![w] = {Head(jobs)}]
    /\ jobs' = Tail(jobs)
    /\ pc' = [pc EXCEPT ![w] = "start"]
    /\ UNCHANGED <<queueVars, poolStop, held, control, starts, history>>

(* job() is called after the lock is released, so another worker may take    *)
(* the next packet and be in its handler first.                              *)
HandlerBegins(w) ==
    /\ pc[w] = "start"
    /\ pc' = [pc EXCEPT ![w] = "run"]
    /\ UNCHANGED <<queueVars, poolVars, held, running, control, starts, history>>

HandlerReturns(w) ==
    /\ pc[w] = "run"
    /\ handled' = handled \cup running[w]
    /\ running' = [running EXCEPT ![w] = {}]
    /\ pc' = [pc EXCEPT ![w] = "take"]
    /\ UNCHANGED <<queueVars, poolVars, held, control, starts, sent, accepted, dropped>>

WorkerLoop(w) ==
    TakeWait(w) \/ TakeEnd(w) \/ Take(w) \/ HandlerBegins(w) \/ HandlerReturns(w)

-----------------------------------------------------------------------------
(* PacketDispatcher::start and stop *)

(* stop_requested_ is cleared, stopped_ is not. *)
Start ==
    /\ control = "halted" /\ starts < MaxStarts
    /\ control' = "running" /\ starts' = starts + 1
    /\ poolStop' = FALSE
    /\ pc' = [t \in Threads |-> IF t \in Producers THEN pc[t] ELSE Resume(t)]
    /\ UNCHANGED <<queueVars, jobs, held, running, history>>

StopQueue ==
    /\ control = "running"
    /\ stopped' = TRUE
    /\ control' = "stopQueue"
    /\ UNCHANGED <<policy, queue, poolVars, pc, held, running, starts, history>>

StopQueueNotify ==
    /\ control = "stopQueue"
    /\ pc' = NotifyAll(pc, QueueThreads)
    /\ control' = "joinDispatcher"
    /\ UNCHANGED <<queueVars, poolVars, held, running, starts, history>>

StopPool ==
    /\ control = "joinDispatcher" /\ pc[Dispatcher] = "exit"
    /\ poolStop' = TRUE
    /\ control' = "stopPool"
    /\ UNCHANGED <<queueVars, jobs, pc, held, running, starts, history>>

(* Mutant: one worker is woken to see the stop, not all of them. *)
StopPoolNotifyOne ==
    /\ control = "stopPool"
    /\ pc' \in NotifyOne(pc, Workers)
    /\ control' = "joinWorkers"
    /\ UNCHANGED <<queueVars, poolVars, held, running, starts, history>>

StopPoolNotify ==
    /\ control = "stopPool"
    /\ pc' = NotifyAll(pc, Workers)
    /\ control' = "joinWorkers"
    /\ UNCHANGED <<queueVars, poolVars, held, running, starts, history>>

StopReturn ==
    /\ control = "joinWorkers" /\ \A w \in Workers : pc[w] = "exit"
    /\ control' = "halted"
    /\ UNCHANGED <<queueVars, poolVars, pc, held, running, starts, history>>

Stopping == StopQueueNotify \/ StopPool \/ StopPoolNotify \/ StopReturn

-----------------------------------------------------------------------------
DispatcherNext ==
    \/ \E p \in Producers : CallPush(p) \/ Push(p)
    \/ DispatchLoop
    \/ \E w \in Workers : WorkerLoop(w)
    \/ Start \/ StopQueue \/ Stopping

DispatcherSpec == DispatcherInit /\ [][DispatcherNext]_dispatcherVars

(* The operating system runs every thread that can run, a call of stop goes  *)
(* through to its end, handlers return. Nobody has to call push, start, stop.*)
FairDispatcherSpec ==
    /\ DispatcherSpec
    /\ \A p \in Producers : WF_dispatcherVars(Push(p))
    /\ WF_dispatcherVars(DispatchLoop)
    /\ \A w \in Workers : WF_dispatcherVars(WorkerLoop(w))
    /\ WF_dispatcherVars(Stopping)

-----------------------------------------------------------------------------
(* Type invariant of PacketQueue, WorkerPool and PacketDispatcher. *)
DispatcherTypeOK ==
    /\ policy \in Policies
    /\ queue \in Seq(Packets) /\ jobs \in Seq(Packets)
    /\ stopped \in BOOLEAN /\ poolStop \in BOOLEAN
    /\ pc \in [Threads -> {"idle", "push", "pop", "take", "asleep", "notify", "submit",
                           "submitNotify", "start", "run", "exit"}]
    /\ held \in Seq(Packets)
    /\ Len(held) = IF pc[Dispatcher] \in {"notify", "submit"} THEN 1 ELSE 0
    /\ running \in [Workers -> SUBSET Packets]
    /\ \A w \in Workers : Cardinality(running[w]) = IF pc[w] \in {"start", "run"} THEN 1 ELSE 0
    /\ control \in {"halted", "running", "stopQueue", "joinDispatcher", "stopPool",
                    "joinWorkers"}
    /\ starts \in 0 .. MaxStarts
    /\ \A p \in Producers : sent[p] \in 0 .. MaxJobs[p]
    /\ accepted \subseteq Packets /\ dropped \subseteq Packets /\ handled \subseteq Packets

Waiting == ToSet(queue) \cup ToSet(held) \cup ToSet(jobs)
InFlight == Waiting \cup UNION Range(running)

(* An accepted packet is at exactly one place between push and the handler's *)
(* return, unless DropOldest dropped it: none is lost, none is handled twice.*)
EveryPacketAccounted ==
    /\ accepted = InFlight \cup handled \cup (dropped \cap accepted)
    /\ Len(queue) + Len(held) + Len(jobs)
         + Cardinality(UNION Range(running)) + Cardinality(handled)
         + Cardinality(dropped \cap accepted) = Cardinality(accepted)
    /\ \A v, w \in Workers : v # w => running[v] \cap running[w] = {}

(* When stop returns no packet is under way in the dispatcher or the pool;   *)
(* a bounded blocking queue, which lets no push in any more, is empty too.   *)
StopDrains ==
    control = "halted" =>
        /\ held = <<>> /\ jobs = <<>> /\ UNION Range(running) = {}
        /\ policy = "Block" /\ Capacity > 0 /\ stopped => queue = <<>>

(* Packets overtake one another only in the hands of the workers: when a     *)
(* handler begins, every packet of the same producer that push accepted      *)
(* earlier has been handled or dropped, or another worker has taken it. With *)
(* one worker the handlers of a producer's packets begin in the order the    *)
(* packets came in and one at a time; with several, the ones taken and not   *)
(* finished may begin in any order.                                          *)
BeginStep ==
    \A w \in Workers : pc[w] = "start" /\ pc'[w] = "run" =>
        \A j \in running[w], k \in accepted : k[1] = j[1] /\ k[2] < j[2] =>
            k \in handled \cup dropped \cup UNION {running[v] : v \in Workers \ {w}}

OnlyWorkersOvertake == [][BeginStep]_dispatcherVars

(* A packet that push accepted while the dispatcher runs is handled in the   *)
(* end, stop or no stop, or dropped to make room: the pipeline does not stall*)
(* with packets in it. (Once stopped, a queue that is started again accepts  *)
(* packets that nobody takes out.)                                           *)
AcceptedPacketsAreHandled ==
    \A k \in Packets :
        k \in accepted /\ control = "running" /\ ~stopped ~> k \in handled \cup dropped

(* At most one producer pushes into a queue that makes producers wait. *)
OneWaits ==
    policy = "Block" =>
        \E p \in Producers : \A q \in Producers \ {p} : sent[q] = 0 /\ pc[q] = "idle"

(* The same under the condition it needs: with several producers that may    *)
(* have to wait, a wake-up meant for the dispatcher can go to one of them.   *)
PacketsAreHandled == []OneWaits => AcceptedPacketsAreHandled

(* A producer that waits for room gets on once the dispatcher runs, under    *)
(* the same condition.                                                       *)
BlockedPushReturns ==
    []OneWaits =>
        \A p \in Producers :
            pc[p] \in {"push", "asleep"} /\ control = "running" ~> pc[p] = "idle"

(* A call of stop returns: no thread sleeps through the shutdown.            *)
StopReturns == control = "stopQueue" ~> control = "halted"
=============================================================================
