# A verification project for DungeonHub's game server

DungeonHub is a dungeon game server in C++: clients connect, log in, form
parties and guilds, are matched into dungeon instances, report results, and get
rewards into an inventory. This directory holds TLA+ models of its core, the TLC
configurations that check them on small instances, and TLAPS proofs for every
size. Paths below are relative to the repository's `src/` directory.

## 1. Inventory of the system

| Part | State it keeps | Operations that change it |
|---|---|---|
| Party service (`party/party.cpp`) | `parties_`, `member_index_`, `invites_`, `next_party_id_`, `invite_timeout_` | create, invite, accept, reject, disband, remove member, replace session, expire invites, set timeout |
| Guild service (`guild/guild.cpp`) | `guilds_`, `member_index_`, `next_guild_id_` | create, join, leave, remove member, replace session |
| Instance manager (`dungeon/instance_manager.cpp`) | instances and their state | create, request transition, terminate |
| Server (`net/server.cpp`) | `sessions_`, the session registry, `session_instances_`, `session_characters_`, reward grants | one handler per packet, `createSession`, `removeSession`, `forceDisconnect`, `tick` |
| Session (`net/session.cpp`) | send queue and byte counter, token bucket, last receive, `connected_`, nonces, `last_seq_`, user context | enqueue, dequeue, receive, tick, record nonce |
| Packet queue, worker pool, dispatcher (`net/worker_pool.cpp`) | two queues, two stop flags, threads | push, pop, submit, worker loop, start, stop |
| Inventory storages (`inventory/*.cpp`) | inventories, change log, transaction snapshots; the cached storage keeps two of them in step | load, save, add, remove, set, begin, commit, rollback |
| Reward service and reward inventory (`reward/*.cpp`) | grants made, item stacks | grant, apply, roll back |
| Match queue (`match/match_queue.cpp`) | waiting candidates | enqueue, cancel, change of size, find match |
| Tokens (`net/auth.cpp`) | issued tokens and expiry | issue, validate |
| I/O layer, frame codec (`net/io_layer.cpp`, `net/codec.cpp`) | decoders per connection, pending events | register, read, drain |
| Protocol (`net/protocol.cpp`) | none | one encoder and one decoder per message |
| Chat (`chat/chat.cpp` and its handler) | none of its own | one event per recipient, on the recipients' send queues |
| Signatures, combat, movement check, drop tables, admin, logging | none, or append-only | pure functions and output |

How they meet. A connection's bytes become frames, frames become packets, and an
event-loop thread pushes them into the packet queue; the dispatcher thread hands
them to the worker pool, whose handler is `Server::handlePacket`. The handler
first checks version, signature, nonce and sequence number, then switches on the
type. It calls the party, guild and instance services directly and queues its
answers and notifications on the *sessions'* send queues. Sessions leave in three
ways: `tick` finds them timed out or closed, an operator disconnects them, or the
same user takes them over from a new connection (`SessionReconnectReq`), in which
case party seat, guild seat, instance and character move to the new session.

What is hard here:

* two condition variables shared by several kinds of waiters, stop and restart;
* five tables indexed by session id, owned by four classes, that must agree after
  logins, logouts, takeovers and removals in any order;
* results and rewards that are reported again, late, or by another member, and
  a result whose later steps fail after its first step took effect;
* packets lost, repeated and reordered, while a reconnect moves the sequence
  number back;
* bytes that arrive in pieces, connections that end in the middle of a frame and
  connection ids that are used again;
* a cache and a persistent storage written one after the other, without a lock;
* limits: queue capacity, send queue bytes, token bucket, nonce cache.

`PROJECT.json` lists each of these as a hazard at its line, with the properties
that would catch it going wrong.

## 2. Modules

| Module | Models | Uses |
|---|---|---|
| `Maps`, `Identities` | `std::unordered_map` as partial functions; sessions and users | |
| `PartyService` | the party service, every call that changes it | `Identities` |
| `GuildService` | the guild service | `Identities` |
| `GroupProofs` | theorems about `PartyService` and `GuildService` | |
| `InstanceManager` | dungeon instances and the transition table | `PartyService` |
| `RewardService` | a grant of several items against a capacity | |
| `Server` | sessions, registry, login, logout, takeover, guild packets, chat, matches, dungeon entry and result | the services above, by `EXTENDS` |
| `ServerProofs` | theorems about `Server` | `GroupProofs` |
| `Session` | one session's send queue, token bucket, timeout | |
| `SessionProofs` | theorems about `Session` | |
| `Protocol` | every message, its encoder and decoder; frames | |
| `PacketPipeline` | connections, event loop, decoders, dispatch of frames | `Protocol` |
| `WireProofs` | theorems about `Protocol` and `PacketPipeline` | |
| `MatchQueue` | the match queue | |
| `MatchProofs` | theorems about `MatchQueue` | |
| `PacketGuard` | sequence numbers and nonces of one session over a bad connection | |
| `GuardProofs` | theorems about `PacketGuard` | |
| `PacketDispatcher` | packet queue, worker pool, dispatcher thread, controller | |
| `DispatcherProofs` | theorems about `PacketDispatcher` | |
| `InventoryStore` | the operations of one storage, and the abstract store | `Maps` |
| `CachedInventory` | the cached storage over two storages; implements the abstract store | `InventoryStore` by `INSTANCE ... WITH` |
| `InventoryProofs` | theorems about `CachedInventory`, the refinement included | |
| `MC*` | symmetry sets and constants for TLC | |

Conventions. A variable has the name of the field it models and its comment names
the field. One action stands for one handler or method, with everything it calls;
a call that refuses without changing anything is a stuttering step and has no
action. A definition whose comment begins with *Mutant* is a plausible bug in the
definition that follows it; nothing refers to it, and each property has one that
breaks it. `PROJECT.json` maps every other definition to its lines.

**PartyService.** `parties`, `memberIndex` and `invites` are the three maps of the
class; invites are keyed by party and invitee as in the code. Time is the `now`
the callers pass. `AcceptInvite` has the code's two effects: a lapsed invite is
erased, a valid one makes a member. `RemoveMembers(S)` is `removeMember` for
every session of `S`: in `tick` the order of removal comes from a hash map, and
the result does not depend on it because a removed leader disbands its party.

**Server.** `live` are the keys of `sessions_`, `closed` those of them whose
connection is gone and which the next tick will remove, `context` the user context
stored in the session objects, `registry` the two maps of `SessionRegistry`.
Timeouts and token expiry may strike at any moment. One switch describes the
environment, `LatePackets`: the connection object keeps its session after the server
removed it, and `handlePacket` does not look the session up; with TRUE such packets
arrive. A session that reconnects may already sit in a party or guild: the services
then refuse to move the old session's seat, and the server goes on with the takeover.

`SettleReward` is the tail of `DungeonResultNotify`: no character means no reward;
a list of rewards with a zero in it, or larger than the capacity, is refused as a
whole; only a committed transaction marks the instance. `ledger` records what the
inventory took. `ChatSendReq` has no effect but on the recipients whose send queue
is full: they are closed. `Overflow` stands for every other frame that does not fit.

**Protocol.** A byte has `ByteMod` values, so that a 16-bit length is reached by a
short string. The tables list, for every message, the fields of its struct, those
its encoder writes and those its decoder reads; `Encode` and `Decode` run the
writers and readers of `protocol.cpp` over them. A reader returns a set, empty when
the code returns false. The code of a packet type is its place in the enumeration;
values of enumerations are numbers. `IsMessage` says what a message is: a packet type
with a value of its type for every field of the struct. `ByteMod` is at least 6, so
that two bytes hold the code of every packet type; in the code it is 256.

**PacketPipeline.** `stream` is what a client wrote and the network has not
delivered; `pending` are the events of the loop; `decoders` the buffer of every
registered connection. `Arrive`, `Connect`, `Disconnect` and `LateRead` are the
network's and turn into events; `Drain` handles one event, and no event is added
until the drain is over. The callback decodes the payload as `handlePacket` does,
and `received` keeps the result.

**MatchQueue.** A candidate keeps the seconds it has waited, up to `MaxWait`, at
which the allowed distance covers any two ratings (`MatchConstants`), so that longer
waits make no difference. `FindMatch` takes the pair that the two loops meet first.

**PacketDispatcher.** A step is one critical section or one notification, which
the code sends after it unlocked. `pc` says where each thread is; `asleep` is a
wait on the condition variable, and `NotifyOne` chooses any sleeper of that
variable, as the standard allows. The queue's variable is shared by producers and
dispatcher; `OneWaits` says that at most one producer ever pushes while the policy is
`Block`. `held` is the packet between the two queues. A worker takes a job under the
lock (`Take`) and calls the handler after it unlocked (`HandlerBegins`): in between,
another worker may take a later packet and begin with it first. The overflow policy is
chosen at the start and never changes. The dispatcher has a handler: every program creates it
with one, and the loop's branch for an empty handler is left out.

**Session.** Payloads are sizes; time and tokens are integers, where the code has
floating-point seconds and tokens. `passed` and `passedBefore` are history: the
bytes that ever entered the queue, and their number when the clock reached each
time.

**PacketGuard.** `sent` is everything the client ever sent; the network may
deliver any element of it, any number of times, in any order, or never. A packet has
a number and a nonce in its header, and a payload; the payload of a reconnect names a
number too, which nothing compares with the header's. `RestoreSeq` is what a reconnect
does to `last_seq_`: the larger of the number in the payload and the last number of the
session taken over, any number here. It may raise `last_seq_` or lower it. `log` is
history: the packets that reached a handler, in order, with `last_seq_` after each.

**CachedInventory.** A call is its step on the persistent storage, then its steps
on the cache; `pending` holds what is left of the calls under way, on any number of
threads. Transactions begin and end while no call is under way. `astray` is history:
the inventories on which two calls overlapped that do not commute, or where an item
was added or set before the stored inventory was loaded. On those the code does go
wrong; the properties say that nothing else does.

## 3. What the runs check

All bounds are constants in the `.cfg` files. The five-minute limit we set
ourselves for a run decides how large they are.

| Run | Instance | Shows |
|---|---|---|
| `party` | 3 sessions, 2 users, 2 parties, timeouts {0, 1}, clock to 2 | index, leaders and invites agree; nobody joins without a valid invite or a takeover (`JoinByConsent`); the party stays with the user that made it (`LeadershipFollowsUser`) |
| `server_groups` | 3 sessions, 2 users, 1 party, 1 guild | registry and session contexts agree; one session per user; a session that ends lets go of user, instance, character and seats, but for a seat that a takeover could not move (`EndedSessionsLetGo`); a takeover keeps party and guild; guild index and leaders |
| `server_dungeon` | 2 sessions, 2 users, 1 party, 2 instances | the same for instance and character; every instance is paid at most once and marked exactly when paid |
| `server_late` | 3 sessions, 2 users, 1 guild, late packets | the registry's two maps stay inverse; a closed session is removed (liveness) |
| `dispatcher` | 2 producers with 2 packets and 1, 2 workers, capacity 1, 3 policies, 2 starts | no packet lost or handled twice; a packet is overtaken only by others that workers have taken, so with one worker handlers begin in order; stop drains and returns; while `OneWaits`, accepted packets are handled or dropped and blocked pushes return |
| `dispatcher_stall` | 2 producers, 1 worker, `Block` | **violated**: see section 5 |
| `session` | limit 3, capacity 4, rate 2, payloads to 4, clock to 4, 3 policies | byte counter, limit and rate |
| `packet_guard` | 4 packets, numbers modulo 4, nonce cache of 2, 6 packets handled | a packet reaches a handler again only after a reconnect put `last_seq_` below its number and its nonce left the cache (`ReplayNeedsReset`) |
| `inventory` | 2 threads, a stored and an absent inventory of one item, quantities modulo 3, 1 transaction, 1 inventory astray | an inventory that is not astray is the same in cache and persistent storage between calls, and the pair implements a single store, in which every call has its own effect once |
| `wire` | 2 connections, every message with its fields at their limits, pieces of 1 and 9 bytes, 2 uses of an id | what is dispatched is what was sent, in order; parts of a message are refused; all messages get through (liveness) |
| `match_queue` | 4 parties, 2 ratings, sizes in and out of the rule, waits to 2 | nobody overtakes, no party twice in the queue, no two parties wait for ever (liveness) |
| `finished_means_rewarded` | 2 sessions, 1 instance | **violated**: see section 5 |

Why these bounds are enough to be interesting. Three sessions for two users give
a user that moves from one session to another while the other user is in the same
party or guild; a third session is needed for a takeover by a session that someone
else used before. Two parties let an invite of one meet membership in another, two
instances let a party go on while the result of the first is still open. Capacity
1 makes every second push meet a full queue. With 4 packets and a nonce cache of 2 a
nonce is forgotten while its packet can still be delivered, and 6 packets handled leave
room for packets that come again. `QuantityMod` 3 lets quantities wrap, `NumberMod` 4
lets packet numbers wrap within 4 packets. A second item makes the inventory run too
long; the proof of `InventoryRefines` is for any number of items. With `ByteMod` 6 a 16-bit
length ends at 35: strings and lists of 36 elements are sent. Pieces of 1 byte cut a
frame everywhere, pieces of 9 bytes hold a header and the beginning of a payload or
the end of one frame and the beginning of the next.
Invites do not age in the server runs (`MaxTime = 0`); their ageing is checked in
`party`, and accepting a lapsed invite has the effect of rejecting it, which is
included. Sessions and users are symmetric in the safety runs; the liveness runs
use no symmetry.

Deadlock checking is off where the bounds (numbers of packets, sessions, ids,
time) stop the model by themselves.

**Fairness.** `FairServerSpec` assumes weak fairness of `Tick`: the embedding
program's loop keeps calling `Server::tick`. `FairDispatcherSpec` assumes that
every thread that can take a step eventually does (each producer inside `push`,
the dispatcher, each worker, handlers returning) and that a call of `stop` is
carried through. `FairPipelineSpec` assumes that the bytes of a connection that
stays are delivered (strong fairness, as the bound `MaxPending`, which the code does
not have, lets others fill the list) and that the embedding program keeps calling
`drain`;
`MatchSpec` that time passes and the queue's owner keeps calling `findMatch`. Nobody
is assumed to connect, to join the match queue or to call `push`, `start` or `stop`, and
no wait is assumed to wake up spuriously.

**The refinement.** The abstract store (`StoreSpec`) is one map from inventories to
items, the calls under way and what was stored when each open transaction began. A call
has exactly the effect of its operation (add, remove, set, save, or none for a load),
once, in one step, either when it begins or when it returns; nothing else changes the
store but a rollback. `CachedInventory!BehavesLikeOneStore` is this store, as long as
nothing is astray, under the mapping `store <- Visible(...)`, what `loadInventory` would
answer: for an inventory that a call is copying from the persistent storage (`Copying`)
the persistent content counts, otherwise the cache's. A write to an inventory that is
not cached, and `saveInventory`, are seen at their step on the persistent storage and
then owe nothing (`Done` in `calls`); every other write is owed until its step on the
cache. A removal that fails is not seen. `saved` maps every open transaction to what was
visible when it began, so a rollback restores exactly that, whatever was written, missed
and refreshed in between.

## 4. What is proved

Every theorem is for all values of the constants, from the named `ASSUME` of the
module it is about (`PartyConstants`, `SessionConstants` and so on). A theorem that
needs more says so in its statement. Together the theorems cover every invariant and
every action property of the passing runs; what TLC alone checks is liveness.

**`GroupProofs`.** `PartyInvariant` is `PartySpec => []PartyInv`, the conjunction of
`PartyTypeOK`, `IndexMatchesMembers`, `LeaderIsMember` and `InvitesOfLiveParties`;
`PartyTypeCorrect`, `PartyIndexCorrect`, `PartyLeadersListed` and `PartyInvitesLive`
are its parts. None of the middle parts is inductive alone. `disbandParty` removes
the index entries of the party's *members*, so the index stays right only if it
agreed with the member lists before; `removeMember` finds the party through the index
and decides by the leader field whether to disband; `replaceMemberSession` renames the
leader only if the leader is the session replaced, which keeps the leader listed only
if it was listed; invites need ids to be fresh, because a new party must not find
invites of an old one under its id. The proof has one lemma per action; the one for
removals is about `RemoveMembers(S)` for any set `S`, so that it serves the server's
tick as well. `PartyJoinByConsent` and `PartyLeadership` are the two action
properties. They follow from the invariant and, for each action, from what it may do
to a member list and to a leader.

`GuildInvariant` is the same for guilds, by the same argument: types, index and leaders
together are inductive.

**`ServerProofs`** rests on both: an action of the server is calls of the services
and updates of the server's own tables, so `ServerInv` is `PartyInv`, `GuildInv`,
`Accounts` (the registry's two maps are inverse) and `Dungeons` (sessions point at
instances that were created; an instance is marked exactly when it was paid, and once).

* For every environment, late packets included:
  `ServerInvariant`, `ServerTypeCorrect`, `ServerRegistryInverse`,
  `ServerRewardAccounting`, `ServerGuildTypes`, `ServerGuildIndex`,
  `ServerGuildLeaders`, and the party's action properties under the server's calls,
  `ServerJoinByConsent` and `ServerLeadership`.
* If connections fall silent once their session is dropped (`~LatePackets`):
  `SilentInvariant` (contexts, instances and characters belong to live sessions, and
  contexts are the registry's), with `ServerContexts` and `ServerOneSession`, and
  `ServerCleansUp` (`EndedSessionsLetGo`): a session that ends loses its user, instance,
  character and seats and gets none back. The statement has one exception, the seat in
  a party or guild when the session that takes over has one of its own, and does not
  speak of invites: `removeMember` leaves those sent to the session in place.
* `ServerTakeovers` (`TakeoverKeepsProgress`) holds in every environment, for takeovers
  by sessions with seats of their own too, which keep these.

**`SessionProofs`.**

* `RateLimitHolds`: the bytes that entered the send queue since any moment `t` are at
  most the capacity plus the refill since `t`. The bound says nothing of the bucket
  and is not inductive; the invariant `Account` adds what is left in the bucket to the
  account, up to the time of its last refill, and says that nothing has passed since
  then. A refill moves the account forward (`RefillSplit`, and the cap only lowers the
  left side), a send moves bytes from the bucket to `passed`.
* `SessionBytesMatch`, `SessionOverLimit`, `SessionTypeCorrect`, from `QueueInv`. The
  total of a queue is a recursive function, so they need induction over its length.
  The library's induction theorems take an operator and cannot be used; `SetInduction`
  states induction for a *set* of numbers and follows from `WFMin`, which takes sets
  only. With it, every queue has a count (`CountsExist`), only one (`CountsUnique`),
  and the totals of an appended, a shortened and a divided queue follow.

**`GuardProofs`.** `GuardTypeCorrect` and `NoReplayWithoutReset` (`ReplayNeedsReset`).
The property speaks of packets handled and says nothing of what guards the next one, so
the inductive invariant `GuardInv` adds the two defences. `NewestNonces`: the cache holds
the nonces of the last `NonceLimit` packets handled. `LastSeqCovers`: the number of every
packet handled is at most `last_seq_`, unless a reconnect since then left it lower. A
packet that passes `handlePacket` again has beaten both. A payload may name any number,
and the cache may have any size.

**`MatchProofs`.** `MatchTypeCorrect` and `MatchNoOvertaking`. Each operation maps the
places of the queue it leaves to those it found in an increasing way; with no party
twice in the queue, nobody can overtake.

**`DispatcherProofs`**, for any number of producers, workers, packets and starts:

* `DispatcherTypeCorrect` from `FrameInv`, which relates where every thread is to
  what it holds and to how far `start` and `stop` have come;
* `DispatcherStopDrains`, from the same invariant, if there is at least one worker.
  `WorkerPool` takes a thread count of 0, and then nobody empties `jobs_`;
* `DispatcherOrder` (`OnlyWorkersOvertake`): a packet in the pool's queue is older than
  one in the dispatcher's hand, and that than one in the packet queue, per producer
  (`OrderInv`), and one that a worker has taken is older than those that still wait
  (`BusyFirst`). So only packets that other workers have taken can be overtaken;
* `DispatcherAccounts`: `CensusInv` says that an accepted packet is at exactly one
  place, and the sizes of all places add up to the number of packets accepted. The
  order is needed here: it is why a packet pushed is none of those already there.

**`InventoryProofs`**, for any number of threads, inventories, items and transactions:

* `InventoryCoherent` (`CacheCoherent`). Between the steps of a call the storages
  differ, so `InventoryInv` says, for every inventory not astray, how the difference
  comes from the calls under way (`Behind`). Adds may overlap, in any number: `AddsLead`
  has, for every set of the adds under way, the items the cache would hold after these,
  from the cached items for none of them to the persistent ones for all. A new add
  extends this lattice at the far end (`LeadsMore`, because adds commute modulo the
  width of a quantity), and whichever add reaches the cache next takes away a corner at
  the near end (`LeadsLess`).
* `InventoryRefines`: `InventorySpec => BehavesLikeOneStore`, the refinement of
  section 3. `EffectShows` reduces a step of the store to what one inventory is seen to
  become; `OwedBegins`, `OwedReturns` and `OwedGoesOn` follow what each call still owes
  (`Owed`), and that calls of other threads on the same inventory owe what they did
  (`OthersOwe`). Then there is one lemma per action, which says whether the call is seen
  when it begins or when it reaches the cache.

**`WireProofs`**, for every size of a byte from 6 values on (`ProtocolConstants`), any
connections and any messages with their fields in range whose payload a 4-byte length
can count (`ScriptsAreMessages`; a frame's header cannot say more):

* `DecodeUndoesEncode`: for every packet type, reading gives back what was written, with
  strings and lists cut to what a 16-bit length can say; a payload that breaks off
  anywhere, or goes on after the last field, is refused. Loops over bytes, list items,
  fields and frames are recursive functions; `NumberInduction`, induction for a *set* of
  numbers from `WFMin`, takes the place of the library's induction theorems. A number
  is its bytes (`Power` and `Number`, by induction over the width); a reader *undoes* a
  writer when it returns what was written and leaves what follows, and fails on every
  proper part of it. This property goes from the bytes to lists and from the fields
  to the message, for each table of `Protocol`, once it is shown that every field of a
  struct is written once and read in the same place.
* `PartsRefused` (`PartsAreRefused`), from it.
* `MessagesArriveAsSent` (`ReceivedAsSent`). What was received says nothing of the bytes
  on their way, so it is not inductive. `WireInv` gives, for every connection, its place
  in the bytes of its client's messages as the decoder knows it (`DecoderAt`: the first
  messages are out, what has arrived of the next one is in the buffer), its place as the
  stream knows it (`StreamAt`), and a way from the one to the other along the events
  that wait (`Flow`), which may close the connection and open it again, several times. An
  event that is added prolongs this way at its end (`EventAdded`), `drain` shortens it at
  its beginning (`EventHandled`). The step in the middle is `FramesTaken`: of a buffer that
  begins at a frame, `TakeFrames` takes exactly the frames that are whole, because a
  frame can be told from what follows it and a part of one is none. The moves of `Flow`
  are where connection ids that are used again could go wrong: an accept finds the
  connection closed, and a read after the disconnect leaves it closed.

**Only model-checked.** Liveness (`ClosedSessionsGo`, `PacketsAreHandled`,
`BlockedPushReturns`, `StopReturns`, `NobodyStarves`, `MessagesGetThrough`): leads-to
under fairness and ENABLED are beyond the prover.

## 5. Where the code and its documents disagree

* `dispatcher_stall`. With the policy `Block` and two producers, `push` may wake
  the other producer instead of the dispatcher: it finds the queue full and sleeps
  again, and everybody sleeps although the queue holds an accepted packet. It takes
  two sleepers on the one condition variable: while only one producer pushes
  (`OneWaits`), the run `dispatcher` shows that it cannot happen.
* `finished_means_rewarded`. `DungeonResultNotify` moves the instance to Clear or
  Fail first; when a later step fails the request is rejected, the instance stays
  finished without a reward, and a retry is refused.

Observed while modelling, not stated as findings: `setItem` writes the persistent
storage and the cache without a lock over both, so two threads can write them in
opposite orders (the reason for `astray`); after a late login on a removed
session, a reconnect leaves two sessions acting for one user (`OneSessionPerUser`
fails with `LatePackets = TRUE`); a takeover by a session that has a party or guild
of its own leaves the old session's seat behind (the exception in `EndedSessionsLetGo`),
and an invite sent to a session that ended stays until it lapses; a reconnect that names
a smaller number lowers `last_seq_`, and then an older packet whose nonce has left the
cache is handled again (`ReplayNeedsReset` says that it takes both); with several workers
the handler of a later packet may begin first (`OnlyWorkersOvertake`); an expired token is noticed only by a reconnect; under
`DropOldest` one payload larger than the send queue's limit is queued all the same,
which is why the limit is stated as `OverLimitAlone`; adding an item to a stored
inventory that the cache has not loaded hides the items stored before (such an
inventory is `astray` too); after the largest packet number a client is not heard
any more on its session. A logout
leaves party, guild, instance and character with the session.

## 6. What is not modelled

The arithmetic of signatures, formatting, metrics, logging, combat events, the
movement check and drop tables have no state that a property relates to; they are
listed as components with the reason. `scripts/load_match_sim.cpp` is a load
generator, not part of the server. `InventoryUpdateNotify` is one transaction of adds
on the storage, whose calls `CachedInventory` has one by one. `validateClientRewards`,
`grantFromTable` and reward inventories that live longer than a request are called
from tests only. Also left out: names of guilds and texts, seeds of instances, the
change log of the storages, several tokens per user, the rejections for a missing
TLS mark or an unsupported version (they change nothing), data races of a
`handlePacket` called from several threads at once, iterator invalidation in the takeover, handlers that add
events while `drain` runs (none does).

That the server's handlers run one at a time is an assumption of `Server`, not something
the code enforces: `Server` has no lock, and a test of the pipeline
(`tests/net_tests.cpp:736-753`) calls `handlePacket` from two workers.

## 7. Plan

Done, in this order: party service, guild service, instances, server, dispatcher,
session, packet guard, inventory; then protocol, frames and I/O layer, match queue,
rewards, chat, inventory calls on several threads. Proofs: parties, rate limit; then
guilds, server, packet guard, match queue, dispatcher, inventory with its refinement,
and the send queue; then messages and frames, the pipeline, and which conditions on the
environment each promise of the server needs.

Next:

1. `handlePacket` on several workers at once, with the tables as shared state;
2. `InventoryUpdateNotify` in `Server`, over the operations of `CachedInventory`;
3. several tokens per user, and the lifetime of a context after its token has expired.
