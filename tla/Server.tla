------------------------------- MODULE Server -------------------------------
(***************************************************************************)
(* net/server.cpp: sessions, logins, takeovers, guild packets, chat,       *)
(* matches, dungeon entry and dungeon results, over the party service, the *)
(* guild service, the instance manager and the reward service. One action  *)
(* per packet handler or public method. The server has no lock of its own: *)
(* the model assumes that its callers let handlers run one at a time. A    *)
(* request that is refused without effect is a stuttering step.            *)
(*                                                                         *)
(* Time is abstract: any session may time out before the next tick and any *)
(* token may expire. Invites do not age here (MaxTime = 0): accepting an   *)
(* expired one has the effect of rejecting it.                             *)
(***************************************************************************)
EXTENDS InstanceManager, GuildService, RewardService, FiniteSets

CONSTANTS
    Characters,     \* character ids
    RewardLists,    \* lists of rewards a result reports, see RewardService
    MaxPartySize,   \* match::MatchRule::max_party_size
    LatePackets     \* a connection may deliver packets for a removed session

ASSUME ServerConstants == MaxPartySize \in Nat /\ LatePackets \in BOOLEAN

VARIABLES
    created,            \* ids handed out so far (next_id_)
    live,               \* keys of sessions_
    closed,             \* live sessions whose connected_ is false
    context,            \* user_context_ of the session objects: session -> user
    registry,           \* records_ and active_users_ of the SessionRegistry
    tokens,             \* users that hold a token that has not expired
    sessionInstances,   \* session_instances_: session -> instance
    sessionCharacters,  \* session_characters_: session -> character
    grants,             \* instance_reward_grants_: instance -> grant id
    nextGrantId,        \* next_reward_grant_id_
    ledger              \* dungeon_reward entries committed to the inventory

accountVars == <<created, live, closed, context, registry, tokens>>
rewardVars  == <<grants, nextGrantId, ledger>>
dungeonVars == <<instanceVars, sessionInstances, sessionCharacters, rewardVars>>
vars == <<accountVars, partyVars, guildVars, dungeonVars>>

-----------------------------------------------------------------------------
ServerInit ==
    /\ PartyInit /\ GuildInit /\ InstanceInit
    /\ created = {} /\ live = {} /\ closed = {}
    /\ context = EmptyMap
    /\ registry = [records |-> EmptyMap, activeUsers |-> EmptyMap]
    /\ tokens = {}
    /\ sessionInstances = EmptyMap /\ sessionCharacters = EmptyMap
    /\ grants = EmptyMap /\ nextGrantId = 1 /\ ledger = {}

(* A connection keeps its session object after the server dropped it, and    *)
(* handlePacket never asks whether the session is still in sessions_.        *)
CanSend(s) == s \in live \/ (LatePackets /\ s \in created)

Authenticated(s) == CanSend(s) /\ s \in DOMAIN context

-----------------------------------------------------------------------------
(* SessionRegistry *)

RegisteredElsewhere(reg, s, u) == u \in DOMAIN reg.activeUsers /\ reg.activeUsers[u] # s

(* Mutant: the session's previous user keeps its entry in active_users_. *)
RegisterSessionKeepPrevious(reg, s, u) ==
    IF RegisteredElsewhere(reg, s, u) THEN reg
    ELSE [records     |-> Put(reg.records, s, u),
          activeUsers |-> Put(reg.activeUsers, u, s)]

(* A user that has another session is refused; the handlers that register    *)
(* one see to it first that it has none.                                     *)
RegisterSession(reg, s, u) ==
    LET previous == IF s \in DOMAIN reg.records THEN {reg.records[s]} ELSE {}
    IN  IF RegisteredElsewhere(reg, s, u) THEN reg
        ELSE [records     |-> Put(reg.records, s, u),
              activeUsers |-> Put(Without(reg.activeUsers, previous), u, s)]

UnregisterSessions(reg, S) ==
    [records     |-> Without(reg.records, S),
     activeUsers |-> Without(reg.activeUsers,
                             {reg.records[s] : s \in S \cap DOMAIN reg.records})]

(* The session other than s under which user u is registered, if any. *)
OtherSessionOf(u, s) ==
    {t \in {registry.activeUsers[v] : v \in {u} \cap DOMAIN registry.activeUsers} :
        t # s}

-----------------------------------------------------------------------------
(* Sessions *)

CreateSession(s) ==
    /\ s \notin created
    /\ created' = created \cup {s}
    /\ live' = live \cup {s}
    /\ UNCHANGED <<closed, context, registry, tokens, partyVars, guildVars, dungeonVars>>

(* Mutants: the guild service, or the dungeon tables, are not told. *)
RemoveSessionsKeepGuild(S) ==
    /\ live' = live \ S
    /\ closed' = closed \ S
    /\ context' = Without(context, S)
    /\ registry' = UnregisterSessions(registry, S)
    /\ RemoveMembers(S)
    /\ sessionInstances' = Without(sessionInstances, S)
    /\ sessionCharacters' = Without(sessionCharacters, S)
    /\ UNCHANGED <<created, tokens, guildVars, instanceVars, rewardVars>>

RemoveSessionsKeepInstance(S) ==
    /\ live' = live \ S
    /\ closed' = closed \ S
    /\ context' = Without(context, S)
    /\ registry' = UnregisterSessions(registry, S)
    /\ RemoveMembers(S)
    /\ RemoveGuildMembers(S)
    /\ UNCHANGED <<created, tokens, sessionInstances, sessionCharacters, instanceVars, rewardVars>>

(* removeSession for every session of S, in any order *)
RemoveSessions(S) ==
    /\ live' = live \ S
    /\ closed' = closed \ S
    /\ context' = Without(context, S)
    /\ registry' = UnregisterSessions(registry, S)
    /\ RemoveMembers(S)
    /\ RemoveGuildMembers(S)
    /\ sessionInstances' = Without(sessionInstances, S)
    /\ sessionCharacters' = Without(sessionCharacters, S)
    /\ UNCHANGED <<created, tokens, instanceVars, rewardVars>>

(* Mutant: a session that is no longer connected is passed over. *)
TickSkipsClosed ==
    \E S \in SUBSET (live \ closed) \ {{}} : RemoveSessions(S)

(* Session::tick fails for the closed sessions and for those that timed out. *)
Tick ==
    \E S \in SUBSET live \ {{}} : closed \subseteq S /\ RemoveSessions(S)

ForceDisconnect(s) == s \in live /\ RemoveSessions({s})

(* A frame for s does not fit its send queue and its policy is Disconnect:   *)
(* a response, a guild event or a match notification.                        *)
Overflow(s) ==
    /\ s \in live \ closed
    /\ closed' = closed \cup {s}
    /\ UNCHANGED <<created, live, context, registry, tokens, partyVars, guildVars, dungeonVars>>

TokenExpires(u) ==
    /\ u \in tokens
    /\ tokens' = tokens \ {u}
    /\ UNCHANGED <<created, live, closed, context, registry, partyVars, guildVars, dungeonVars>>

-----------------------------------------------------------------------------
(* Logging in and out, and taking a session over *)

(* Mutant: the login is not checked against the user's other session. *)
LoginReqUnchecked(s, u) ==
    /\ CanSend(s)
    /\ tokens' = tokens \cup {u}
    /\ context' = Put(context, s, u)
    /\ registry' = RegisterSession(registry, s, u)
    /\ UNCHANGED <<created, live, closed, partyVars, guildVars, dungeonVars>>

LoginReq(s, u) ==
    /\ CanSend(s)
    /\ OtherSessionOf(u, s) = {}
    /\ tokens' = tokens \cup {u}
    /\ context' = Put(context, s, u)
    /\ registry' = RegisterSession(registry, s, u)
    /\ UNCHANGED <<created, live, closed, partyVars, guildVars, dungeonVars>>

(* Mutant: the registry forgets the session, the session keeps its user. *)
LogoutReqKeepContext(s) ==
    /\ CanSend(s)
    /\ registry' = UnregisterSessions(registry, {s})
    /\ UNCHANGED <<created, live, closed, context, tokens, partyVars, guildVars, dungeonVars>>

(* The session stays in its party, its guild and its instance, and the token *)
(* stays valid.                                                              *)
LogoutReq(s) ==
    /\ CanSend(s)
    /\ context' = Without(context, {s})
    /\ registry' = UnregisterSessions(registry, {s})
    /\ UNCHANGED <<created, live, closed, tokens, partyVars, guildVars, dungeonVars>>

MoveEntry(m, old, new) ==
    IF old \in DOMAIN m THEN Put(Without(m, {old}), new, m[old]) ELSE m

(* Mutant: the old session is removed the ordinary way before it is replaced. *)
TakeOverAfterRemoval(old, new) ==
    /\ RemoveMembers({old})
    /\ RemoveGuildMembers({old})
    /\ sessionInstances' = MoveEntry(sessionInstances, old, new)
    /\ sessionCharacters' = MoveEntry(sessionCharacters, old, new)
    /\ live' = live \ {old}
    /\ closed' = closed \ {old}

(* Mutant: the character of the old session is left behind. *)
TakeOverForgetsCharacter(old, new) ==
    /\ \/ ReplaceMemberSession(old, new)
       \/ ~PartyReplaceable(old, new) /\ UNCHANGED partyVars
    /\ \/ ReplaceGuildSession(old, new)
       \/ ~GuildReplaceable(old, new) /\ UNCHANGED guildVars
    /\ sessionInstances' = MoveEntry(sessionInstances, old, new)
    /\ sessionCharacters' = Without(sessionCharacters, {old})
    /\ live' = live \ {old}
    /\ closed' = closed \ {old}

(* What the new session inherits. A service that cannot move the seat,       *)
(* because the new session has one of its own, leaves the old one in place.  *)
TakeOver(old, new) ==
    /\ \/ ReplaceMemberSession(old, new)
       \/ ~PartyReplaceable(old, new) /\ UNCHANGED partyVars
    /\ \/ ReplaceGuildSession(old, new)
       \/ ~GuildReplaceable(old, new) /\ UNCHANGED guildVars
    /\ sessionInstances' = MoveEntry(sessionInstances, old, new)
    /\ sessionCharacters' = MoveEntry(sessionCharacters, old, new)
    /\ live' = live \ {old}
    /\ closed' = closed \ {old}

(* A valid token alone, or one whose user is registered under another        *)
(* session: one that sessions_ still holds is taken over; one it does not    *)
(* hold is only struck from the registry.                                    *)
SessionReconnectReq(s, u) ==
    /\ CanSend(s)
    /\ u \in tokens
    /\ \/ /\ OtherSessionOf(u, s) = {}
          /\ context' = Put(context, s, u)
          /\ UNCHANGED <<live, closed, partyVars, guildVars, sessionInstances, sessionCharacters>>
       \/ \E old \in OtherSessionOf(u, s) \cap live :
            /\ TakeOver(old, s)
            /\ context' = Put(Without(context, {old}), s, u)
       \/ /\ OtherSessionOf(u, s) \ live # {}
          /\ context' = Put(context, s, u)
          /\ UNCHANGED <<live, closed, partyVars, guildVars, sessionInstances, sessionCharacters>>
    /\ registry' = RegisterSession(UnregisterSessions(registry, OtherSessionOf(u, s)), s, u)
    /\ UNCHANGED <<created, tokens, instanceVars, rewardVars>>

-----------------------------------------------------------------------------
(* Guild packets *)

GuildCreateReq(s) ==
    /\ Authenticated(s)
    /\ CreateGuild(s, context[s])
    /\ UNCHANGED <<accountVars, partyVars, dungeonVars>>

GuildJoinReq(s, g) ==
    /\ Authenticated(s)
    /\ JoinGuild(g, s, context[s])
    /\ UNCHANGED <<accountVars, partyVars, dungeonVars>>

(* Guild 0 stands for the guild the session is in. *)
GuildLeaveReq(s, g) ==
    /\ Authenticated(s)
    /\ LeaveGuild(g, s)
    /\ UNCHANGED <<accountVars, partyVars, dungeonVars>>

-----------------------------------------------------------------------------
(* Chat *)

GlobalRecipients == live \cap DOMAIN context

(* Party 0 stands for the party the session is in. *)
PartyRecipients(s, p) ==
    LET party == IF p = 0 /\ s \in DOMAIN memberIndex THEN memberIndex[s] ELSE p
        members == IF party \in DOMAIN parties THEN DOMAIN parties[party].members ELSE {}
    IN  IF s \in members THEN members ELSE {}

(* The event goes to every recipient the server still has; one whose send    *)
(* queue has no room for it is closed, and the others get theirs.            *)
ChatSendReq(s, recipients) ==
    /\ Authenticated(s)
    /\ \E full \in SUBSET ((recipients \cap live) \ closed) \ {{}} :
        closed' = closed \cup full
    /\ UNCHANGED <<created, live, context, registry, tokens, partyVars, guildVars, dungeonVars>>

-----------------------------------------------------------------------------
(* Parties have no packet handlers: the embedding program calls the party    *)
(* service on behalf of logged-in sessions.                                  *)

PartyCall(s) ==
    /\ s \in live /\ s \in DOMAIN context
    /\ \/ CreateParty(s, context[s])
       \/ \E p \in DOMAIN parties :
            \/ \E t \in live \cap DOMAIN context : InviteMember(p, s, t, context[t])
            \/ AcceptInvite(p, s)
            \/ RejectInvite(p, s)
            \/ DisbandParty(p, s)
       \/ RemoveMember(s)
    /\ UNCHANGED <<accountVars, guildVars, dungeonVars>>

-----------------------------------------------------------------------------
(* Matches and dungeons *)

(* The party is queued, finds no other candidate (every request leaves the   *)
(* queue as empty as it found it), is taken off the queue again and gets an  *)
(* instance of its own, which every member that has a session is sent to.    *)
MatchReq(s, p) ==
    /\ Authenticated(s)
    /\ p \in DOMAIN parties
    /\ s \in DOMAIN parties[p].members
    /\ Cardinality(DOMAIN parties[p].members) \in 1 .. MaxPartySize
    /\ CreateInstance(p)
    /\ LET notified == DOMAIN parties[p].members \cap live
       IN  sessionInstances' =
             [t \in DOMAIN sessionInstances \cup notified |->
                IF t \in notified THEN nextInstanceId ELSE sessionInstances[t]]
    /\ UNCHANGED <<accountVars, partyVars, guildVars, sessionCharacters, rewardVars>>

(* Only a request with the instance's ticket gets this far. The first member *)
(* to enter makes the instance Ready; those after it are refused.            *)
DungeonEnterReq(s, i, c) ==
    /\ Authenticated(s)
    /\ i \in DOMAIN instances
    /\ instances[i].party \in DOMAIN parties
    /\ s \in DOMAIN parties[instances[i].party].members
    /\ RequestTransition(i, "Ready")
    /\ sessionCharacters' = Put(sessionCharacters, s, c)
    /\ sessionInstances' = Put(sessionInstances, s, i)
    /\ UNCHANGED <<accountVars, partyVars, guildVars, rewardVars>>

(* Calls of the embedding program on the instance manager *)
InstanceCall(i) ==
    /\ RequestTransition(i, "Playing") \/ RequestTransition(i, "Terminate")
       \/ TerminateInstance(i)
    /\ UNCHANGED <<accountVars, partyVars, guildVars, sessionInstances, sessionCharacters, rewardVars>>

(* What the inventory takes in one transaction *)
RewardEntry(i, c) == [instance |-> i, grant |-> nextGrantId, char |-> c]

(* addItem of the storage fails for quantity 0, and nothing is committed. *)
StorageTakes(items) == \A k \in DOMAIN items : items[k] > 0

(* Mutant: the grant id is used and not advanced. *)
SettleRewardSameGrant(s, i, items) ==
    \/ s \notin DOMAIN sessionCharacters /\ UNCHANGED rewardVars
    \/ /\ s \in DOMAIN sessionCharacters
       /\ UNCHANGED nextGrantId
       /\ \/ /\ GrantRewards(items) /\ StorageTakes(items)
             /\ ledger' = ledger \cup {RewardEntry(i, sessionCharacters[s])}
             /\ grants' = Put(grants, i, nextGrantId)
          \/ /\ ~(GrantRewards(items) /\ StorageTakes(items))
             /\ UNCHANGED <<grants, ledger>>

(* Mutant: the grant is remembered before the inventory has taken it. *)
SettleRewardEarly(s, i, items) ==
    \/ s \notin DOMAIN sessionCharacters /\ UNCHANGED rewardVars
    \/ /\ s \in DOMAIN sessionCharacters
       /\ grants' = Put(grants, i, nextGrantId)
       /\ nextGrantId' = nextGrantId + 1
       /\ ledger' = IF GrantRewards(items) /\ StorageTakes(items)
                    THEN ledger \cup {RewardEntry(i, sessionCharacters[s])} ELSE ledger

(* What follows an accepted result: no character, no reward; a grant or an   *)
(* inventory transaction that fails uses the grant id up and leaves nothing; *)
(* otherwise the items are committed and the instance is marked as rewarded. *)
SettleReward(s, i, items) ==
    \/ s \notin DOMAIN sessionCharacters /\ UNCHANGED rewardVars
    \/ /\ s \in DOMAIN sessionCharacters
       /\ nextGrantId' = nextGrantId + 1
       /\ \/ /\ GrantRewards(items) /\ StorageTakes(items)
             /\ ledger' = ledger \cup {RewardEntry(i, sessionCharacters[s])}
             /\ grants' = Put(grants, i, nextGrantId)
          \/ /\ ~(GrantRewards(items) /\ StorageTakes(items))
             /\ UNCHANGED <<grants, ledger>>

DungeonResultNotify(s, result, items) ==
    /\ Authenticated(s)
    /\ s \in DOMAIN sessionInstances
    /\ LET i == sessionInstances[s]
       IN  /\ i \notin DOMAIN grants
           /\ RequestTransition(i, result)
           /\ SettleReward(s, i, items)
    /\ UNCHANGED <<accountVars, partyVars, guildVars, sessionInstances, sessionCharacters>>

-----------------------------------------------------------------------------
ServerNext ==
    \/ Tick
    \/ \E u \in Users : TokenExpires(u)
    \/ \E s \in Sessions :
        \/ CreateSession(s)
        \/ ForceDisconnect(s)
        \/ Overflow(s)
        \/ LogoutReq(s)
        \/ \E u \in Users : LoginReq(s, u) \/ SessionReconnectReq(s, u)
        \/ GuildCreateReq(s)
        \/ \E g \in DOMAIN guilds : GuildJoinReq(s, g) \/ GuildLeaveReq(s, g)
        \/ ChatSendReq(s, GlobalRecipients)
        \/ \E p \in {0} \cup DOMAIN parties : ChatSendReq(s, PartyRecipients(s, p))
        \/ PartyCall(s)
        \/ \E p \in DOMAIN parties : MatchReq(s, p)
        \/ \E i \in DOMAIN instances, c \in Characters : DungeonEnterReq(s, i, c)
        \/ \E result \in {"Clear", "Fail"}, items \in RewardLists :
             DungeonResultNotify(s, result, items)
    \/ \E i \in DOMAIN instances : InstanceCall(i)

ServerSpec == ServerInit /\ [][ServerNext]_vars

(* The embedding program keeps calling Server::tick. *)
FairServerSpec == ServerSpec /\ WF_vars(Tick)

-----------------------------------------------------------------------------
(* Type invariant of the server's own fields (server.h). *)
ServerTypeOK ==
    /\ created \subseteq Sessions
    /\ live \subseteq created /\ closed \subseteq live
    /\ IsMap(context, created, Users)
    /\ IsMap(registry.records, created, Users)
    /\ IsMap(registry.activeUsers, Users, created)
    /\ tokens \subseteq Users
    /\ IsMap(sessionInstances, created, DOMAIN instances)
    /\ IsMap(sessionCharacters, created, Characters)
    /\ IsMap(instances, 1 .. nextInstanceId - 1,
             [party : 1 .. nextPartyId - 1, state : InstanceStates])
    /\ IsMap(grants, DOMAIN instances, 1 .. nextGrantId - 1)

(* records_ and active_users_ are inverses of each other, whatever logins,   *)
(* takeovers and removals interleave: a user has one registered session.     *)
RegistryInverse ==
    /\ \A s \in DOMAIN registry.records :
        /\ registry.records[s] \in DOMAIN registry.activeUsers
        /\ registry.activeUsers[registry.records[s]] = s
    /\ \A u \in DOMAIN registry.activeUsers :
        /\ registry.activeUsers[u] \in DOMAIN registry.records
        /\ registry.records[registry.activeUsers[u]] = u

(* The handlers trust the session's own user context; it names a user        *)
(* exactly when the registry has the session under that user.                *)
ContextMatchesRegistry == context = registry.records

(* No two sessions act for the same user (the second LoginReq of a user is   *)
(* answered "User already logged in").                                       *)
OneSessionPerUser ==
    \A s, t \in DOMAIN context : context[s] = context[t] => s = t

(* The step ends session old, and its user goes on under session new. *)
TakenOverBy(old, new) ==
    /\ old \in live \ live' /\ new \in live'
    /\ old \in DOMAIN registry.records /\ new \in DOMAIN registry'.records
    /\ registry.records[old] = registry'.records[new]

SeatLeft(before, after, s) ==
    s \in DOMAIN after =>
        /\ s \in DOMAIN before
        /\ s \in live => \E new \in DOMAIN before : TakenOverBy(s, new)

CleanupStep ==
    \A s \in Sessions \ live' :
        /\ s \notin DOMAIN context' \cup DOMAIN sessionInstances' \cup DOMAIN sessionCharacters'
        /\ SeatLeft(memberIndex, memberIndex', s)
        /\ SeatLeft(guildIndex, guildIndex', s)

(* Whatever ends a session (tick, forceDisconnect, a takeover), it loses its *)
(* user, its instance, its character and its seats in party and guild, and   *)
(* gets none of them back. There is one exception: a takeover by a session   *)
(* that has a party (or guild) of its own leaves the old session's seat in   *)
(* that service behind. Invites are not among the things lost: one that was  *)
(* sent to the session stays in the party until it lapses.                   *)
EndedSessionsLetGo == [][CleanupStep]_vars

SameEntry(before, old, after, new) ==
    old \in DOMAIN before => new \in DOMAIN after /\ after[new] = before[old]

(* A seat that the new session has already is the one it keeps. *)
SameSeat(before, old, after, new) ==
    IF new \in DOMAIN before THEN SameEntry(before, new, after, new)
    ELSE SameEntry(before, old, after, new)

(* When a reconnect ends a user's session, the session that the user has     *)
(* afterwards is where the old one was: its instance and character always,   *)
(* its party and guild unless it has a party or guild of its own.            *)
TakeoverStep ==
    \A old \in live \ live', new \in live' :
        TakenOverBy(old, new) =>
            /\ SameSeat(memberIndex, old, memberIndex', new)
            /\ SameSeat(guildIndex, old, guildIndex', new)
            /\ SameEntry(sessionInstances, old, sessionInstances', new)
            /\ SameEntry(sessionCharacters, old, sessionCharacters', new)

TakeoverKeepsProgress == [][TakeoverStep]_vars

(* An instance is marked as rewarded exactly when the inventory took one     *)
(* dungeon reward for it, under that grant id, and then it is over: no       *)
(* retry, no other member's report and no reconnect pays it again.           *)
RewardAccounting ==
    /\ \A i \in DOMAIN grants :
        /\ {e.grant : e \in {x \in ledger : x.instance = i}} = {grants[i]}
        /\ instances[i].state \in Finished
    /\ \A e \in ledger : e.instance \in DOMAIN grants
    /\ \A d, e \in ledger : d.grant = e.grant => d = e

(* A result that the server accepts brings the reward with it: an instance   *)
(* does not stay Clear or Fail without one.                                  *)
FinishedMeansRewarded ==
    \A i \in DOMAIN instances :
        instances[i].state \in {"Clear", "Fail"} => i \in DOMAIN grants

(* A session whose connection is gone is dropped by a later tick.            *)
ClosedSessionsGo == \A s \in Sessions : s \in closed ~> s \notin live
=============================================================================
