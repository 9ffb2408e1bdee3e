---------------------------- MODULE GuildService ----------------------------
(***************************************************************************)
(* guild/guild.cpp: guilds and their members. Unlike a party a guild is    *)
(* joined without an invite. Calls that are refused change nothing and are *)
(* stuttering steps. The events a call emits to the members of the guild   *)
(* leave this module unchanged; what they can do to the receiving session  *)
(* is Overflow in module Server.                                           *)
(***************************************************************************)
EXTENDS Identities

CONSTANT
    MaxGuilds  \* bound on next_guild_id_

ASSUME GuildConstants == MaxGuilds \in Nat

VARIABLES
    guilds,     \* guilds_: live guild id -> leader and members
    guildIndex, \* member_index_: session id -> guild id
    nextGuildId \* next_guild_id_

guildVars == <<guilds, guildIndex, nextGuildId>>

GuildIds == Nat \ {0}
IsGuild(r) ==
    /\ r = [leader |-> r.leader, members |-> r.members]
    /\ r.leader \in Sessions
    /\ IsMap(r.members, Sessions, Users)

-----------------------------------------------------------------------------
GuildInit ==
    /\ guilds = EmptyMap
    /\ guildIndex = EmptyMap
    /\ nextGuildId = 1

(* Mutant: the id counter is read but not advanced. *)
CreateGuildSameId(s, u) ==
    /\ s \notin DOMAIN guildIndex
    /\ nextGuildId <= MaxGuilds
    /\ guilds' = Put(guilds, nextGuildId,
                     [leader |-> s, members |-> Put(EmptyMap, s, u)])
    /\ guildIndex' = Put(guildIndex, s, nextGuildId)
    /\ UNCHANGED nextGuildId

(* The name only has to be non-empty; an empty one is refused. *)
CreateGuild(s, u) ==
    /\ s \notin DOMAIN guildIndex
    /\ nextGuildId <= MaxGuilds
    /\ nextGuildId' = nextGuildId + 1
    /\ guilds' = Put(guilds, nextGuildId,
                     [leader |-> s, members |-> Put(EmptyMap, s, u)])
    /\ guildIndex' = Put(guildIndex, s, nextGuildId)

JoinGuild(g, s, u) ==
    /\ g \in DOMAIN guilds
    /\ s \notin DOMAIN guildIndex
    /\ guilds' = [guilds EXCEPT ![g].members = Emplace(@, s, u)]
    /\ guildIndex' = Put(guildIndex, s, g)
    /\ UNCHANGED nextGuildId

(* Mutant: the guild is disbanded, and only its leader leaves the index. *)
LeaveGuildLeaderIndexOnly(g, s) ==
    /\ g \in DOMAIN guilds
    /\ s \in DOMAIN guilds[g].members
    /\ guilds' = IF guilds[g].leader = s THEN Without(guilds, {g})
                 ELSE [guilds EXCEPT ![g].members = Without(@, {s})]
    /\ guildIndex' = Without(guildIndex, {s})
    /\ UNCHANGED nextGuildId

(* A leader that leaves disbands the guild. *)
LeaveGuild(g, s) ==
    /\ g \in DOMAIN guilds
    /\ s \in DOMAIN guilds[g].members
    /\ IF guilds[g].leader = s
       THEN /\ guilds' = Without(guilds, {g})
            /\ guildIndex' = Without(guildIndex, DOMAIN guilds[g].members)
       ELSE /\ guilds' = [guilds EXCEPT ![g].members = Without(@, {s})]
            /\ guildIndex' = Without(guildIndex, {s})
    /\ UNCHANGED nextGuildId

(* Mutant: whoever leaves, the guild goes on, even without its leader. *)
RemoveGuildMembersKeepGuild(S) ==
    LET G == {guildIndex[s] : s \in S \cap DOMAIN guildIndex}
    IN  /\ guilds' = [g \in DOMAIN guilds |->
              IF g \notin G THEN guilds[g]
              ELSE [guilds[g] EXCEPT !.members = Without(@, S)]]
        /\ guildIndex' = Without(guildIndex, S)
        /\ UNCHANGED nextGuildId

(* removeMember for every session of S, in any order. The indexed guild      *)
(* always exists and lists the session (GuildIndexMatches), so the branches  *)
(* that repair a dangling index entry are never taken.                       *)
RemoveGuildMembers(S) ==
    LET G   == {guildIndex[s] : s \in S \cap DOMAIN guildIndex}
        Led == {g \in G : guilds[g].leader \in S}
    IN  /\ guilds' = [g \in DOMAIN guilds \ Led |->
              IF g \notin G THEN guilds[g]
              ELSE [guilds[g] EXCEPT !.members = Without(@, S)]]
        /\ guildIndex' = Without(guildIndex,
              S \cup UNION {DOMAIN guilds[g].members : g \in Led})
        /\ UNCHANGED nextGuildId

RemoveGuildMember(s) == s \in DOMAIN guildIndex /\ RemoveGuildMembers({s})

GuildReplaceable(old, new) ==
    /\ old # new
    /\ old \in DOMAIN guildIndex
    /\ new \notin DOMAIN guildIndex

ReplaceGuildSession(old, new) ==
    /\ GuildReplaceable(old, new)
    /\ LET g == guildIndex[old]
           guild == guilds[g]
       IN  /\ guilds' = [guilds EXCEPT ![g] =
                 [leader  |-> IF guild.leader = old THEN new ELSE guild.leader,
                  members |-> Emplace(Without(guild.members, {old}), new,
                                      guild.members[old])]]
           /\ guildIndex' = Put(Without(guildIndex, {old}), new, g)
    /\ UNCHANGED nextGuildId

GuildNext ==
    \E s \in Sessions :
        \/ \E u \in Users : CreateGuild(s, u)
        \/ \E g \in DOMAIN guilds, u \in Users : JoinGuild(g, s, u)
        \/ \E g \in DOMAIN guilds : LeaveGuild(g, s)
        \/ RemoveGuildMember(s)
        \/ \E new \in Sessions : ReplaceGuildSession(s, new)

GuildSpec == GuildInit /\ [][GuildNext]_guildVars

-----------------------------------------------------------------------------
(* Type invariant: what the fields of GuildService (guild.h) can hold. *)
GuildTypeOK ==
    /\ guilds = [g \in DOMAIN guilds |-> guilds[g]]
    /\ \A g \in DOMAIN guilds :
        /\ g \in GuildIds /\ g < nextGuildId
        /\ IsGuild(guilds[g])
    /\ IsMap(guildIndex, Sessions, GuildIds)
    /\ nextGuildId \in GuildIds

(* member_index_ and the member tables of guilds_ tell the same story.       *)
GuildIndexMatches ==
    /\ \A s \in DOMAIN guildIndex :
        /\ guildIndex[s] \in DOMAIN guilds
        /\ s \in DOMAIN guilds[guildIndex[s]].members
    /\ \A g \in DOMAIN guilds : \A s \in DOMAIN guilds[g].members :
        /\ s \in DOMAIN guildIndex
        /\ guildIndex[s] = g

(* Every guild lists its leader, so one of its members can disband it.       *)
GuildLeaderListed ==
    \A g \in DOMAIN guilds : guilds[g].leader \in DOMAIN guilds[g].members
=============================================================================
