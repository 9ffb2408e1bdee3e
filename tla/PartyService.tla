---------------------------- MODULE PartyService ----------------------------
(***************************************************************************)
(* party/party.cpp: parties, their members and the invites they sent.      *)
(*                                                                         *)
(* A call that returns false or nullopt before it changes anything is a    *)
(* stuttering step; the actions below are the calls that change state.     *)
(* The clock is the `now' callers pass in; time does not run backwards.    *)
(***************************************************************************)
EXTENDS Identities

CONSTANTS
    InviteTimeouts, \* values setInviteTimeout may be given
    MaxParties,     \* bound on next_party_id_
    MaxTime         \* bound on the clock

ASSUME PartyConstants ==
    /\ MaxParties \in Nat /\ MaxTime \in Nat
    /\ InviteTimeouts \subseteq Nat

VARIABLES
    parties,        \* parties_: live party id -> leader and members
    memberIndex,    \* member_index_: session id -> party id
    invites,        \* invites_: <<party id, invitee>> -> user and sent_at
    nextPartyId,    \* next_party_id_
    inviteTimeout,  \* invite_timeout_
    clock           \* `now'

partyVars == <<parties, memberIndex, invites, nextPartyId, inviteTimeout, clock>>

PartyIds == Nat \ {0}
IsParty(r) ==
    /\ r = [leader |-> r.leader, members |-> r.members]
    /\ r.leader \in Sessions
    /\ IsMap(r.members, Sessions, Users)
PartyInvites == [user : Users, sentAt : Nat]

-----------------------------------------------------------------------------
PartyInit ==
    /\ parties = EmptyMap
    /\ memberIndex = EmptyMap
    /\ invites = EmptyMap
    /\ nextPartyId = 1
    /\ inviteTimeout \in InviteTimeouts
    /\ clock = 0

(* Mutant: the id counter is read but not advanced. *)
CreatePartySameId(s, u) ==
    /\ s \notin DOMAIN memberIndex
    /\ nextPartyId <= MaxParties
    /\ parties' = Put(parties, nextPartyId,
                      [leader |-> s, members |-> Put(EmptyMap, s, u)])
    /\ memberIndex' = Put(memberIndex, s, nextPartyId)
    /\ UNCHANGED <<invites, nextPartyId, inviteTimeout, clock>>

CreateParty(s, u) ==
    /\ s \notin DOMAIN memberIndex
    /\ nextPartyId <= MaxParties
    /\ nextPartyId' = nextPartyId + 1
    /\ parties' = Put(parties, nextPartyId,
                      [leader |-> s, members |-> Put(EmptyMap, s, u)])
    /\ memberIndex' = Put(memberIndex, s, nextPartyId)
    /\ UNCHANGED <<invites, inviteTimeout, clock>>

InviteMember(p, inviter, invitee, u) ==
    /\ p \in DOMAIN parties
    /\ inviter \in DOMAIN parties[p].members
    /\ invitee \notin DOMAIN memberIndex
    /\ <<p, invitee>> \notin DOMAIN invites
    /\ invites' = Put(invites, <<p, invitee>>, [user |-> u, sentAt |-> clock])
    /\ UNCHANGED <<parties, memberIndex, nextPartyId, inviteTimeout, clock>>

InviteLapsed(invite) == clock - invite.sentAt > inviteTimeout

(* Mutant: only the sweep, not the answer, looks at the invite's age. *)
AcceptInviteAnyAge(p, s) ==
    /\ p \in DOMAIN parties
    /\ <<p, s>> \in DOMAIN invites
    /\ s \notin DOMAIN memberIndex
    /\ parties' = [parties EXCEPT ![p].members = Put(@, s, invites[<<p, s>>].user)]
    /\ memberIndex' = Put(memberIndex, s, p)
    /\ invites' = Without(invites, {<<p, s>>})
    /\ UNCHANGED <<nextPartyId, inviteTimeout, clock>>

(* The answer uses the invite up, whether the invitee joins or is refused. *)
AcceptInvite(p, s) ==
    /\ p \in DOMAIN parties
    /\ <<p, s>> \in DOMAIN invites
    /\ LET invite == invites[<<p, s>>]
       IN  \/ /\ InviteLapsed(invite) \/ s \in DOMAIN memberIndex
              /\ UNCHANGED <<parties, memberIndex>>
           \/ /\ ~InviteLapsed(invite) /\ s \notin DOMAIN memberIndex
              /\ parties' = [parties EXCEPT ![p].members = Emplace(@, s, invite.user)]
              /\ memberIndex' = Put(memberIndex, s, p)
    /\ invites' = Without(invites, {<<p, s>>})
    /\ UNCHANGED <<nextPartyId, inviteTimeout, clock>>

RejectInvite(p, s) ==
    /\ p \in DOMAIN parties
    /\ <<p, s>> \in DOMAIN invites
    /\ invites' = Without(invites, {<<p, s>>})
    /\ UNCHANGED <<parties, memberIndex, nextPartyId, inviteTimeout, clock>>

(* Mutants: the invites are forgotten; only the leader's index is erased. *)
DisbandPartyKeepInvites(p, s) ==
    /\ p \in DOMAIN parties
    /\ parties[p].leader = s
    /\ parties' = Without(parties, {p})
    /\ memberIndex' = Without(memberIndex, DOMAIN parties[p].members)
    /\ UNCHANGED <<invites, nextPartyId, inviteTimeout, clock>>

DisbandPartyLeaderIndexOnly(p, s) ==
    /\ p \in DOMAIN parties
    /\ parties[p].leader = s
    /\ parties' = Without(parties, {p})
    /\ memberIndex' = Without(memberIndex, {s})
    /\ invites' = Without(invites, {k \in DOMAIN invites : k[1] = p})
    /\ UNCHANGED <<nextPartyId, inviteTimeout, clock>>

DisbandParty(p, s) ==
    /\ p \in DOMAIN parties
    /\ parties[p].leader = s
    /\ parties' = Without(parties, {p})
    /\ memberIndex' = Without(memberIndex, DOMAIN parties[p].members)
    /\ invites' = Without(invites, {k \in DOMAIN invites : k[1] = p})
    /\ UNCHANGED <<nextPartyId, inviteTimeout, clock>>

(* Mutant: a leader that leaves hands the party to some other member. *)
RemoveMembersHandOver(S) ==
    LET P    == {memberIndex[s] : s \in S \cap DOMAIN memberIndex}
        Rest == [p \in DOMAIN parties |-> Without(parties[p].members, S)]
        Gone == {p \in P : DOMAIN Rest[p] = {}}
    IN  /\ parties' = [p \in DOMAIN parties \ Gone |->
              IF p \notin P THEN parties[p]
              ELSE [leader  |-> IF parties[p].leader \in S
                                THEN CHOOSE t \in DOMAIN Rest[p] : TRUE
                                ELSE parties[p].leader,
                    members |-> Rest[p]]]
        /\ memberIndex' = Without(memberIndex, S)
        /\ invites' = Without(invites, {k \in DOMAIN invites : k[1] \in Gone})
        /\ UNCHANGED <<nextPartyId, inviteTimeout, clock>>

(* removeMember for every session of S, in any order. A leader takes its     *)
(* party along; anybody else only leaves it, with any invite to it. The      *)
(* indexed party always exists (IndexMatchesMembers), so the branch that     *)
(* repairs a dangling index entry is never taken.                            *)
RemoveMembers(S) ==
    LET P   == {memberIndex[s] : s \in S \cap DOMAIN memberIndex}
        Led == {p \in P : parties[p].leader \in S}
        Own == {<<memberIndex[s], s>> : s \in S \cap DOMAIN memberIndex}
    IN  /\ parties' = [p \in DOMAIN parties \ Led |->
              IF p \notin P THEN parties[p]
              ELSE [parties[p] EXCEPT !.members = Without(@, S)]]
        /\ memberIndex' = Without(memberIndex,
              S \cup UNION {DOMAIN parties[p].members : p \in Led})
        /\ invites' = Without(invites,
              {k \in DOMAIN invites : k[1] \in Led \/ k \in Own})
        /\ UNCHANGED <<nextPartyId, inviteTimeout, clock>>

RemoveMember(s) == s \in DOMAIN memberIndex /\ RemoveMembers({s})

(* Invites move with the member; one the new session already has is kept. *)
MovedInvites(old, new) ==
    [k \in {IF j[2] = old THEN <<j[1], new>> ELSE j : j \in DOMAIN invites} |->
        IF k \in DOMAIN invites THEN invites[k] ELSE invites[<<k[1], old>>]]

PartyReplaceable(old, new) ==
    /\ old # new
    /\ old \in DOMAIN memberIndex
    /\ new \notin DOMAIN memberIndex

(* Mutant: the member's seat moves, the leader field does not. *)
ReplaceMemberSessionStaleLeader(old, new) ==
    /\ PartyReplaceable(old, new)
    /\ LET p == memberIndex[old]
       IN  /\ parties' = [parties EXCEPT ![p].members =
                              Put(Without(@, {old}), new, @[old])]
           /\ memberIndex' = Put(Without(memberIndex, {old}), new, p)
    /\ invites' = MovedInvites(old, new)
    /\ UNCHANGED <<nextPartyId, inviteTimeout, clock>>

ReplaceMemberSession(old, new) ==
    /\ PartyReplaceable(old, new)
    /\ LET p == memberIndex[old]
           party == parties[p]
       IN  /\ parties' = [parties EXCEPT ![p] =
                 [leader  |-> IF party.leader = old THEN new ELSE party.leader,
                  members |-> Emplace(Without(party.members, {old}), new,
                                      party.members[old])]]
           /\ memberIndex' = Put(Without(memberIndex, {old}), new, p)
    /\ invites' = MovedInvites(old, new)
    /\ UNCHANGED <<nextPartyId, inviteTimeout, clock>>

ExpireInvites ==
    /\ \E k \in DOMAIN invites : InviteLapsed(invites[k])
    /\ invites' = Without(invites,
                          {k \in DOMAIN invites : InviteLapsed(invites[k])})
    /\ UNCHANGED <<parties, memberIndex, nextPartyId, inviteTimeout, clock>>

SetInviteTimeout(t) ==
    /\ inviteTimeout' = t
    /\ UNCHANGED <<parties, memberIndex, invites, nextPartyId, clock>>

PassTime ==
    /\ clock < MaxTime
    /\ clock' = clock + 1
    /\ UNCHANGED <<parties, memberIndex, invites, nextPartyId, inviteTimeout>>

PartyNext ==
    \/ \E s \in Sessions :
        \/ \E u \in Users : CreateParty(s, u)
        \/ RemoveMember(s)
        \/ \E new \in Sessions : ReplaceMemberSession(s, new)
        \/ \E p \in DOMAIN parties :
            \/ \E invitee \in Sessions, u \in Users : InviteMember(p, s, invitee, u)
            \/ AcceptInvite(p, s)
            \/ RejectInvite(p, s)
            \/ DisbandParty(p, s)
    \/ ExpireInvites
    \/ \E t \in InviteTimeouts : SetInviteTimeout(t)
    \/ PassTime

PartySpec == PartyInit /\ [][PartyNext]_partyVars

-----------------------------------------------------------------------------
(* Type invariant: what the fields of PartyService (party.h) can hold; every *)
(* live party has an id next_party_id_ has passed.                           *)
PartyTypeOK ==
    /\ parties = [p \in DOMAIN parties |-> parties[p]]
    /\ \A p \in DOMAIN parties :
        /\ p \in PartyIds /\ p < nextPartyId
        /\ IsParty(parties[p])
    /\ IsMap(memberIndex, Sessions, PartyIds)
    /\ IsMap(invites, PartyIds \X Sessions, PartyInvites)
    /\ \A k \in DOMAIN invites : invites[k].sentAt <= clock
    /\ nextPartyId \in PartyIds
    /\ inviteTimeout \in Nat
    /\ clock \in Nat

(* member_index_ and the member tables of parties_ tell the same story: a    *)
(* session is indexed to a party exactly when that party lists it, so it is  *)
(* in at most one party and no index entry outlives its party.               *)
IndexMatchesMembers ==
    /\ \A s \in DOMAIN memberIndex :
        /\ memberIndex[s] \in DOMAIN parties
        /\ s \in DOMAIN parties[memberIndex[s]].members
    /\ \A p \in DOMAIN parties : \A s \in DOMAIN parties[p].members :
        /\ s \in DOMAIN memberIndex
        /\ memberIndex[s] = p

(* A party always lists its leader: removeMember, disbandParty and a session *)
(* takeover never leave a party that nobody may disband.                     *)
LeaderIsMember ==
    \A p \in DOMAIN parties : parties[p].leader \in DOMAIN parties[p].members

(* No invite outlives its party, so acceptInvite cannot revive one.          *)
InvitesOfLiveParties ==
    \A k \in DOMAIN invites : k[1] \in DOMAIN parties

(* Session s is new in party p, or no longer in it, after this step.         *)
Gained(p, s) == s \in DOMAIN parties'[p].members \ DOMAIN parties[p].members
Lost(p, s) == s \in DOMAIN parties[p].members \ DOMAIN parties'[p].members

(* A session enters an existing party only by an invite to it that has not   *)
(* lapsed, under the user that was invited, or by taking the seat of a       *)
(* session of the same user that leaves in the same step.                    *)
JoinStep ==
    \A p \in DOMAIN parties \cap DOMAIN parties' : \A s \in Sessions :
        Gained(p, s) =>
            \/ /\ <<p, s>> \in DOMAIN invites
               /\ ~InviteLapsed(invites[<<p, s>>])
               /\ invites[<<p, s>>].user = parties'[p].members[s]
            \/ \E t \in Sessions :
                /\ Lost(p, t)
                /\ parties[p].members[t] = parties'[p].members[s]

JoinByConsent == [][JoinStep]_partyVars

(* As long as a party lives it is led by the user that created it, whichever *)
(* sessions that user goes through.                                          *)
LeadershipStep ==
    \A p \in DOMAIN parties \cap DOMAIN parties' :
        parties'[p].members[parties'[p].leader] = parties[p].members[parties[p].leader]

LeadershipFollowsUser == [][LeadershipStep]_partyVars
=============================================================================
