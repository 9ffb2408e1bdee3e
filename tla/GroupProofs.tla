----------------------------- MODULE GroupProofs -----------------------------
(***************************************************************************)
(* The party service keeps its index, its leaders and its invites in step, *)
(* and the guild service its index and its leaders, whatever the sessions, *)
(* users, timeouts and bounds. The lemmas are one per call of a service,   *)
(* so that the server, which makes these calls, can use them as well.      *)
(***************************************************************************)
EXTENDS PartyService, GuildService, TLAPS

-----------------------------------------------------------------------------
(* The party service *)

(* The inductive invariant: each part needs the others. A takeover reads the *)
(* party through the index, a removal decides by the leader field.           *)
PartyInv ==
    /\ PartyTypeOK
    /\ IndexMatchesMembers
    /\ LeaderIsMember
    /\ InvitesOfLiveParties

USE DEF PartyIds

(* The freshly constructed service satisfies the invariant. *)
LEMMA PartyInitInv == PartyInit => PartyInv
  BY PartyConstants
     DEF PartyInit, PartyInv, PartyTypeOK, IndexMatchesMembers, LeaderIsMember,
         InvitesOfLiveParties, EmptyMap, IsMap

(* createParty keeps the invariant. *)
LEMMA CreatePartyInv ==
    ASSUME PartyInv, NEW s \in Sessions, NEW u \in Users, CreateParty(s, u)
    PROVE  PartyInv'
  <1> DEFINE p == nextPartyId
  <1> USE DEF PartyInv
  <1>1. /\ p \in PartyIds /\ p \notin DOMAIN parties
        /\ UNCHANGED <<invites, inviteTimeout, clock>>
        /\ nextPartyId' = p + 1
        /\ s \notin DOMAIN memberIndex
    BY DEF PartyTypeOK, CreateParty
  <1>2. /\ DOMAIN parties' = DOMAIN parties \cup {p}
        /\ parties' = [q \in DOMAIN parties' |-> parties'[q]]
        /\ parties'[p].leader = s
        /\ DOMAIN parties'[p].members = {s}
        /\ \A q \in DOMAIN parties : parties'[q] = parties[q]
    BY <1>1 DEF CreateParty, Put, EmptyMap
  <1>3. IsParty(parties'[p])
    BY DEF CreateParty, Put, EmptyMap, IsParty, IsMap
  <1>4. /\ IsMap(memberIndex', Sessions, PartyIds)
        /\ DOMAIN memberIndex' = DOMAIN memberIndex \cup {s}
        /\ memberIndex'[s] = p
        /\ \A t \in DOMAIN memberIndex : memberIndex'[t] = memberIndex[t]
    BY <1>1 DEF PartyTypeOK, CreateParty, IsMap, Put
  <1>5. PartyTypeOK'
    BY <1>1, <1>2, <1>3, <1>4 DEF PartyTypeOK
  <1>6. IndexMatchesMembers'
    BY <1>1, <1>2, <1>4 DEF IndexMatchesMembers
  <1>7. LeaderIsMember' /\ InvitesOfLiveParties'
    BY <1>1, <1>2 DEF LeaderIsMember, InvitesOfLiveParties
  <1> QED
    BY <1>5, <1>6, <1>7

(* inviteMember keeps the invariant. *)
LEMMA InviteMemberInv ==
    ASSUME PartyInv, NEW p, NEW s, NEW invitee \in Sessions, NEW u \in Users,
           InviteMember(p, s, invitee, u)
    PROVE  PartyInv'
  <1> USE DEF PartyInv
  <1>1. /\ p \in DOMAIN parties /\ p \in PartyIds
        /\ UNCHANGED <<parties, memberIndex, nextPartyId, inviteTimeout, clock>>
    BY DEF InviteMember, PartyTypeOK
  <1>2. [user |-> u, sentAt |-> clock] \in PartyInvites
    BY DEF PartyTypeOK, PartyInvites
  <1>3. /\ IsMap(invites', PartyIds \X Sessions, PartyInvites)
        /\ DOMAIN invites' = DOMAIN invites \cup {<<p, invitee>>}
        /\ invites'[<<p, invitee>>] = [user |-> u, sentAt |-> clock]
        /\ \A k \in DOMAIN invites :
              k # <<p, invitee>> => invites'[k] = invites[k]
    BY <1>1, <1>2 DEF InviteMember, PartyTypeOK, IsMap, Put
  <1>4. \A k \in DOMAIN invites' : invites'[k].sentAt <= clock
    BY <1>3 DEF PartyTypeOK
  <1>5. PartyTypeOK'
    BY <1>1, <1>3, <1>4 DEF PartyTypeOK
  <1>6. IndexMatchesMembers' /\ LeaderIsMember'
    BY <1>1 DEF IndexMatchesMembers, LeaderIsMember
  <1>7. InvitesOfLiveParties'
    BY <1>1, <1>3 DEF InvitesOfLiveParties
  <1> QED
    BY <1>5, <1>6, <1>7

(* What is left of the invites after some are dropped is still well formed.  *)
LEMMA FewerInvites ==
    ASSUME PartyInv, NEW K, invites' = Without(invites, K), UNCHANGED clock
    PROVE  /\ IsMap(invites', PartyIds \X Sessions, PartyInvites)
           /\ DOMAIN invites' = DOMAIN invites \ K
           /\ \A k \in DOMAIN invites' : invites'[k].sentAt <= clock'
  <1>1. /\ IsMap(invites', PartyIds \X Sessions, PartyInvites)
        /\ DOMAIN invites' = DOMAIN invites \ K
        /\ \A k \in DOMAIN invites' : invites'[k] = invites[k]
    BY DEF PartyInv, PartyTypeOK, IsMap, Without, Restrict
  <1> QED
    BY <1>1 DEF PartyInv, PartyTypeOK

(* A step that only drops invites keeps the invariant: rejectInvite and      *)
(* expireInvites, and acceptInvite when the invitee is refused.              *)
LEMMA DropInvitesInv ==
    ASSUME PartyInv, NEW K, invites' = Without(invites, K),
           UNCHANGED <<parties, memberIndex, nextPartyId, inviteTimeout, clock>>
    PROVE  PartyInv'
  <1> USE DEF PartyInv
  <1>1. /\ IsMap(invites', PartyIds \X Sessions, PartyInvites)
        /\ DOMAIN invites' = DOMAIN invites \ K
        /\ \A k \in DOMAIN invites' : invites'[k].sentAt <= clock'
    BY FewerInvites
  <1>2. PartyTypeOK'
    BY <1>1 DEF PartyTypeOK
  <1>3. IndexMatchesMembers' /\ LeaderIsMember' /\ InvitesOfLiveParties'
    BY <1>1 DEF IndexMatchesMembers, LeaderIsMember, InvitesOfLiveParties
  <1> QED
    BY <1>2, <1>3

(* Assigning to a party's record what IsParty allows touches no other party. *)
LEMMA UpdateParty ==
    ASSUME PartyInv, NEW p \in DOMAIN parties, NEW r,
           parties' = [parties EXCEPT ![p] = r]
    PROVE  /\ DOMAIN parties' = DOMAIN parties
           /\ parties' = [q \in DOMAIN parties' |-> parties'[q]]
           /\ parties'[p] = r
           /\ \A q \in DOMAIN parties : q # p => parties'[q] = parties[q]
  BY DEF PartyInv, PartyTypeOK

(* acceptInvite keeps the invariant. *)
LEMMA AcceptInviteInv ==
    ASSUME PartyInv, NEW p, NEW s \in Sessions, AcceptInvite(p, s)
    PROVE  PartyInv'
  <1> USE DEF PartyInv
  <1> DEFINE u == invites[<<p, s>>].user
  <1>1. /\ p \in DOMAIN parties /\ p \in PartyIds
        /\ <<p, s>> \in DOMAIN invites
        /\ invites' = Without(invites, {<<p, s>>})
        /\ UNCHANGED <<nextPartyId, inviteTimeout, clock>>
    BY DEF AcceptInvite, PartyTypeOK
  <1>2. CASE UNCHANGED <<parties, memberIndex>>
    BY <1>1, <1>2, DropInvitesInv
  <1>3. CASE /\ s \notin DOMAIN memberIndex
             /\ parties' = [parties EXCEPT ![p].members = Emplace(@, s, u)]
             /\ memberIndex' = Put(memberIndex, s, p)
    <2> DEFINE r == [leader  |-> parties[p].leader,
                     members |-> Emplace(parties[p].members, s, u)]
    <2>1. /\ IsMap(invites', PartyIds \X Sessions, PartyInvites)
          /\ DOMAIN invites' \subseteq DOMAIN invites
          /\ \A k \in DOMAIN invites' : invites'[k].sentAt <= clock'
      BY <1>1, FewerInvites
    <2>2. u \in Users /\ s \notin DOMAIN memberIndex
      BY <1>1, <1>3 DEF PartyTypeOK, IsMap, PartyInvites
    <2>3. IsParty(parties[p])
      BY <1>1 DEF PartyTypeOK
    <2>4. /\ IsParty(r)
          /\ r.leader = parties[p].leader
          /\ DOMAIN r.members = DOMAIN parties[p].members \cup {s}
      BY <2>2, <2>3 DEF IsParty, IsMap, Put, Emplace
    <2>5. parties' = [parties EXCEPT ![p] = r]
      <3>1. \A m : [parties[p] EXCEPT !.members = m]
                     = [leader |-> parties[p].leader, members |-> m]
        BY <2>3 DEF IsParty
      <3> QED
        BY <1>3, <3>1
    <2>6. /\ IsMap(memberIndex', Sessions, PartyIds)
          /\ DOMAIN memberIndex' = DOMAIN memberIndex \cup {s}
          /\ memberIndex'[s] = p
          /\ \A t \in DOMAIN memberIndex : memberIndex'[t] = memberIndex[t]
      BY <1>1, <1>3 DEF PartyTypeOK, IsMap, Put
    <2> HIDE DEF r, u
    <2>7. /\ DOMAIN parties' = DOMAIN parties
          /\ parties' = [q \in DOMAIN parties' |-> parties'[q]]
          /\ IsParty(parties'[p])
          /\ parties'[p].leader = parties[p].leader
          /\ DOMAIN parties'[p].members = DOMAIN parties[p].members \cup {s}
          /\ \A q \in DOMAIN parties : q # p => parties'[q] = parties[q]
      BY <1>1, <2>4, <2>5, UpdateParty
    <2>8. PartyTypeOK'
      BY <1>1, <2>1, <2>6, <2>7 DEF PartyTypeOK
    <2>9. IndexMatchesMembers'
      BY <1>1, <2>2, <2>6, <2>7 DEF IndexMatchesMembers
    <2>10. LeaderIsMember' /\ InvitesOfLiveParties'
      BY <1>1, <2>1, <2>7 DEF LeaderIsMember, InvitesOfLiveParties
    <2> QED
      BY <2>8, <2>9, <2>10
  <1> QED
    BY <1>2, <1>3 DEF AcceptInvite

(* disbandParty keeps the invariant: the index entries it erases are those   *)
(* of the party's members only.                                              *)
LEMMA DisbandPartyInv ==
    ASSUME PartyInv, NEW p \in DOMAIN parties, NEW s, DisbandParty(p, s)
    PROVE  PartyInv'
  <1> USE DEF PartyInv
  <1>1. /\ DOMAIN parties' = DOMAIN parties \ {p}
        /\ parties' = [q \in DOMAIN parties' |-> parties'[q]]
        /\ \A q \in DOMAIN parties' : parties'[q] = parties[q]
        /\ UNCHANGED <<nextPartyId, inviteTimeout, clock>>
    BY DEF DisbandParty, Without, Restrict
  <1>2. /\ IsMap(memberIndex', Sessions, PartyIds)
        /\ DOMAIN memberIndex' = DOMAIN memberIndex \ DOMAIN parties[p].members
        /\ \A t \in DOMAIN memberIndex' : memberIndex'[t] = memberIndex[t]
    BY DEF DisbandParty, PartyTypeOK, IsMap, Without, Restrict
  <1>3. /\ IsMap(invites', PartyIds \X Sessions, PartyInvites)
        /\ DOMAIN invites' = DOMAIN invites \ {k \in DOMAIN invites : k[1] = p}
        /\ \A k \in DOMAIN invites' : invites'[k].sentAt <= clock'
    BY <1>1, FewerInvites DEF DisbandParty
  <1>4. PartyTypeOK'
    BY <1>1, <1>2, <1>3 DEF PartyTypeOK
  <1>5. IndexMatchesMembers'
    <2>1. ASSUME NEW t \in DOMAIN memberIndex'
          PROVE  /\ memberIndex'[t] \in DOMAIN parties'
                 /\ t \in DOMAIN parties'[memberIndex'[t]].members
      BY <1>1, <1>2 DEF IndexMatchesMembers
    <2>2. ASSUME NEW q \in DOMAIN parties', NEW t \in DOMAIN parties'[q].members
          PROVE  t \in DOMAIN memberIndex' /\ memberIndex'[t] = q
      BY <1>1, <1>2 DEF IndexMatchesMembers
    <2> QED
      BY <2>1, <2>2 DEF IndexMatchesMembers
  <1>6. LeaderIsMember' /\ InvitesOfLiveParties'
    BY <1>1, <1>3 DEF LeaderIsMember, InvitesOfLiveParties
  <1> QED
    BY <1>4, <1>5, <1>6

(* Removing any set of sessions at once (Server::tick) keeps the invariant;  *)
(* removeMember is the case of a single session.                             *)
LEMMA RemoveMembersInv ==
    ASSUME PartyInv, NEW S, RemoveMembers(S)
    PROVE  PartyInv'
  <1> DEFINE P == {memberIndex[s] : s \in S \cap DOMAIN memberIndex}
             Led == {p \in P : parties[p].leader \in S}
             Dropped == S \cup UNION {DOMAIN parties[p].members : p \in Led}
  <1> USE DEF PartyInv
  <1>1. P \subseteq DOMAIN parties
    BY DEF IndexMatchesMembers
  <1>2. /\ parties' = [p \in DOMAIN parties \ Led |->
              IF p \notin P THEN parties[p]
              ELSE [parties[p] EXCEPT !.members = Without(@, S)]]
        /\ memberIndex' = Without(memberIndex, Dropped)
        /\ UNCHANGED <<nextPartyId, inviteTimeout, clock>>
    BY DEF RemoveMembers
  <1>3. /\ DOMAIN parties' = DOMAIN parties \ Led
        /\ parties' = [p \in DOMAIN parties' |-> parties'[p]]
    BY <1>2
  <1>4. ASSUME NEW p \in DOMAIN parties'
        PROVE  /\ IsParty(parties'[p])
               /\ parties'[p].leader = parties[p].leader
               /\ DOMAIN parties'[p].members = DOMAIN parties[p].members \ S
    <2>1. IsParty(parties[p])
      BY <1>3 DEF PartyTypeOK
    <2>2. CASE p \in P
      <3>1. \A m : [parties[p] EXCEPT !.members = m]
                     = [leader |-> parties[p].leader, members |-> m]
        BY <2>1 DEF IsParty
      <3>2. parties'[p] = [leader  |-> parties[p].leader,
                           members |-> Without(parties[p].members, S)]
        BY <1>2, <1>3, <2>2, <3>1
      <3> QED
        BY <2>1, <3>2 DEF IsParty, IsMap, Without, Restrict
    <2>3. CASE p \notin P
      <3>1. parties'[p] = parties[p]
        BY <1>2, <1>3, <2>3
      <3>2. DOMAIN parties[p].members \cap S = {}
        BY <1>3, <2>3 DEF IndexMatchesMembers
      <3> QED
        BY <2>1, <3>1, <3>2
    <2> QED
      BY <2>2, <2>3
  <1>5. /\ IsMap(memberIndex', Sessions, PartyIds)
        /\ DOMAIN memberIndex' = DOMAIN memberIndex \ Dropped
        /\ \A t \in DOMAIN memberIndex' : memberIndex'[t] = memberIndex[t]
    BY <1>2 DEF PartyTypeOK, IsMap, Without, Restrict
  <1>6. /\ IsMap(invites', PartyIds \X Sessions, PartyInvites)
        /\ \A k \in DOMAIN invites' : k \in DOMAIN invites /\ k[1] \notin Led
        /\ \A k \in DOMAIN invites' : invites'[k].sentAt <= clock'
    <2> DEFINE Own == {<<memberIndex[s], s>> : s \in S \cap DOMAIN memberIndex}
               K == {k \in DOMAIN invites : k[1] \in Led \/ k \in Own}
    <2>1. invites' = Without(invites, K)
      BY DEF RemoveMembers
    <2>2. \A k \in DOMAIN invites \ K : k[1] \notin Led
      OBVIOUS
    <2> HIDE DEF K
    <2> QED
      BY <1>2, <2>1, <2>2, FewerInvites
  <1>7. PartyTypeOK'
    BY <1>2, <1>3, <1>4, <1>5, <1>6 DEF PartyTypeOK
  <1>8. IndexMatchesMembers'
    <2>1. ASSUME NEW t \in DOMAIN memberIndex'
          PROVE  /\ memberIndex'[t] \in DOMAIN parties'
                 /\ t \in DOMAIN parties'[memberIndex'[t]].members
      <3>1. /\ t \in DOMAIN memberIndex /\ t \notin S
            /\ \A p \in Led : t \notin DOMAIN parties[p].members
        BY <1>5
      <3>2. /\ memberIndex[t] \in DOMAIN parties
            /\ t \in DOMAIN parties[memberIndex[t]].members
        BY <3>1 DEF IndexMatchesMembers
      <3> HIDE DEF Led
      <3> QED
        BY <1>3, <1>4, <1>5, <3>1, <3>2
    <2>2. ASSUME NEW q \in DOMAIN parties', NEW t \in DOMAIN parties'[q].members
          PROVE  t \in DOMAIN memberIndex' /\ memberIndex'[t] = q
      <3>1. /\ q \in DOMAIN parties /\ q \notin Led
            /\ t \in DOMAIN parties[q].members /\ t \notin S
        BY <1>3, <1>4
      <3>2. t \in DOMAIN memberIndex /\ memberIndex[t] = q
        BY <3>1 DEF IndexMatchesMembers
      <3>3. \A p \in Led : p \in DOMAIN parties
        BY <1>1
      <3>4. \A p \in Led : t \notin DOMAIN parties[p].members
        <4> HIDE DEF Led
        <4> QED BY <3>1, <3>2, <3>3 DEF IndexMatchesMembers
      <3> QED
        BY <1>5, <3>1, <3>2, <3>4
    <2> QED
      BY <2>1, <2>2 DEF IndexMatchesMembers
  <1>9. LeaderIsMember'
    <2>1. ASSUME NEW p \in DOMAIN parties'
          PROVE  parties[p].leader \notin S
      <3>1. p \in DOMAIN parties /\ p \notin Led
        BY <1>3
      <3>2. parties[p].leader \in DOMAIN parties[p].members
        BY <3>1 DEF LeaderIsMember
      <3>3. /\ parties[p].leader \in DOMAIN memberIndex
            /\ memberIndex[parties[p].leader] = p
        BY <3>1, <3>2 DEF IndexMatchesMembers
      <3> QED
        BY <3>1, <3>3
    <2> QED
      BY <1>3, <1>4, <2>1 DEF LeaderIsMember
  <1>10. InvitesOfLiveParties'
    <2> HIDE DEF Led
    <2> QED BY <1>3, <1>6 DEF InvitesOfLiveParties
  <1> QED
    BY <1>7, <1>8, <1>9, <1>10

(* The invites of a session that is taken over stay well formed. *)
LEMMA MovedInvitesOK ==
    ASSUME PartyInv, NEW old \in Sessions, NEW new \in Sessions,
           invites' = MovedInvites(old, new), UNCHANGED clock
    PROVE  /\ IsMap(invites', PartyIds \X Sessions, PartyInvites)
           /\ \A k \in DOMAIN invites' : \E j \in DOMAIN invites : j[1] = k[1]
           /\ \A k \in DOMAIN invites' : invites'[k].sentAt <= clock'
  <1> USE DEF PartyInv
  <1>1. invites' = [k \in DOMAIN invites' |-> invites'[k]]
    BY DEF MovedInvites
  <1>2. ASSUME NEW k \in DOMAIN invites'
        PROVE  /\ k \in PartyIds \X Sessions
               /\ \E j \in DOMAIN invites : j[1] = k[1] /\ invites'[k] = invites[j]
    <2>1. PICK j \in DOMAIN invites : k = IF j[2] = old THEN <<j[1], new>> ELSE j
      BY DEF MovedInvites
    <2>2. j \in PartyIds \X Sessions
      BY DEF PartyTypeOK, IsMap
    <2>3. j = <<j[1], j[2]>> /\ j[1] \in PartyIds /\ j[2] \in Sessions
      BY <2>2
    <2>4. k \in PartyIds \X Sessions /\ k[1] = j[1]
      BY <2>1, <2>3
    <2>5. invites'[k] = IF k \in DOMAIN invites THEN invites[k]
                                                ELSE invites[<<k[1], old>>]
      BY DEF MovedInvites
    <2>6. CASE k \in DOMAIN invites
      BY <2>4, <2>5, <2>6
    <2>7. CASE k \notin DOMAIN invites
      <3>1. j = <<k[1], old>>
        BY <2>1, <2>3, <2>4, <2>7
      <3> QED
        BY <2>4, <2>5, <2>7, <3>1
    <2> QED
      BY <2>6, <2>7
  <1>3. \A j \in DOMAIN invites :
            invites[j] \in PartyInvites /\ invites[j].sentAt <= clock
    BY DEF PartyTypeOK, IsMap
  <1> QED
    BY <1>1, <1>2, <1>3 DEF IsMap

(* replaceMemberSession keeps the invariant. *)
LEMMA ReplaceMemberSessionInv ==
    ASSUME PartyInv, NEW old \in Sessions, NEW new \in Sessions,
           ReplaceMemberSession(old, new)
    PROVE  PartyInv'
  <1> DEFINE p == memberIndex[old]
             r == [leader  |-> IF parties[p].leader = old THEN new
                                                          ELSE parties[p].leader,
                   members |-> Emplace(Without(parties[p].members, {old}), new,
                                       parties[p].members[old])]
  <1> USE DEF PartyInv
  <1>1. /\ old # new
        /\ old \in DOMAIN memberIndex
        /\ new \notin DOMAIN memberIndex
        /\ UNCHANGED <<nextPartyId, inviteTimeout, clock>>
    BY DEF ReplaceMemberSession, PartyReplaceable
  <1>2. p \in DOMAIN parties /\ p \in PartyIds /\ old \in DOMAIN parties[p].members
    BY <1>1 DEF IndexMatchesMembers, PartyTypeOK
  <1>3. IsParty(parties[p])
    BY <1>2 DEF PartyTypeOK
  <1>4. /\ IsParty(r)
        /\ r.leader = IF parties[p].leader = old THEN new ELSE parties[p].leader
        /\ DOMAIN r.members = (DOMAIN parties[p].members \ {old}) \cup {new}
    BY <1>2, <1>3 DEF IsParty, IsMap, Put, Emplace, Without, Restrict
  <1>5. parties' = [parties EXCEPT ![p] = r]
    BY DEF ReplaceMemberSession
  <1>6. /\ IsMap(memberIndex', Sessions, PartyIds)
        /\ DOMAIN memberIndex' = (DOMAIN memberIndex \ {old}) \cup {new}
        /\ memberIndex'[new] = p
        /\ \A t \in DOMAIN memberIndex \ {old} : memberIndex'[t] = memberIndex[t]
    BY <1>1, <1>2
       DEF ReplaceMemberSession, PartyTypeOK, IsMap, Put, Without, Restrict
  <1>7. /\ IsMap(invites', PartyIds \X Sessions, PartyInvites)
        /\ \A k \in DOMAIN invites' : \E j \in DOMAIN invites : j[1] = k[1]
        /\ \A k \in DOMAIN invites' : invites'[k].sentAt <= clock'
    BY <1>1, MovedInvitesOK DEF ReplaceMemberSession
  <1> HIDE DEF r
  <1>8. /\ DOMAIN parties' = DOMAIN parties
        /\ parties' = [q \in DOMAIN parties' |-> parties'[q]]
        /\ IsParty(parties'[p])
        /\ parties'[p].leader = IF parties[p].leader = old THEN new
                                                           ELSE parties[p].leader
        /\ DOMAIN parties'[p].members = (DOMAIN parties[p].members \ {old}) \cup {new}
        /\ \A q \in DOMAIN parties : q # p => parties'[q] = parties[q]
    BY <1>2, <1>4, <1>5, UpdateParty
  <1>9. PartyTypeOK'
    BY <1>1, <1>2, <1>6, <1>7, <1>8 DEF PartyTypeOK
  <1>10. IndexMatchesMembers'
    BY <1>1, <1>2, <1>6, <1>8 DEF IndexMatchesMembers
  <1>11. LeaderIsMember' /\ InvitesOfLiveParties'
    BY <1>1, <1>2, <1>7, <1>8 DEF LeaderIsMember, InvitesOfLiveParties
  <1> QED
    BY <1>9, <1>10, <1>11

(* Every step of the party service keeps the invariant. *)
LEMMA PartyNextInv == PartyInv /\ [PartyNext]_partyVars => PartyInv'
  <1> SUFFICES ASSUME PartyInv, [PartyNext]_partyVars
               PROVE  PartyInv'
    OBVIOUS
  <1>1. ASSUME NEW s \in Sessions, NEW u \in Users, CreateParty(s, u)
        PROVE  PartyInv'
    BY <1>1, CreatePartyInv
  <1>2. ASSUME NEW s \in Sessions, RemoveMember(s)
        PROVE  PartyInv'
    BY <1>2, RemoveMembersInv DEF RemoveMember
  <1>3. ASSUME NEW s \in Sessions, NEW new \in Sessions, ReplaceMemberSession(s, new)
        PROVE  PartyInv'
    BY <1>3, ReplaceMemberSessionInv
  <1>4. ASSUME NEW p \in DOMAIN parties, NEW s \in Sessions, NEW invitee \in Sessions,
               NEW u \in Users, InviteMember(p, s, invitee, u)
        PROVE  PartyInv'
    BY <1>4, InviteMemberInv
  <1>5. ASSUME NEW p \in DOMAIN parties, NEW s \in Sessions, AcceptInvite(p, s)
        PROVE  PartyInv'
    BY <1>5, AcceptInviteInv
  <1>6. ASSUME NEW p \in DOMAIN parties, NEW s \in Sessions, RejectInvite(p, s)
        PROVE  PartyInv'
    BY <1>6, DropInvitesInv DEF RejectInvite
  <1>7. ASSUME NEW p \in DOMAIN parties, NEW s \in Sessions, DisbandParty(p, s)
        PROVE  PartyInv'
    BY <1>7, DisbandPartyInv
  <1>8. CASE ExpireInvites
    BY <1>8, DropInvitesInv DEF ExpireInvites
  <1>9. ASSUME NEW t \in InviteTimeouts, SetInviteTimeout(t)
        PROVE  PartyInv'
    BY <1>9, PartyConstants
       DEF SetInviteTimeout, PartyInv, PartyTypeOK, IndexMatchesMembers,
           LeaderIsMember, InvitesOfLiveParties
  <1>10. CASE PassTime
    <2>1. \A k \in DOMAIN invites : invites[k].sentAt \in Nat /\ invites[k].sentAt <= clock
      BY DEF PartyInv, PartyTypeOK, IsMap, PartyInvites
    <2>2. clock \in Nat /\ clock' = clock + 1
          /\ UNCHANGED <<parties, memberIndex, invites, nextPartyId, inviteTimeout>>
      BY <1>10 DEF PassTime, PartyInv, PartyTypeOK
    <2>3. \A k \in DOMAIN invites' : invites'[k].sentAt <= clock'
      BY <2>1, <2>2
    <2> QED
      BY <2>2, <2>3 DEF PartyInv, PartyTypeOK, IndexMatchesMembers,
                        LeaderIsMember, InvitesOfLiveParties
  <1>11. CASE UNCHANGED partyVars
    BY <1>11 DEF partyVars, PartyInv, PartyTypeOK, IndexMatchesMembers,
                 LeaderIsMember, InvitesOfLiveParties
  <1> QED
    BY <1>1, <1>2, <1>3, <1>4, <1>5, <1>6, <1>7, <1>8, <1>9, <1>10, <1>11
       DEF PartyNext

-----------------------------------------------------------------------------
(* What a step does to the parties that live on *)

(* Where the parties are as before, nobody has joined and nobody leads anew. *)
LEMMA PartiesKept ==
    ASSUME \A p \in DOMAIN parties \cap DOMAIN parties' : parties'[p] = parties[p]
    PROVE  JoinStep /\ LeadershipStep
  BY DEF JoinStep, LeadershipStep, Gained

(* createParty takes an id that no party has. *)
LEMMA CreatePartyStep ==
    ASSUME PartyInv, NEW s, NEW u, CreateParty(s, u)
    PROVE  JoinStep /\ LeadershipStep
  <1>1. nextPartyId \notin DOMAIN parties
    BY DEF PartyInv, PartyTypeOK
  <1>2. \A p \in DOMAIN parties : parties'[p] = parties[p]
    BY <1>1 DEF CreateParty, Put
  <1> QED
    BY <1>2, PartiesKept

(* disbandParty leaves the other parties alone. *)
LEMMA DisbandPartyStep ==
    ASSUME NEW p, NEW s, DisbandParty(p, s)
    PROVE  JoinStep /\ LeadershipStep
  <1>1. \A q \in DOMAIN parties' : parties'[q] = parties[q]
    BY DEF DisbandParty, Without, Restrict
  <1> QED
    BY <1>1, PartiesKept

(* acceptInvite lets in the session that holds the invite, and nobody else.  *)
LEMMA AcceptInviteStep ==
    ASSUME PartyInv, NEW p, NEW s, AcceptInvite(p, s)
    PROVE  JoinStep /\ LeadershipStep
  <1> DEFINE u == invites[<<p, s>>].user
             r == [leader  |-> parties[p].leader,
                   members |-> Emplace(parties[p].members, s, u)]
  <1>1. p \in DOMAIN parties /\ <<p, s>> \in DOMAIN invites
    BY DEF AcceptInvite
  <1>2. CASE UNCHANGED parties
    BY <1>2, PartiesKept
  <1>3. CASE /\ ~InviteLapsed(invites[<<p, s>>])
             /\ s \notin DOMAIN memberIndex
             /\ parties' = [parties EXCEPT ![p].members = Emplace(@, s, u)]
    <2>1. IsParty(parties[p])
      BY <1>1 DEF PartyInv, PartyTypeOK
    <2>2. \A m : [parties[p] EXCEPT !.members = m]
                   = [leader |-> parties[p].leader, members |-> m]
      BY <2>1 DEF IsParty
    <2>3. parties' = [parties EXCEPT ![p] = r]
      BY <1>3, <2>2
    <2>4. /\ s \notin DOMAIN parties[p].members
          /\ parties[p].leader \in DOMAIN parties[p].members
      BY <1>1, <1>3 DEF PartyInv, IndexMatchesMembers, LeaderIsMember
    <2>5. /\ r.leader = parties[p].leader
          /\ DOMAIN r.members = DOMAIN parties[p].members \cup {s}
          /\ r.members[s] = u
          /\ \A t \in DOMAIN parties[p].members : r.members[t] = parties[p].members[t]
      BY <2>4 DEF Emplace, Put
    <2> HIDE DEF r, u
    <2>6. /\ DOMAIN parties' = DOMAIN parties
          /\ parties'[p] = r
          /\ \A q \in DOMAIN parties : q # p => parties'[q] = parties[q]
      BY <1>1, <2>3, UpdateParty
    <2>7. JoinStep
      <3> SUFFICES ASSUME NEW q \in DOMAIN parties \cap DOMAIN parties',
                          NEW t \in Sessions, Gained(q, t)
                   PROVE  /\ <<q, t>> \in DOMAIN invites
                          /\ ~InviteLapsed(invites[<<q, t>>])
                          /\ invites[<<q, t>>].user = parties'[q].members[t]
        BY DEF JoinStep
      <3>1. q = p /\ t = s
        BY <2>5, <2>6 DEF Gained
      <3> QED
        BY <1>1, <1>3, <2>5, <2>6, <3>1 DEF u
    <2>8. LeadershipStep
      BY <2>4, <2>5, <2>6 DEF LeadershipStep
    <2> QED
      BY <2>7, <2>8
  <1> QED
    BY <1>2, <1>3 DEF AcceptInvite

(* Removals let nobody in, and end the parties whose leader they remove.     *)
LEMMA RemoveMembersStep ==
    ASSUME PartyInv, NEW S, RemoveMembers(S)
    PROVE  JoinStep /\ LeadershipStep
  <1> DEFINE P == {memberIndex[s] : s \in S \cap DOMAIN memberIndex}
             Led == {p \in P : parties[p].leader \in S}
  <1>1. parties' = [p \in DOMAIN parties \ Led |->
              IF p \notin P THEN parties[p]
              ELSE [parties[p] EXCEPT !.members = Without(@, S)]]
    BY DEF RemoveMembers
  <1>2. ASSUME NEW p \in DOMAIN parties'
        PROVE  \/ parties'[p] = parties[p]
               \/ /\ parties[p].leader \in DOMAIN parties[p].members \ S
                  /\ parties'[p].leader = parties[p].leader
                  /\ parties'[p].members = Without(parties[p].members, S)
    <2>1. p \in DOMAIN parties /\ p \notin Led
      BY <1>1
    <2>2. CASE p \notin P
      BY <1>1, <2>1, <2>2
    <2>3. CASE p \in P
      <3>1. IsParty(parties[p])
        BY <2>1 DEF PartyInv, PartyTypeOK
      <3>2. \A m : [parties[p] EXCEPT !.members = m]
                     = [leader |-> parties[p].leader, members |-> m]
        BY <3>1 DEF IsParty
      <3>3. parties'[p] = [leader  |-> parties[p].leader,
                           members |-> Without(parties[p].members, S)]
        BY <1>1, <2>1, <2>3, <3>2
      <3>4. parties[p].leader \in DOMAIN parties[p].members \ S
        BY <2>1, <2>3 DEF PartyInv, LeaderIsMember
      <3> QED
        BY <3>3, <3>4
    <2> QED
      BY <2>2, <2>3
  <1>3. JoinStep
    <2>1. ASSUME NEW p \in DOMAIN parties'
          PROVE  DOMAIN parties'[p].members \subseteq DOMAIN parties[p].members
      BY <1>2, <2>1 DEF Without, Restrict
    <2>2. \A p \in DOMAIN parties' : \A s : ~Gained(p, s)
      BY <2>1 DEF Gained
    <2> QED
      BY <2>2 DEF JoinStep
  <1>4. LeadershipStep
    <2> SUFFICES ASSUME NEW p \in DOMAIN parties'
                 PROVE  parties'[p].members[parties'[p].leader]
                          = parties[p].members[parties[p].leader]
      BY DEF LeadershipStep
    <2>1. CASE parties'[p] = parties[p]
      BY <2>1
    <2>2. CASE /\ parties[p].leader \in DOMAIN parties[p].members \ S
               /\ parties'[p].leader = parties[p].leader
               /\ parties'[p].members = Without(parties[p].members, S)
      BY <2>2 DEF Without, Restrict
    <2> QED
      BY <1>2, <2>1, <2>2
  <1> QED
    BY <1>3, <1>4

(* A takeover seats the new session in the place of the old one.             *)
LEMMA ReplaceMemberSessionStep ==
    ASSUME PartyInv, NEW old \in Sessions, NEW new \in Sessions,
           ReplaceMemberSession(old, new)
    PROVE  JoinStep /\ LeadershipStep
  <1> DEFINE p == memberIndex[old]
             r == [leader  |-> IF parties[p].leader = old THEN new
                                                          ELSE parties[p].leader,
                   members |-> Emplace(Without(parties[p].members, {old}), new,
                                       parties[p].members[old])]
  <1>1. /\ old # new /\ old \in DOMAIN memberIndex /\ new \notin DOMAIN memberIndex
        /\ parties' = [parties EXCEPT ![p] = r]
    BY DEF ReplaceMemberSession, PartyReplaceable
  <1>2. /\ p \in DOMAIN parties
        /\ old \in DOMAIN parties[p].members
        /\ new \notin DOMAIN parties[p].members
        /\ parties[p].leader \in DOMAIN parties[p].members
    BY <1>1 DEF PartyInv, IndexMatchesMembers, LeaderIsMember
  <1>3. /\ r.leader = IF parties[p].leader = old THEN new ELSE parties[p].leader
        /\ DOMAIN r.members = (DOMAIN parties[p].members \ {old}) \cup {new}
        /\ r.members[new] = parties[p].members[old]
        /\ \A t \in DOMAIN parties[p].members \ {old} :
              r.members[t] = parties[p].members[t]
    BY <1>1, <1>2 DEF Emplace, Put, Without, Restrict
  <1> HIDE DEF r
  <1>4. /\ DOMAIN parties' = DOMAIN parties
        /\ parties'[p] = r
        /\ \A q \in DOMAIN parties : q # p => parties'[q] = parties[q]
    BY <1>1, <1>2, UpdateParty
  <1> HIDE DEF p
  <1>5. JoinStep
    <2> SUFFICES ASSUME NEW q \in DOMAIN parties \cap DOMAIN parties',
                        NEW t \in Sessions, Gained(q, t)
                 PROVE  /\ Lost(q, old)
                        /\ parties[q].members[old] = parties'[q].members[t]
      BY DEF JoinStep
    <2>1. q = p /\ t = new
      BY <1>3, <1>4 DEF Gained
    <2> QED
      BY <1>1, <1>2, <1>3, <1>4, <2>1 DEF Lost
  <1>6. LeadershipStep
    BY <1>1, <1>2, <1>3, <1>4 DEF LeadershipStep
  <1> QED
    BY <1>5, <1>6

(* What holds of every step of the party service. *)
LEMMA PartyNextStep ==
    PartyInv /\ [PartyNext]_partyVars => JoinStep /\ LeadershipStep
  <1> SUFFICES ASSUME PartyInv, [PartyNext]_partyVars
               PROVE  JoinStep /\ LeadershipStep
    OBVIOUS
  <1>1. CASE UNCHANGED parties
    BY <1>1, PartiesKept
  <1>2. ASSUME NEW s \in Sessions, NEW u \in Users, CreateParty(s, u)
        PROVE  JoinStep /\ LeadershipStep
    BY <1>2, CreatePartyStep
  <1>3. ASSUME NEW s \in Sessions, RemoveMember(s)
        PROVE  JoinStep /\ LeadershipStep
    BY <1>3, RemoveMembersStep DEF RemoveMember
  <1>4. ASSUME NEW s \in Sessions, NEW new \in Sessions, ReplaceMemberSession(s, new)
        PROVE  JoinStep /\ LeadershipStep
    BY <1>4, ReplaceMemberSessionStep
  <1>5. ASSUME NEW p, NEW s, AcceptInvite(p, s)
        PROVE  JoinStep /\ LeadershipStep
    BY <1>5, AcceptInviteStep
  <1>6. ASSUME NEW p, NEW s, DisbandParty(p, s)
        PROVE  JoinStep /\ LeadershipStep
    BY <1>6, DisbandPartyStep
  <1>7. ASSUME NEW p, NEW s, NEW t, NEW u, InviteMember(p, s, t, u) \/ RejectInvite(p, s)
        PROVE  UNCHANGED parties
    BY <1>7 DEF InviteMember, RejectInvite
  <1>8. ASSUME NEW t, ExpireInvites \/ SetInviteTimeout(t) \/ PassTime \/ UNCHANGED partyVars
        PROVE  UNCHANGED parties
    BY <1>8 DEF ExpireInvites, SetInviteTimeout, PassTime, partyVars
  <1> QED
    BY <1>1, <1>2, <1>3, <1>4, <1>5, <1>6, <1>7, <1>8 DEF PartyNext

-----------------------------------------------------------------------------
(* In every behaviour of the party service the index and the member tables   *)
(* agree, every party lists its leader and no invite outlives its party.     *)
THEOREM PartyInvariant == PartySpec => []PartyInv
  <1>1. PartyInit => PartyInv
    BY PartyInitInv
  <1>2. PartyInv /\ [PartyNext]_partyVars => PartyInv'
    BY PartyNextInv
  <1> QED
    BY <1>1, <1>2, PTL DEF PartySpec

(* The fields of PartyService always hold what party.h declares. *)
THEOREM PartyTypeCorrect == PartySpec => []PartyTypeOK
  BY PartyInvariant, PTL DEF PartyInv

(* member_index_ and the member tables of parties_ always agree, so every   *)
(* early return that trusts the index is right to do so.                     *)
THEOREM PartyIndexCorrect == PartySpec => []IndexMatchesMembers
  BY PartyInvariant, PTL DEF PartyInv

(* Every party can be disbanded by one of the sessions it lists. *)
THEOREM PartyLeadersListed == PartySpec => []LeaderIsMember
  BY PartyInvariant, PTL DEF PartyInv

(* No invite outlives its party. *)
THEOREM PartyInvitesLive == PartySpec => []InvitesOfLiveParties
  BY PartyInvariant, PTL DEF PartyInv

(* Nobody enters a party but by a valid invite, under the invited user, or   *)
(* by taking over a seat of the same user: acceptInvite,                     *)
(* replaceMemberSession, and every call that must not let anyone in.         *)
THEOREM PartyJoinByConsent == PartySpec => JoinByConsent
  <1>1. PartyInv /\ [PartyNext]_partyVars => [JoinStep]_partyVars
    BY PartyNextStep
  <1> QED
    BY <1>1, PartyInvariant, PTL DEF PartySpec, JoinByConsent

(* A party is led by the user that made it for as long as it lives:          *)
(* removeMember disbands it when its leader goes, a takeover moves the lead. *)
THEOREM PartyLeadership == PartySpec => LeadershipFollowsUser
  <1>1. PartyInv /\ [PartyNext]_partyVars => [LeadershipStep]_partyVars
    BY PartyNextStep
  <1> QED
    BY <1>1, PartyInvariant, PTL DEF PartySpec, LeadershipFollowsUser

-----------------------------------------------------------------------------
(* The guild service *)

(* The inductive invariant: leaveGuild and removeMember disband by the       *)
(* leader field and erase index entries by the member list.                  *)
GuildInv ==
    /\ GuildTypeOK
    /\ GuildIndexMatches
    /\ GuildLeaderListed

USE DEF GuildIds

(* The freshly constructed service satisfies the invariant. *)
LEMMA GuildInitInv == GuildInit => GuildInv
  BY DEF GuildInit, GuildInv, GuildTypeOK, GuildIndexMatches, GuildLeaderListed,
         EmptyMap, IsMap

(* createGuild keeps the invariant. *)
LEMMA CreateGuildInv ==
    ASSUME GuildInv, NEW s \in Sessions, NEW u \in Users, CreateGuild(s, u)
    PROVE  GuildInv'
  <1> DEFINE g == nextGuildId
  <1> USE DEF GuildInv
  <1>1. /\ g \in GuildIds /\ g \notin DOMAIN guilds
        /\ nextGuildId' = g + 1
        /\ s \notin DOMAIN guildIndex
    BY DEF GuildTypeOK, CreateGuild
  <1>2. /\ DOMAIN guilds' = DOMAIN guilds \cup {g}
        /\ guilds' = [h \in DOMAIN guilds' |-> guilds'[h]]
        /\ guilds'[g].leader = s
        /\ DOMAIN guilds'[g].members = {s}
        /\ \A h \in DOMAIN guilds : guilds'[h] = guilds[h]
    BY <1>1 DEF CreateGuild, Put, EmptyMap
  <1>3. IsGuild(guilds'[g])
    BY DEF CreateGuild, Put, EmptyMap, IsGuild, IsMap
  <1>4. /\ IsMap(guildIndex', Sessions, GuildIds)
        /\ DOMAIN guildIndex' = DOMAIN guildIndex \cup {s}
        /\ guildIndex'[s] = g
        /\ \A t \in DOMAIN guildIndex : guildIndex'[t] = guildIndex[t]
    BY <1>1 DEF GuildTypeOK, CreateGuild, IsMap, Put
  <1>5. GuildTypeOK'
    BY <1>1, <1>2, <1>3, <1>4 DEF GuildTypeOK
  <1>6. GuildIndexMatches'
    BY <1>1, <1>2, <1>4 DEF GuildIndexMatches
  <1>7. GuildLeaderListed'
    BY <1>1, <1>2 DEF GuildLeaderListed
  <1> QED
    BY <1>5, <1>6, <1>7

(* Assigning a new record to one guild touches no other guild. *)
LEMMA UpdateGuild ==
    ASSUME GuildInv, NEW g \in DOMAIN guilds, NEW r,
           guilds' = [guilds EXCEPT ![g] = r]
    PROVE  /\ DOMAIN guilds' = DOMAIN guilds
           /\ guilds' = [h \in DOMAIN guilds' |-> guilds'[h]]
           /\ guilds'[g] = r
           /\ \A h \in DOMAIN guilds : h # g => guilds'[h] = guilds[h]
  BY DEF GuildInv, GuildTypeOK

(* Replacing the member table of a guild keeps its leader. *)
LEMMA GuildWithMembers ==
    ASSUME GuildInv, NEW g \in DOMAIN guilds, NEW m
    PROVE  [guilds[g] EXCEPT !.members = m]
             = [leader |-> guilds[g].leader, members |-> m]
  BY DEF GuildInv, GuildTypeOK, IsGuild

(* joinGuild keeps the invariant. *)
LEMMA JoinGuildInv ==
    ASSUME GuildInv, NEW g, NEW s \in Sessions, NEW u \in Users, JoinGuild(g, s, u)
    PROVE  GuildInv'
  <1> DEFINE r == [leader  |-> guilds[g].leader,
                   members |-> Emplace(guilds[g].members, s, u)]
  <1> USE DEF GuildInv
  <1>1. /\ g \in DOMAIN guilds /\ g \in GuildIds
        /\ s \notin DOMAIN guildIndex
        /\ UNCHANGED nextGuildId
    BY DEF JoinGuild, GuildTypeOK
  <1>2. IsGuild(guilds[g])
    BY <1>1 DEF GuildTypeOK
  <1>3. /\ IsGuild(r)
        /\ r.leader = guilds[g].leader
        /\ DOMAIN r.members = DOMAIN guilds[g].members \cup {s}
    BY <1>2 DEF IsGuild, IsMap, Put, Emplace
  <1>4. guilds' = [guilds EXCEPT ![g] = r]
    BY <1>1, GuildWithMembers DEF JoinGuild
  <1>5. /\ IsMap(guildIndex', Sessions, GuildIds)
        /\ DOMAIN guildIndex' = DOMAIN guildIndex \cup {s}
        /\ guildIndex'[s] = g
        /\ \A t \in DOMAIN guildIndex : guildIndex'[t] = guildIndex[t]
    BY <1>1 DEF JoinGuild, GuildTypeOK, IsMap, Put
  <1> HIDE DEF r
  <1>6. /\ DOMAIN guilds' = DOMAIN guilds
        /\ guilds' = [h \in DOMAIN guilds' |-> guilds'[h]]
        /\ IsGuild(guilds'[g])
        /\ guilds'[g].leader = guilds[g].leader
        /\ DOMAIN guilds'[g].members = DOMAIN guilds[g].members \cup {s}
        /\ \A h \in DOMAIN guilds : h # g => guilds'[h] = guilds[h]
    BY <1>1, <1>3, <1>4, UpdateGuild
  <1>7. GuildTypeOK'
    BY <1>1, <1>5, <1>6 DEF GuildTypeOK
  <1>8. GuildIndexMatches'
    BY <1>1, <1>5, <1>6 DEF GuildIndexMatches
  <1>9. GuildLeaderListed'
    BY <1>1, <1>6 DEF GuildLeaderListed
  <1> QED
    BY <1>7, <1>8, <1>9

(* Removing any set of sessions at once keeps the invariant; removeMember    *)
(* and leaveGuild are the case of a single session.                          *)
LEMMA RemoveGuildMembersInv ==
    ASSUME GuildInv, NEW S, RemoveGuildMembers(S)
    PROVE  GuildInv'
  <1> DEFINE G == {guildIndex[s] : s \in S \cap DOMAIN guildIndex}
             Led == {g \in G : guilds[g].leader \in S}
             Dropped == S \cup UNION {DOMAIN guilds[g].members : g \in Led}
  <1> USE DEF GuildInv
  <1>1. G \subseteq DOMAIN guilds
    BY DEF GuildIndexMatches
  <1>2. /\ guilds' = [g \in DOMAIN guilds \ Led |->
              IF g \notin G THEN guilds[g]
              ELSE [guilds[g] EXCEPT !.members = Without(@, S)]]
        /\ guildIndex' = Without(guildIndex, Dropped)
        /\ UNCHANGED nextGuildId
    BY DEF RemoveGuildMembers
  <1>3. /\ DOMAIN guilds' = DOMAIN guilds \ Led
        /\ guilds' = [g \in DOMAIN guilds' |-> guilds'[g]]
    BY <1>2
  <1>4. ASSUME NEW g \in DOMAIN guilds'
        PROVE  /\ IsGuild(guilds'[g])
               /\ guilds'[g].leader = guilds[g].leader
               /\ DOMAIN guilds'[g].members = DOMAIN guilds[g].members \ S
    <2>1. IsGuild(guilds[g])
      BY <1>3 DEF GuildTypeOK
    <2>2. CASE g \in G
      <3>1. guilds'[g] = [leader  |-> guilds[g].leader,
                          members |-> Without(guilds[g].members, S)]
        BY <1>2, <1>3, <2>2, GuildWithMembers
      <3> QED
        BY <2>1, <3>1 DEF IsGuild, IsMap, Without, Restrict
    <2>3. CASE g \notin G
      <3>1. guilds'[g] = guilds[g]
        BY <1>2, <1>3, <2>3
      <3>2. DOMAIN guilds[g].members \cap S = {}
        BY <1>3, <2>3 DEF GuildIndexMatches
      <3> QED
        BY <2>1, <3>1, <3>2
    <2> QED
      BY <2>2, <2>3
  <1>5. /\ IsMap(guildIndex', Sessions, GuildIds)
        /\ DOMAIN guildIndex' = DOMAIN guildIndex \ Dropped
        /\ \A t \in DOMAIN guildIndex' : guildIndex'[t] = guildIndex[t]
    BY <1>2 DEF GuildTypeOK, IsMap, Without, Restrict
  <1>6. GuildTypeOK'
    BY <1>2, <1>3, <1>4, <1>5 DEF GuildTypeOK
  <1>7. GuildIndexMatches'
    <2>1. ASSUME NEW t \in DOMAIN guildIndex'
          PROVE  /\ guildIndex'[t] \in DOMAIN guilds'
                 /\ t \in DOMAIN guilds'[guildIndex'[t]].members
      <3>1. /\ t \in DOMAIN guildIndex /\ t \notin S
            /\ \A g \in Led : t \notin DOMAIN guilds[g].members
        BY <1>5
      <3>2. /\ guildIndex[t] \in DOMAIN guilds
            /\ t \in DOMAIN guilds[guildIndex[t]].members
        BY <3>1 DEF GuildIndexMatches
      <3> HIDE DEF Led
      <3> QED
        BY <1>3, <1>4, <1>5, <3>1, <3>2
    <2>2. ASSUME NEW h \in DOMAIN guilds', NEW t \in DOMAIN guilds'[h].members
          PROVE  t \in DOMAIN guildIndex' /\ guildIndex'[t] = h
      <3>1. /\ h \in DOMAIN guilds /\ h \notin Led
            /\ t \in DOMAIN guilds[h].members /\ t \notin S
        BY <1>3, <1>4
      <3>2. t \in DOMAIN guildIndex /\ guildIndex[t] = h
        BY <3>1 DEF GuildIndexMatches
      <3>3. \A g \in Led : g \in DOMAIN guilds
        BY <1>1
      <3>4. \A g \in Led : t \notin DOMAIN guilds[g].members
        <4> HIDE DEF Led
        <4> QED BY <3>1, <3>2, <3>3 DEF GuildIndexMatches
      <3> QED
        BY <1>5, <3>1, <3>2, <3>4
    <2> QED
      BY <2>1, <2>2 DEF GuildIndexMatches
  <1>8. GuildLeaderListed'
    <2>1. ASSUME NEW g \in DOMAIN guilds'
          PROVE  guilds[g].leader \notin S
      <3>1. g \in DOMAIN guilds /\ g \notin Led
        BY <1>3
      <3>2. guilds[g].leader \in DOMAIN guilds[g].members
        BY <3>1 DEF GuildLeaderListed
      <3>3. /\ guilds[g].leader \in DOMAIN guildIndex
            /\ guildIndex[guilds[g].leader] = g
        BY <3>1, <3>2 DEF GuildIndexMatches
      <3> QED
        BY <3>1, <3>3
    <2> QED
      BY <1>3, <1>4, <2>1 DEF GuildLeaderListed
  <1> QED
    BY <1>6, <1>7, <1>8

(* leaveGuild does what removeMember does to the session's own guild. *)
LEMMA LeaveIsRemoval ==
    ASSUME GuildInv, NEW g, NEW s, LeaveGuild(g, s)
    PROVE  RemoveGuildMembers({s})
  <1> USE DEF GuildInv
  <1>1. /\ g \in DOMAIN guilds /\ s \in DOMAIN guilds[g].members
        /\ s \in DOMAIN guildIndex /\ guildIndex[s] = g
        /\ UNCHANGED nextGuildId
    BY DEF LeaveGuild, GuildIndexMatches
  <1> DEFINE G == {guildIndex[t] : t \in {s} \cap DOMAIN guildIndex}
             Led == {h \in G : guilds[h].leader \in {s}}
  <1>2. G = {g}
    BY <1>1
  <1> SUFFICES /\ guilds' = [h \in DOMAIN guilds \ Led |->
                    IF h \notin G THEN guilds[h]
                    ELSE [guilds[h] EXCEPT !.members = Without(@, {s})]]
               /\ guildIndex' = Without(guildIndex,
                    {s} \cup UNION {DOMAIN guilds[h].members : h \in Led})
    BY <1>1 DEF RemoveGuildMembers
  <1> HIDE DEF G
  <1>3. CASE guilds[g].leader = s
    <2>1. Led = {g} /\ {s} \cup UNION {DOMAIN guilds[h].members : h \in Led}
                         = DOMAIN guilds[g].members
      BY <1>1, <1>2, <1>3
    <2>2. guilds' = [h \in DOMAIN guilds \ {g} |-> guilds[h]]
      BY <1>3 DEF LeaveGuild, Without, Restrict
    <2>3. guildIndex' = Without(guildIndex, DOMAIN guilds[g].members)
      BY <1>3 DEF LeaveGuild
    <2> HIDE DEF Led
    <2> QED
      BY <1>2, <2>1, <2>2, <2>3
  <1>4. CASE guilds[g].leader # s
    <2>1. Led = {} /\ {s} \cup UNION {DOMAIN guilds[h].members : h \in Led} = {s}
      BY <1>2, <1>4
    <2>2. guilds = [h \in DOMAIN guilds |-> guilds[h]]
      BY DEF GuildTypeOK
    <2>3. guilds' = [h \in DOMAIN guilds |->
                        IF h \notin {g} THEN guilds[h]
                        ELSE [guilds[h] EXCEPT !.members = Without(@, {s})]]
      BY <1>1, <1>4, <2>2 DEF LeaveGuild
    <2>4. guildIndex' = Without(guildIndex, {s})
      BY <1>4 DEF LeaveGuild
    <2> HIDE DEF Led
    <2> QED
      BY <1>2, <2>1, <2>3, <2>4
  <1> QED
    BY <1>3, <1>4

(* replaceMemberSession keeps the invariant. *)
LEMMA ReplaceGuildSessionInv ==
    ASSUME GuildInv, NEW old \in Sessions, NEW new \in Sessions,
           ReplaceGuildSession(old, new)
    PROVE  GuildInv'
  <1> DEFINE g == guildIndex[old]
             r == [leader  |-> IF guilds[g].leader = old THEN new
                                                         ELSE guilds[g].leader,
                   members |-> Emplace(Without(guilds[g].members, {old}), new,
                                       guilds[g].members[old])]
  <1> USE DEF GuildInv
  <1>1. /\ old # new
        /\ old \in DOMAIN guildIndex
        /\ new \notin DOMAIN guildIndex
        /\ UNCHANGED nextGuildId
    BY DEF ReplaceGuildSession, GuildReplaceable
  <1>2. g \in DOMAIN guilds /\ g \in GuildIds /\ old \in DOMAIN guilds[g].members
    BY <1>1 DEF GuildIndexMatches, GuildTypeOK
  <1>3. IsGuild(guilds[g])
    BY <1>2 DEF GuildTypeOK
  <1>4. /\ IsGuild(r)
        /\ r.leader = IF guilds[g].leader = old THEN new ELSE guilds[g].leader
        /\ DOMAIN r.members = (DOMAIN guilds[g].members \ {old}) \cup {new}
    BY <1>2, <1>3 DEF IsGuild, IsMap, Put, Emplace, Without, Restrict
  <1>5. guilds' = [guilds EXCEPT ![g] = r]
    BY DEF ReplaceGuildSession
  <1>6. /\ IsMap(guildIndex', Sessions, GuildIds)
        /\ DOMAIN guildIndex' = (DOMAIN guildIndex \ {old}) \cup {new}
        /\ guildIndex'[new] = g
        /\ \A t \in DOMAIN guildIndex \ {old} : guildIndex'[t] = guildIndex[t]
    BY <1>1, <1>2
       DEF ReplaceGuildSession, GuildTypeOK, IsMap, Put, Without, Restrict
  <1> HIDE DEF r
  <1>7. /\ DOMAIN guilds' = DOMAIN guilds
        /\ guilds' = [h \in DOMAIN guilds' |-> guilds'[h]]
        /\ IsGuild(guilds'[g])
        /\ guilds'[g].leader = IF guilds[g].leader = old THEN new
                                                         ELSE guilds[g].leader
        /\ DOMAIN guilds'[g].members = (DOMAIN guilds[g].members \ {old}) \cup {new}
        /\ \A h \in DOMAIN guilds : h # g => guilds'[h] = guilds[h]
    BY <1>2, <1>4, <1>5, UpdateGuild
  <1>8. GuildTypeOK'
    BY <1>1, <1>2, <1>6, <1>7 DEF GuildTypeOK
  <1>9. GuildIndexMatches'
    BY <1>1, <1>2, <1>6, <1>7 DEF GuildIndexMatches
  <1>10. GuildLeaderListed'
    BY <1>1, <1>2, <1>7 DEF GuildLeaderListed
  <1> QED
    BY <1>8, <1>9, <1>10

(* Every step of the guild service keeps the invariant. *)
LEMMA GuildNextInv == GuildInv /\ [GuildNext]_guildVars => GuildInv'
  <1> SUFFICES ASSUME GuildInv, [GuildNext]_guildVars
               PROVE  GuildInv'
    OBVIOUS
  <1>1. ASSUME NEW s \in Sessions, NEW u \in Users, CreateGuild(s, u)
        PROVE  GuildInv'
    BY <1>1, CreateGuildInv
  <1>2. ASSUME NEW g \in DOMAIN guilds, NEW s \in Sessions, NEW u \in Users,
               JoinGuild(g, s, u)
        PROVE  GuildInv'
    BY <1>2, JoinGuildInv
  <1>3. ASSUME NEW g \in DOMAIN guilds, NEW s \in Sessions, LeaveGuild(g, s)
        PROVE  GuildInv'
    BY <1>3, LeaveIsRemoval, RemoveGuildMembersInv
  <1>4. ASSUME NEW s \in Sessions, RemoveGuildMember(s)
        PROVE  GuildInv'
    BY <1>4, RemoveGuildMembersInv DEF RemoveGuildMember
  <1>5. ASSUME NEW s \in Sessions, NEW new \in Sessions, ReplaceGuildSession(s, new)
        PROVE  GuildInv'
    BY <1>5, ReplaceGuildSessionInv
  <1>6. CASE UNCHANGED guildVars
    BY <1>6 DEF guildVars, GuildInv, GuildTypeOK, GuildIndexMatches, GuildLeaderListed
  <1> QED
    BY <1>1, <1>2, <1>3, <1>4, <1>5, <1>6 DEF GuildNext

(* In every behaviour of the guild service its index and the member tables   *)
(* agree, and every guild lists its leader.                                  *)
THEOREM GuildInvariant == GuildSpec => []GuildInv
  BY GuildInitInv, GuildNextInv, PTL DEF GuildSpec
=============================================================================
