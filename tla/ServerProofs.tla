---------------------------- MODULE ServerProofs ----------------------------
(***************************************************************************)
(* The tables of the server agree with each other and with those of the    *)
(* party and guild services, for every number of sessions, users, parties, *)
(* guilds and instances. The theorems at the end say which facts need the  *)
(* environment to behave (LatePackets) and which do not.                   *)
(***************************************************************************)
EXTENDS Server, GroupProofs

-----------------------------------------------------------------------------
(* Maps *)

(* Keys and values may be taken from larger sets. *)
LEMMA MapWiden ==
    ASSUME NEW K, NEW V, NEW f, IsMap(f, K, V), NEW L, NEW W,
           K \subseteq L, V \subseteq W
    PROVE  IsMap(f, L, W)
  BY DEF IsMap

(* What a takeover does to an entry of one of the server's tables. *)
LEMMA MapMoveEntry ==
    ASSUME NEW K, NEW V, NEW m, IsMap(m, K, V), NEW old, NEW new \in K
    PROVE  /\ IsMap(MoveEntry(m, old, new), K, V)
           /\ DOMAIN MoveEntry(m, old, new) \subseteq (DOMAIN m \ {old}) \cup {new}
           /\ SameEntry(m, old, MoveEntry(m, old, new), new)
  <1>1. CASE old \notin DOMAIN m
    BY <1>1 DEF MoveEntry, SameEntry
  <1>2. CASE old \in DOMAIN m
    <2>1. m[old] \in V
      BY <1>2 DEF IsMap
    <2>2. MoveEntry(m, old, new) = Put(Without(m, {old}), new, m[old])
      BY <1>2 DEF MoveEntry
    <2> QED
      BY <1>2, <2>1, <2>2 DEF SameEntry, IsMap, Put, Without, Restrict
  <1> QED
    BY <1>1, <1>2

-----------------------------------------------------------------------------
(* The session registry *)

(* The two maps are typed and inverse to each other. *)
Consistent(reg, S) ==
    /\ IsMap(reg.records, S, Users)
    /\ IsMap(reg.activeUsers, Users, S)
    /\ \A s \in DOMAIN reg.records :
        /\ reg.records[s] \in DOMAIN reg.activeUsers
        /\ reg.activeUsers[reg.records[s]] = s
    /\ \A u \in DOMAIN reg.activeUsers :
        /\ reg.activeUsers[u] \in DOMAIN reg.records
        /\ reg.records[reg.activeUsers[u]] = u

(* A larger set of sessions does no harm. *)
LEMMA ConsistentWiden ==
    ASSUME NEW reg, NEW S, NEW T, S \subseteq T, Consistent(reg, S)
    PROVE  Consistent(reg, T)
  BY MapWiden DEF Consistent

(* SessionRegistry::unregisterSession of any set of sessions. *)
LEMMA UnregisterConsistent ==
    ASSUME NEW reg, NEW C, Consistent(reg, C), NEW S
    PROVE  LET after == UnregisterSessions(reg, S)
           IN  /\ Consistent(after, C)
               /\ after.records = Without(reg.records, S)
               /\ DOMAIN after.records = DOMAIN reg.records \ S
               /\ \A s \in DOMAIN after.records : after.records[s] = reg.records[s]
               /\ \A u \in DOMAIN after.activeUsers :
                    /\ u \in DOMAIN reg.activeUsers
                    /\ after.activeUsers[u] = reg.activeUsers[u]
                    /\ after.activeUsers[u] \notin S
  <1> DEFINE U == {reg.records[s] : s \in S \cap DOMAIN reg.records}
             R == Without(reg.records, S)
             A == Without(reg.activeUsers, U)
             after == UnregisterSessions(reg, S)
  <1>1. after.records = R /\ after.activeUsers = A
    BY DEF UnregisterSessions
  <1>2. /\ IsMap(R, C, Users) /\ DOMAIN R = DOMAIN reg.records \ S
        /\ \A s \in DOMAIN R : R[s] = reg.records[s]
    BY DEF Consistent, IsMap, Without, Restrict
  <1>3. /\ IsMap(A, Users, C) /\ DOMAIN A = DOMAIN reg.activeUsers \ U
        /\ \A u \in DOMAIN A : A[u] = reg.activeUsers[u]
    BY DEF Consistent, IsMap, Without, Restrict
  <1> HIDE DEF A, R
  <1>4. \A s \in DOMAIN R : R[s] \in DOMAIN A /\ A[R[s]] = s
    <2> SUFFICES ASSUME NEW s \in DOMAIN R
                 PROVE  R[s] \in DOMAIN A /\ A[R[s]] = s
      OBVIOUS
    <2>1. /\ s \in DOMAIN reg.records /\ s \notin S /\ R[s] = reg.records[s]
          /\ R[s] \in DOMAIN reg.activeUsers /\ reg.activeUsers[R[s]] = s
      BY <1>2 DEF Consistent
    <2>2. R[s] \notin U
      BY <2>1 DEF Consistent
    <2> QED
      BY <1>3, <2>1, <2>2
  <1>5. \A u \in DOMAIN A : A[u] \in DOMAIN R /\ R[A[u]] = u /\ A[u] \notin S
    <2> SUFFICES ASSUME NEW u \in DOMAIN A
                 PROVE  A[u] \in DOMAIN R /\ R[A[u]] = u /\ A[u] \notin S
      OBVIOUS
    <2>1. /\ u \in DOMAIN reg.activeUsers /\ u \notin U /\ A[u] = reg.activeUsers[u]
          /\ A[u] \in DOMAIN reg.records /\ reg.records[A[u]] = u
      BY <1>3 DEF Consistent
    <2>2. A[u] \notin S
      BY <2>1
    <2> QED
      BY <1>2, <2>1, <2>2
  <1> HIDE DEF after, U
  <1>6. Consistent(after, C)
    BY <1>1, <1>2, <1>3, <1>4, <1>5 DEF Consistent
  <1>7. /\ after.records = Without(reg.records, S)
        /\ DOMAIN after.records = DOMAIN reg.records \ S
        /\ \A s \in DOMAIN after.records : after.records[s] = reg.records[s]
    BY <1>1, <1>2 DEF R
  <1>8. \A u \in DOMAIN after.activeUsers :
            /\ u \in DOMAIN reg.activeUsers
            /\ after.activeUsers[u] = reg.activeUsers[u]
            /\ after.activeUsers[u] \notin S
    BY <1>1, <1>3, <1>5
  <1> QED
    BY <1>6, <1>7, <1>8 DEF after

(* SessionRegistry::registerSession, for a user without another session. *)
LEMMA RegisterConsistent ==
    ASSUME NEW reg, NEW C, Consistent(reg, C), NEW s \in C, NEW u \in Users,
           u \in DOMAIN reg.activeUsers => reg.activeUsers[u] = s
    PROVE  LET after == RegisterSession(reg, s, u)
           IN  /\ Consistent(after, C)
               /\ after.records = Put(reg.records, s, u)
  <1> DEFINE previous == IF s \in DOMAIN reg.records THEN {reg.records[s]} ELSE {}
             R == Put(reg.records, s, u)
             B == Without(reg.activeUsers, previous)
             A == Put(B, u, s)
             after == RegisterSession(reg, s, u)
  <1>1. after.records = R /\ after.activeUsers = A
    BY DEF RegisterSession, RegisteredElsewhere
  <1>2. /\ IsMap(R, C, Users) /\ DOMAIN R = DOMAIN reg.records \cup {s} /\ R[s] = u
        /\ \A t \in DOMAIN reg.records \ {s} : R[t] = reg.records[t]
    BY DEF Consistent, IsMap, Put
  <1>3. /\ IsMap(B, Users, C) /\ DOMAIN B = DOMAIN reg.activeUsers \ previous
        /\ \A v \in DOMAIN B : B[v] = reg.activeUsers[v]
    BY DEF Consistent, IsMap, Without, Restrict
  <1> HIDE DEF B
  <1>4. /\ IsMap(A, Users, C) /\ DOMAIN A = DOMAIN B \cup {u} /\ A[u] = s
        /\ \A v \in DOMAIN B \ {u} : A[v] = B[v]
    BY <1>3 DEF IsMap, Put
  <1> HIDE DEF A, R, after
  <1>5. ASSUME NEW t \in DOMAIN R
        PROVE  R[t] \in DOMAIN A /\ A[R[t]] = t
    <2>1. CASE t = s
      BY <1>2, <1>4, <2>1
    <2>2. CASE t # s
      <3>1. /\ t \in DOMAIN reg.records /\ R[t] = reg.records[t]
            /\ R[t] \in DOMAIN reg.activeUsers /\ reg.activeUsers[R[t]] = t
        BY <1>2, <2>2 DEF Consistent
      <3>2. R[t] \notin previous
        BY <2>2, <3>1 DEF Consistent
      <3>3. R[t] # u
        BY <2>2, <3>1
      <3> QED
        BY <1>3, <1>4, <3>1, <3>2, <3>3
    <2> QED
      BY <2>1, <2>2
  <1>6. ASSUME NEW v \in DOMAIN A
        PROVE  A[v] \in DOMAIN R /\ R[A[v]] = v
    <2>1. CASE v = u
      BY <1>2, <1>4, <2>1
    <2>2. CASE v # u
      <3>1. /\ v \in DOMAIN reg.activeUsers /\ v \notin previous
            /\ A[v] = reg.activeUsers[v]
        BY <1>3, <1>4, <2>2
      <3>2. A[v] \in DOMAIN reg.records /\ reg.records[A[v]] = v
        BY <3>1 DEF Consistent
      <3>3. A[v] # s
        BY <3>1, <3>2
      <3> QED
        BY <1>2, <3>2, <3>3
    <2> QED
      BY <2>1, <2>2
  <1>7. Consistent(after, C)
    BY <1>1, <1>2, <1>4, <1>5, <1>6 DEF Consistent
  <1> QED
    BY <1>1, <1>7 DEF after, R

-----------------------------------------------------------------------------
(* Sessions, contexts, tokens and the registry *)

Accounts ==
    /\ created \subseteq Sessions
    /\ live \subseteq created /\ closed \subseteq live
    /\ IsMap(context, created, Users)
    /\ tokens \subseteq Users
    /\ Consistent(registry, created)

(* Steps that leave the accounts alone. *)
LEMMA AccountsFrame ==
    ASSUME Accounts, UNCHANGED accountVars
    PROVE  Accounts'
  BY DEF Accounts, accountVars, Consistent

(* The server starts without sessions. *)
LEMMA AccountsInit == ServerInit => Accounts
  BY DEF ServerInit, Accounts, Consistent, EmptyMap, IsMap

(* createSession *)
LEMMA CreateSessionAccounts ==
    ASSUME Accounts, NEW s \in Sessions, CreateSession(s)
    PROVE  Accounts'
  <1>1. /\ created' = created \cup {s} /\ live' = live \cup {s}
        /\ UNCHANGED <<closed, context, registry, tokens>>
    BY DEF CreateSession
  <1>2. Consistent(registry, created \cup {s})
    BY ConsistentWiden DEF Accounts
  <1>3. IsMap(context, created \cup {s}, Users)
    BY DEF Accounts, IsMap
  <1> QED
    BY <1>1, <1>2, <1>3 DEF Accounts

(* removeSession of any set of sessions: tick and forceDisconnect. *)
LEMMA RemoveSessionsAccounts ==
    ASSUME Accounts, NEW S, RemoveSessions(S)
    PROVE  Accounts'
  <1>1. /\ live' = live \ S /\ closed' = closed \ S
        /\ context' = Without(context, S)
        /\ registry' = UnregisterSessions(registry, S)
        /\ UNCHANGED <<created, tokens>>
    BY DEF RemoveSessions
  <1>2. Consistent(registry', created)
    BY <1>1, UnregisterConsistent DEF Accounts
  <1>3. IsMap(context', created, Users)
    BY <1>1 DEF Accounts, IsMap, Without, Restrict
  <1> QED
    BY <1>1, <1>2, <1>3 DEF Accounts

(* A user without another session is registered under s or not at all. *)
LEMMA NoOtherSession ==
    ASSUME NEW u, NEW s, OtherSessionOf(u, s) = {}
    PROVE  u \in DOMAIN registry.activeUsers => registry.activeUsers[u] = s
  BY DEF OtherSessionOf

(* Only sessions the server has made can send. *)
LEMMA SendersCreated ==
    ASSUME Accounts, NEW s, CanSend(s)
    PROVE  s \in created /\ s \in Sessions
  BY DEF Accounts, CanSend

(* LoginReq *)
LEMMA LoginReqAccounts ==
    ASSUME Accounts, NEW s, NEW u \in Users, LoginReq(s, u)
    PROVE  Accounts'
  <1>1. /\ s \in created
        /\ OtherSessionOf(u, s) = {}
        /\ tokens' = tokens \cup {u}
        /\ context' = Put(context, s, u)
        /\ registry' = RegisterSession(registry, s, u)
        /\ UNCHANGED <<created, live, closed>>
    BY SendersCreated DEF LoginReq
  <1>2. Consistent(registry', created)
    BY <1>1, NoOtherSession, RegisterConsistent DEF Accounts
  <1>3. IsMap(context', created, Users)
    BY <1>1 DEF Accounts, IsMap, Put
  <1> QED
    BY <1>1, <1>2, <1>3 DEF Accounts

(* LogoutReq *)
LEMMA LogoutReqAccounts ==
    ASSUME Accounts, NEW s, LogoutReq(s)
    PROVE  Accounts'
  <1>1. /\ context' = Without(context, {s})
        /\ registry' = UnregisterSessions(registry, {s})
        /\ UNCHANGED <<created, live, closed, tokens>>
    BY DEF LogoutReq
  <1>2. Consistent(registry', created)
    BY <1>1, UnregisterConsistent DEF Accounts
  <1>3. IsMap(context', created, Users)
    BY <1>1 DEF Accounts, IsMap, Without, Restrict
  <1> QED
    BY <1>1, <1>2, <1>3 DEF Accounts

(* After a reconnect the user is registered under the session it came from,  *)
(* and the session it had before is registered no more.                      *)
LEMMA ReconnectRegistry ==
    ASSUME Accounts, NEW s \in created, NEW u \in Users,
           registry' = RegisterSession(
                         UnregisterSessions(registry, OtherSessionOf(u, s)), s, u)
    PROVE  /\ Consistent(registry', created)
           /\ registry'.records
                = Put(Without(registry.records, OtherSessionOf(u, s)), s, u)
  <1> DEFINE Other == OtherSessionOf(u, s)
             reg == UnregisterSessions(registry, Other)
  <1>1. /\ Consistent(reg, created)
        /\ reg.records = Without(registry.records, Other)
        /\ \A v \in DOMAIN reg.activeUsers :
              /\ v \in DOMAIN registry.activeUsers
              /\ reg.activeUsers[v] = registry.activeUsers[v]
              /\ reg.activeUsers[v] \notin Other
    BY UnregisterConsistent DEF Accounts
  <1> HIDE DEF reg
  <1>2. u \in DOMAIN reg.activeUsers => reg.activeUsers[u] = s
    BY <1>1 DEF OtherSessionOf
  <1> HIDE DEF Other
  <1>3. registry' = RegisterSession(reg, s, u)
    BY DEF reg, Other
  <1>4. Consistent(registry', created) /\ registry'.records = Put(reg.records, s, u)
    BY <1>1, <1>2, <1>3, RegisterConsistent
  <1> QED
    BY <1>1, <1>4 DEF Other

(* SessionReconnectReq *)
LEMMA ReconnectAccounts ==
    ASSUME Accounts, NEW s, NEW u \in Users, SessionReconnectReq(s, u)
    PROVE  Accounts'
  <1>1. /\ s \in created
        /\ registry' = RegisterSession(
                         UnregisterSessions(registry, OtherSessionOf(u, s)), s, u)
        /\ UNCHANGED <<created, tokens>>
    BY SendersCreated DEF SessionReconnectReq
  <1>2. Consistent(registry', created)
    BY <1>1, ReconnectRegistry
  <1>3. PICK S : /\ live' = live \ S /\ closed' = closed \ S
                 /\ context' = Put(Without(context, S), s, u)
    <2>1. CASE UNCHANGED <<live, closed>> /\ context' = Put(context, s, u)
      <3>1. context = Without(context, {})
        BY DEF Accounts, IsMap, Without, Restrict
      <3> QED
        BY <2>1, <3>1
    <2>2. CASE \E old \in OtherSessionOf(u, s) \cap live :
                  TakeOver(old, s) /\ context' = Put(Without(context, {old}), s, u)
      BY <2>2 DEF TakeOver
    <2> QED
      BY <2>1, <2>2 DEF SessionReconnectReq
  <1>4. IsMap(context', created, Users)
    BY <1>1, <1>3 DEF Accounts, IsMap, Put, Without, Restrict
  <1> QED
    BY <1>1, <1>2, <1>3, <1>4 DEF Accounts

-----------------------------------------------------------------------------
(* Instances, characters and rewards *)

InstanceRecords == [party : 1 .. nextPartyId - 1, state : InstanceStates]

(* Instance ids and grant ids are handed out once; so are the entries of the *)
(* ledger.                                                                   *)
Dungeons ==
    /\ nextPartyId \in Nat \ {0}
    /\ nextInstanceId \in Nat \ {0} /\ nextGrantId \in Nat \ {0}
    /\ IsMap(sessionInstances, created, DOMAIN instances)
    /\ IsMap(sessionCharacters, created, Characters)
    /\ IsMap(instances, 1 .. nextInstanceId - 1, InstanceRecords)
    /\ IsMap(grants, DOMAIN instances, 1 .. nextGrantId - 1)
    /\ \A e \in ledger : e.grant \in 1 .. nextGrantId - 1
    /\ RewardAccounting

(* The server starts without instances and rewards. *)
LEMMA DungeonsInit == ServerInit => Dungeons
  BY DEF ServerInit, PartyInit, InstanceInit, Dungeons, RewardAccounting,
         InstanceRecords, EmptyMap, IsMap

(* Steps that leave instances and rewards alone; parties may be made. *)
LEMMA DungeonsFrame ==
    ASSUME Dungeons, UNCHANGED <<instanceVars, rewardVars>>,
           nextPartyId' \in {nextPartyId, nextPartyId + 1},
           IsMap(sessionInstances', created', DOMAIN instances),
           IsMap(sessionCharacters', created', Characters)
    PROVE  Dungeons'
  <1>1. UNCHANGED <<instances, nextInstanceId, grants, nextGrantId, ledger>>
    BY DEF instanceVars, rewardVars
  <1>2. /\ nextPartyId' \in Nat \ {0}
        /\ 1 .. nextPartyId - 1 \subseteq 1 .. nextPartyId' - 1
    <2>1. nextPartyId \in Nat \ {0}
      BY DEF Dungeons
    <2>2. \A n \in Nat \ {0} :
             /\ n + 1 \in Nat \ {0}
             /\ 1 .. n - 1 \subseteq 1 .. (n + 1) - 1
      OBVIOUS
    <2> QED
      BY <2>1, <2>2
  <1>3. InstanceRecords \subseteq InstanceRecords'
    BY <1>2 DEF InstanceRecords
  <1>4. IsMap(instances', 1 .. nextInstanceId' - 1, InstanceRecords')
    BY <1>1, <1>3 DEF Dungeons, IsMap
  <1>5. RewardAccounting'
    BY <1>1 DEF Dungeons, RewardAccounting
  <1> QED
    BY <1>1, <1>2, <1>4, <1>5 DEF Dungeons

(* The same when the sessions' own tables stay as they are. *)
LEMMA DungeonsKept ==
    ASSUME Dungeons, UNCHANGED dungeonVars, created \subseteq created',
           nextPartyId' \in {nextPartyId, nextPartyId + 1}
    PROVE  Dungeons'
  <1>1. UNCHANGED <<instanceVars, rewardVars, sessionInstances, sessionCharacters>>
    BY DEF dungeonVars
  <1>2. /\ IsMap(sessionInstances', created', DOMAIN instances)
        /\ IsMap(sessionCharacters', created', Characters)
    BY <1>1, MapWiden DEF Dungeons
  <1> QED
    BY <1>1, <1>2, DungeonsFrame

(* removeSession takes the sessions out of the tables. *)
LEMMA RemoveSessionsDungeons ==
    ASSUME Dungeons, NEW S, RemoveSessions(S)
    PROVE  Dungeons'
  <1>1. /\ sessionInstances' = Without(sessionInstances, S)
        /\ sessionCharacters' = Without(sessionCharacters, S)
        /\ UNCHANGED <<created, instanceVars, rewardVars, nextPartyId>>
    BY DEF RemoveSessions, RemoveMembers
  <1>2. IsMap(sessionInstances', created', DOMAIN instances)
    BY <1>1 DEF Dungeons, IsMap, Without, Restrict
  <1>3. IsMap(sessionCharacters', created', Characters)
    BY <1>1 DEF Dungeons, IsMap, Without, Restrict
  <1> QED
    BY <1>1, <1>2, <1>3, DungeonsFrame

(* SessionReconnectReq moves entries at most. *)
LEMMA ReconnectDungeons ==
    ASSUME Accounts, Dungeons, NEW s, NEW u, SessionReconnectReq(s, u)
    PROVE  Dungeons'
  <1>1. s \in created /\ UNCHANGED <<created, instanceVars, rewardVars>>
    BY SendersCreated DEF SessionReconnectReq
  <1>2. CASE UNCHANGED <<partyVars, sessionInstances, sessionCharacters>>
    BY <1>1, <1>2, DungeonsKept DEF partyVars, dungeonVars
  <1>3. ASSUME NEW old, TakeOver(old, s)
        PROVE  Dungeons'
    <2>1. /\ sessionInstances' = MoveEntry(sessionInstances, old, s)
          /\ sessionCharacters' = MoveEntry(sessionCharacters, old, s)
          /\ UNCHANGED nextPartyId
      BY <1>3 DEF TakeOver, ReplaceMemberSession, partyVars
    <2>2. IsMap(sessionInstances', created', DOMAIN instances)
      BY <1>1, <2>1, MapMoveEntry DEF Dungeons
    <2>3. IsMap(sessionCharacters', created', Characters)
      BY <1>1, <2>1, MapMoveEntry DEF Dungeons
    <2> QED
      BY <1>1, <2>1, <2>2, <2>3, DungeonsFrame
  <1> QED
    BY <1>2, <1>3 DEF SessionReconnectReq

(* MatchReq: a new instance, with no reward yet. *)
LEMMA MatchReqDungeons ==
    ASSUME Accounts, PartyInv, Dungeons, NEW s, NEW p, MatchReq(s, p)
    PROVE  Dungeons'
  <1> DEFINE i == nextInstanceId
             r == [party |-> p, state |-> "Waiting"]
             notified == DOMAIN parties[p].members \cap live
  <1>1. /\ p \in DOMAIN parties
        /\ instances' = Put(instances, i, r)
        /\ nextInstanceId' = i + 1
        /\ sessionInstances' =
             [t \in DOMAIN sessionInstances \cup notified |->
                IF t \in notified THEN i ELSE sessionInstances[t]]
        /\ UNCHANGED <<created, nextPartyId, sessionCharacters, grants, nextGrantId, ledger>>
    BY DEF MatchReq, CreateInstance, accountVars, partyVars, rewardVars
  <1>2. p \in 1 .. nextPartyId - 1 /\ r \in InstanceRecords /\ i \in Nat \ {0}
    <2>1. p \in PartyIds /\ p < nextPartyId /\ nextPartyId \in PartyIds
      BY <1>1 DEF PartyInv, PartyTypeOK
    <2>2. p \in 1 .. nextPartyId - 1
      BY <2>1 DEF PartyIds
    <2> QED
      BY <2>2 DEF InstanceRecords, InstanceStates, Dungeons
  <1>3. i \notin DOMAIN instances /\ 1 .. i - 1 \subseteq 1 .. (i + 1) - 1 /\ i \in 1 .. (i + 1) - 1
    BY <1>2 DEF Dungeons, IsMap
  <1> HIDE DEF r, i, notified
  <1>4. /\ IsMap(instances', 1 .. (i + 1) - 1, InstanceRecords)
        /\ DOMAIN instances' = DOMAIN instances \cup {i}
        /\ \A j \in DOMAIN instances : instances'[j] = instances[j]
    BY <1>1, <1>2, <1>3 DEF Dungeons, IsMap, Put, i
  <1>5. IsMap(sessionInstances', created, DOMAIN instances')
    BY <1>1, <1>4 DEF Dungeons, Accounts, IsMap, notified
  <1>6. IsMap(grants', DOMAIN instances', 1 .. nextGrantId' - 1)
    BY <1>1, <1>4 DEF Dungeons, IsMap
  <1>7. RewardAccounting'
    <2>1. \A j \in DOMAIN grants : instances'[j] = instances[j]
      BY <1>4 DEF Dungeons, IsMap
    <2> QED
      BY <1>1, <2>1 DEF Dungeons, RewardAccounting
  <1>8. InstanceRecords' = InstanceRecords
    BY <1>1 DEF InstanceRecords
  <1>9. nextInstanceId' \in Nat \ {0}
    BY <1>1, <1>2
  <1> QED
    BY <1>1, <1>4, <1>5, <1>6, <1>7, <1>8, <1>9 DEF Dungeons, i

(* Assigning a new record to one instance touches no other instance. *)
LEMMA UpdateInstance ==
    ASSUME Dungeons, NEW i \in DOMAIN instances, NEW r \in InstanceRecords,
           instances' = [instances EXCEPT ![i] = r]
    PROVE  /\ DOMAIN instances' = DOMAIN instances
           /\ IsMap(instances', 1 .. nextInstanceId - 1, InstanceRecords)
           /\ instances'[i] = r
           /\ \A j \in DOMAIN instances : j # i => instances'[j] = instances[j]
  BY DEF Dungeons, IsMap

(* A change of state touches one instance. *)
LEMMA ChangeState ==
    ASSUME Dungeons, NEW i \in DOMAIN instances, NEW next \in InstanceStates,
           instances' = [instances EXCEPT ![i].state = next]
    PROVE  /\ DOMAIN instances' = DOMAIN instances
           /\ IsMap(instances', 1 .. nextInstanceId - 1, InstanceRecords)
           /\ instances'[i].state = next
           /\ \A j \in DOMAIN instances : j # i => instances'[j] = instances[j]
  <1>1. instances[i] \in InstanceRecords
    BY DEF Dungeons, IsMap
  <1>2. [instances[i] EXCEPT !.state = next]
          = [party |-> instances[i].party, state |-> next]
    BY <1>1 DEF InstanceRecords
  <1>3. instances' = [instances EXCEPT ![i] = [party |-> instances[i].party, state |-> next]]
    BY <1>2
  <1>4. [party |-> instances[i].party, state |-> next] \in InstanceRecords
    BY <1>1 DEF InstanceRecords
  <1> QED
    BY <1>3, <1>4, UpdateInstance

(* Steps that move one instance on, without a reward. *)
LEMMA TransitionDungeons ==
    ASSUME Dungeons, NEW i \in DOMAIN instances, NEW next \in InstanceStates,
           instances' = [instances EXCEPT ![i].state = next],
           instances[i].state \in Finished => next \in Finished,
           UNCHANGED <<nextInstanceId, rewardVars, nextPartyId, created>>,
           IsMap(sessionInstances', created, DOMAIN instances),
           IsMap(sessionCharacters', created, Characters)
    PROVE  Dungeons'
  <1>1. /\ DOMAIN instances' = DOMAIN instances
        /\ IsMap(instances', 1 .. nextInstanceId - 1, InstanceRecords)
        /\ instances'[i].state = next
        /\ \A j \in DOMAIN instances : j # i => instances'[j] = instances[j]
    BY ChangeState
  <1>2. UNCHANGED <<grants, nextGrantId, ledger, InstanceRecords>>
    BY DEF rewardVars, InstanceRecords
  <1>3. RewardAccounting'
    <2>1. \A j \in DOMAIN grants : instances[j].state \in Finished /\ j \in DOMAIN instances
      BY DEF Dungeons, RewardAccounting, IsMap
    <2>2. \A j \in DOMAIN grants : instances'[j].state \in Finished
      BY <1>1, <2>1
    <2> QED
      BY <1>2, <2>2 DEF Dungeons, RewardAccounting
  <1> QED
    BY <1>1, <1>2, <1>3 DEF Dungeons

(* DungeonEnterReq *)
LEMMA DungeonEnterDungeons ==
    ASSUME Accounts, Dungeons, NEW s, NEW i \in DOMAIN instances, NEW c \in Characters,
           DungeonEnterReq(s, i, c)
    PROVE  Dungeons'
  <1>1. /\ s \in created
        /\ instances' = [instances EXCEPT ![i].state = "Ready"]
        /\ TransitionAllowed(instances[i].state, "Ready")
        /\ sessionCharacters' = Put(sessionCharacters, s, c)
        /\ sessionInstances' = Put(sessionInstances, s, i)
        /\ UNCHANGED <<nextInstanceId, rewardVars, nextPartyId, created>>
    BY SendersCreated
       DEF DungeonEnterReq, Authenticated, RequestTransition, CanTransition,
           accountVars, partyVars
  <1>2. instances[i].state \notin Finished
    BY <1>1 DEF TransitionAllowed, Finished
  <1>3. IsMap(sessionInstances', created, DOMAIN instances)
    BY <1>1 DEF Dungeons, IsMap, Put
  <1>4. IsMap(sessionCharacters', created, Characters)
    BY <1>1 DEF Dungeons, IsMap, Put
  <1>5. "Ready" \in InstanceStates
    BY DEF InstanceStates
  <1> QED
    BY <1>1, <1>2, <1>3, <1>4, <1>5, TransitionDungeons

(* The instance manager's calls from outside the server *)
LEMMA InstanceCallDungeons ==
    ASSUME Dungeons, NEW i \in DOMAIN instances, InstanceCall(i)
    PROVE  Dungeons'
  <1>1. UNCHANGED <<rewardVars, nextPartyId, created, sessionInstances, sessionCharacters>>
    BY DEF InstanceCall, accountVars, partyVars
  <1>2. PICK next \in {"Playing", "Terminate"} :
            /\ instances' = [instances EXCEPT ![i].state = next]
            /\ next = "Playing" => TransitionAllowed(instances[i].state, next)
            /\ UNCHANGED nextInstanceId
    BY DEF InstanceCall, RequestTransition, TerminateInstance, CanTransition
  <1>3. /\ next \in InstanceStates
        /\ instances[i].state \in Finished => next \in Finished
    BY <1>2 DEF InstanceStates, Finished, TransitionAllowed
  <1>4. /\ IsMap(sessionInstances', created, DOMAIN instances)
        /\ IsMap(sessionCharacters', created, Characters)
    BY <1>1 DEF Dungeons
  <1> QED
    BY <1>1, <1>2, <1>3, <1>4, TransitionDungeons

(* DungeonResultNotify: the instance is finished, and the reward that the    *)
(* inventory takes for it is the first one and has a grant id of its own.    *)
LEMMA DungeonResultDungeons ==
    ASSUME Accounts, Dungeons, NEW s, NEW result \in {"Clear", "Fail"}, NEW items,
           DungeonResultNotify(s, result, items)
    PROVE  Dungeons'
  <1> DEFINE i == sessionInstances[s]
             g == nextGrantId
  <1>1. /\ i \notin DOMAIN grants /\ i \in DOMAIN instances
        /\ instances' = [instances EXCEPT ![i].state = result]
        /\ SettleReward(s, i, items)
        /\ UNCHANGED <<nextInstanceId, nextPartyId, created, sessionInstances, sessionCharacters>>
    BY DEF DungeonResultNotify, RequestTransition, CanTransition, accountVars, partyVars
  <1> HIDE DEF i
  <1>2. result \in InstanceStates /\ result \in Finished
    BY DEF InstanceStates, Finished
  <1>3. /\ DOMAIN instances' = DOMAIN instances
        /\ IsMap(instances', 1 .. nextInstanceId - 1, InstanceRecords)
        /\ instances'[i].state = result
        /\ \A j \in DOMAIN instances : j # i => instances'[j] = instances[j]
    BY <1>1, <1>2, ChangeState
  <1>4. CASE UNCHANGED rewardVars
    BY <1>1, <1>2, <1>4, TransitionDungeons DEF Dungeons
  <1>5. CASE /\ nextGrantId' = g + 1 /\ UNCHANGED <<grants, ledger>>
    <2>1. /\ g + 1 \in Nat \ {0} /\ 1 .. g - 1 \subseteq 1 .. (g + 1) - 1
      BY DEF Dungeons
    <2>2. IsMap(grants', DOMAIN instances', 1 .. nextGrantId' - 1)
      BY <1>3, <1>5, <2>1 DEF Dungeons, IsMap
    <2>3. RewardAccounting'
      <3>1. \A j \in DOMAIN grants : instances'[j] = instances[j]
        BY <1>1, <1>3 DEF Dungeons, IsMap
      <3> QED
        BY <1>5, <3>1 DEF Dungeons, RewardAccounting
    <2>4. InstanceRecords' = InstanceRecords
      BY <1>1 DEF InstanceRecords
    <2> QED
      BY <1>1, <1>3, <1>5, <2>1, <2>2, <2>3, <2>4 DEF Dungeons
  <1>6. CASE \E c : /\ nextGrantId' = g + 1
                    /\ ledger' = ledger \cup {RewardEntry(i, c)}
                    /\ grants' = Put(grants, i, g)
    <2>1. PICK c : /\ nextGrantId' = g + 1
                   /\ ledger' = ledger \cup {[instance |-> i, grant |-> g, char |-> c]}
                   /\ grants' = Put(grants, i, g)
      BY <1>6 DEF RewardEntry
    <2> DEFINE entry == [instance |-> i, grant |-> g, char |-> c]
    <2>2. /\ g + 1 \in Nat \ {0} /\ 1 .. g - 1 \subseteq 1 .. (g + 1) - 1
          /\ g \in 1 .. (g + 1) - 1 /\ g \notin 1 .. g - 1
      BY DEF Dungeons
    <2>3. entry.instance = i /\ entry.grant = g
      OBVIOUS
    <2>4. ledger' = ledger \cup {entry}
      BY <2>1
    <2> HIDE DEF entry, g
    <2>5. /\ IsMap(grants', DOMAIN instances', 1 .. (g + 1) - 1)
          /\ DOMAIN grants' = DOMAIN grants \cup {i} /\ grants'[i] = g
          /\ \A j \in DOMAIN grants : grants'[j] = grants[j]
      BY <1>1, <1>3, <2>1, <2>2 DEF Dungeons, IsMap, Put, g
    <2>6. \A e \in ledger : e.grant \in 1 .. g - 1 /\ e.grant # g /\ e.instance # i
      BY <1>1, <2>2 DEF Dungeons, RewardAccounting, g
    <2>7. RewardAccounting'
      <3>1. ASSUME NEW j \in DOMAIN grants'
            PROVE  /\ {e.grant : e \in {x \in ledger' : x.instance = j}} = {grants'[j]}
                   /\ instances'[j].state \in Finished
        <4>1. CASE j = i
          <5>1. {x \in ledger' : x.instance = j} = {entry}
            BY <2>3, <2>4, <2>6, <4>1
          <5> QED
            BY <1>2, <1>3, <2>3, <2>5, <4>1, <5>1
        <4>2. CASE j # i
          <5>1. j \in DOMAIN grants /\ j \in DOMAIN instances
            BY <2>5, <4>2 DEF Dungeons, IsMap
          <5>2. {x \in ledger' : x.instance = j} = {x \in ledger : x.instance = j}
            BY <2>3, <2>4, <4>2
          <5> QED
            BY <1>3, <2>5, <4>2, <5>1, <5>2 DEF Dungeons, RewardAccounting
        <4> QED
          BY <4>1, <4>2
      <3>2. \A e \in ledger' : e.instance \in DOMAIN grants'
        BY <2>3, <2>4, <2>5 DEF Dungeons, RewardAccounting
      <3>3. \A d, e \in ledger' : d.grant = e.grant => d = e
        BY <2>3, <2>4, <2>6 DEF Dungeons, RewardAccounting
      <3> QED
        BY <3>1, <3>2, <3>3 DEF RewardAccounting
    <2>8. \A e \in ledger' : e.grant \in 1 .. (g + 1) - 1
      BY <2>2, <2>3, <2>4, <2>6
    <2>9. InstanceRecords' = InstanceRecords
      BY <1>1 DEF InstanceRecords
    <2> QED
      BY <1>1, <1>3, <2>1, <2>2, <2>5, <2>7, <2>8, <2>9 DEF Dungeons
  <1> QED
    BY <1>1, <1>4, <1>5, <1>6 DEF SettleReward

-----------------------------------------------------------------------------
(* The group services, as the server uses them: calls of their own, the      *)
(* removal of several sessions at once, or nothing.                          *)

PartyEffect ==
    \/ PartyNext
    \/ \E S : RemoveMembers(S)
    \/ UNCHANGED partyVars

GuildEffect ==
    \/ GuildNext
    \/ \E S : RemoveGuildMembers(S)
    \/ UNCHANGED guildVars

(* What the server does to the party service keeps its invariant and its     *)
(* step properties, and hands out at most one party id.                      *)
LEMMA PartyEffectKeeps ==
    ASSUME PartyInv, PartyEffect
    PROVE  /\ PartyInv'
           /\ JoinStep /\ LeadershipStep
           /\ nextPartyId' \in {nextPartyId, nextPartyId + 1}
  <1>1. CASE PartyNext
    <2>1. nextPartyId' \in {nextPartyId, nextPartyId + 1}
      <3>1. ASSUME NEW s, NEW u, CreateParty(s, u)
            PROVE  nextPartyId' = nextPartyId + 1
        BY <3>1 DEF CreateParty
      <3>2. ASSUME NEW s, RemoveMember(s)
            PROVE  nextPartyId' = nextPartyId
        BY <3>2 DEF RemoveMember, RemoveMembers
      <3>3. ASSUME NEW s, NEW new, ReplaceMemberSession(s, new)
            PROVE  nextPartyId' = nextPartyId
        BY <3>3 DEF ReplaceMemberSession
      <3>4. ASSUME NEW p, NEW s, NEW t, NEW u, InviteMember(p, s, t, u)
            PROVE  nextPartyId' = nextPartyId
        BY <3>4 DEF InviteMember
      <3>5. ASSUME NEW p, NEW s, AcceptInvite(p, s) \/ RejectInvite(p, s) \/ DisbandParty(p, s)
            PROVE  nextPartyId' = nextPartyId
        BY <3>5 DEF AcceptInvite, RejectInvite, DisbandParty
      <3>6. ASSUME NEW t, ExpireInvites \/ SetInviteTimeout(t) \/ PassTime
            PROVE  nextPartyId' = nextPartyId
        BY <3>6 DEF ExpireInvites, SetInviteTimeout, PassTime
      <3> QED
        BY <1>1, <3>1, <3>2, <3>3, <3>4, <3>5, <3>6 DEF PartyNext
    <2> QED
      BY <1>1, <2>1, PartyNextInv, PartyNextStep
  <1>2. ASSUME NEW S, RemoveMembers(S)
        PROVE  /\ PartyInv' /\ JoinStep /\ LeadershipStep
               /\ UNCHANGED nextPartyId
    BY <1>2, RemoveMembersInv, RemoveMembersStep DEF RemoveMembers
  <1>3. CASE UNCHANGED partyVars
    BY <1>3, PartyNextInv, PartyNextStep DEF partyVars
  <1> QED
    BY <1>1, <1>2, <1>3 DEF PartyEffect

(* The same for the guild service. *)
LEMMA GuildEffectKeeps ==
    ASSUME GuildInv, GuildEffect
    PROVE  GuildInv'
  BY GuildNextInv, RemoveGuildMembersInv DEF GuildEffect

(* Users and sessions of the calls come from the contexts. *)
LEMMA ContextTyped ==
    ASSUME Accounts, NEW s \in DOMAIN context
    PROVE  s \in Sessions /\ context[s] \in Users
  BY DEF Accounts, IsMap

(* The calls of the embedding program *)
LEMMA PartyCallEffect ==
    ASSUME Accounts, NEW s, PartyCall(s)
    PROVE  PartyNext
  <1>1. s \in DOMAIN context
    BY DEF PartyCall
  <1>2. s \in Sessions /\ context[s] \in Users
    BY <1>1, ContextTyped
  <1>3. \A t \in live \cap DOMAIN context : t \in Sessions /\ context[t] \in Users
    BY ContextTyped
  <1> QED
    BY <1>2, <1>3 DEF PartyCall, PartyNext

(* GuildCreateReq, GuildJoinReq and GuildLeaveReq *)
LEMMA GuildReqEffect ==
    ASSUME Accounts, NEW s,
           \/ GuildCreateReq(s)
           \/ \E g \in DOMAIN guilds : GuildJoinReq(s, g) \/ GuildLeaveReq(s, g)
    PROVE  GuildNext
  <1>1. s \in DOMAIN context
    BY DEF GuildCreateReq, GuildJoinReq, GuildLeaveReq, Authenticated
  <1>2. s \in Sessions /\ context[s] \in Users
    BY <1>1, ContextTyped
  <1> QED
    BY <1>2 DEF GuildCreateReq, GuildJoinReq, GuildLeaveReq, GuildNext

(* A takeover replaces the session in the services that can move its seat. *)
LEMMA ReconnectEffect ==
    ASSUME Accounts, NEW s, NEW u, SessionReconnectReq(s, u)
    PROVE  PartyEffect /\ GuildEffect
  <1>1. s \in Sessions
    BY SendersCreated DEF SessionReconnectReq
  <1>2. ASSUME NEW old \in live, TakeOver(old, s)
        PROVE  PartyEffect /\ GuildEffect
    <2>1. old \in Sessions
      BY DEF Accounts
    <2>2. ReplaceMemberSession(old, s) \/ UNCHANGED partyVars
      BY <1>2 DEF TakeOver
    <2>3. ReplaceGuildSession(old, s) \/ UNCHANGED guildVars
      BY <1>2 DEF TakeOver
    <2> QED
      BY <1>1, <2>1, <2>2, <2>3 DEF PartyEffect, GuildEffect, PartyNext, GuildNext
  <1> QED
    BY <1>2 DEF SessionReconnectReq, PartyEffect, GuildEffect

(* Every step of the server is such an effect on both services. *)
LEMMA GroupEffects ==
    ASSUME Accounts, [ServerNext]_vars
    PROVE  PartyEffect /\ GuildEffect
  <1>1. ASSUME NEW S, RemoveSessions(S)
        PROVE  PartyEffect /\ GuildEffect
    BY <1>1 DEF RemoveSessions, PartyEffect, GuildEffect
  <1>2. ASSUME NEW s \in Sessions, NEW u \in Users, SessionReconnectReq(s, u)
        PROVE  PartyEffect /\ GuildEffect
    BY <1>2, ReconnectEffect
  <1>3. ASSUME NEW s \in Sessions, PartyCall(s)
        PROVE  PartyEffect /\ GuildEffect
    BY <1>3, PartyCallEffect DEF PartyEffect, GuildEffect, PartyCall
  <1>4. ASSUME NEW s \in Sessions,
               \/ GuildCreateReq(s)
               \/ \E g \in DOMAIN guilds : GuildJoinReq(s, g) \/ GuildLeaveReq(s, g)
        PROVE  PartyEffect /\ GuildEffect
    <2>1. GuildNext
      BY <1>4, GuildReqEffect
    <2>2. UNCHANGED partyVars
      BY <1>4 DEF GuildCreateReq, GuildJoinReq, GuildLeaveReq
    <2> QED
      BY <2>1, <2>2 DEF PartyEffect, GuildEffect
  <1>5. CASE UNCHANGED <<partyVars, guildVars>>
    BY <1>5 DEF PartyEffect, GuildEffect
  <1>6. CASE Tick
    BY <1>1, <1>6 DEF Tick
  <1>7. ASSUME NEW s \in Sessions, ForceDisconnect(s)
        PROVE  PartyEffect /\ GuildEffect
    BY <1>1, <1>7 DEF ForceDisconnect
  <1>8. CASE \E u \in Users : TokenExpires(u)
    BY <1>5, <1>8 DEF TokenExpires
  <1>9. ASSUME NEW s \in Sessions,
               \/ CreateSession(s) \/ Overflow(s) \/ LogoutReq(s)
               \/ \E u \in Users : LoginReq(s, u)
               \/ \E R : ChatSendReq(s, R)
               \/ \E p : MatchReq(s, p)
               \/ \E i, c : DungeonEnterReq(s, i, c)
               \/ \E result, items : DungeonResultNotify(s, result, items)
        PROVE  PartyEffect /\ GuildEffect
    BY <1>5, <1>9 DEF CreateSession, Overflow, LogoutReq, LoginReq, ChatSendReq,
                      MatchReq, DungeonEnterReq, DungeonResultNotify
  <1>10. CASE \E i \in DOMAIN instances : InstanceCall(i)
    BY <1>5, <1>10 DEF InstanceCall
  <1>11. CASE UNCHANGED vars
    BY <1>5, <1>11 DEF vars
  <1> QED
    BY <1>2, <1>3, <1>4, <1>6, <1>7, <1>8, <1>9, <1>10, <1>11 DEF ServerNext

-----------------------------------------------------------------------------
(* The inductive invariant of the server *)

ServerInv ==
    /\ PartyInv
    /\ GuildInv
    /\ Accounts
    /\ Dungeons

(* The handlers and calls that leave sessions, contexts, tokens and the      *)
(* registry alone.                                                           *)
GameStep ==
    \/ \E s \in Sessions :
        \/ GuildCreateReq(s)
        \/ \E g \in DOMAIN guilds : GuildJoinReq(s, g) \/ GuildLeaveReq(s, g)
        \/ PartyCall(s)
        \/ \E p \in DOMAIN parties : MatchReq(s, p)
        \/ \E i \in DOMAIN instances, c \in Characters : DungeonEnterReq(s, i, c)
        \/ \E result \in {"Clear", "Fail"}, items \in RewardLists :
             DungeonResultNotify(s, result, items)
    \/ \E i \in DOMAIN instances : InstanceCall(i)

(* They do leave them alone. *)
LEMMA GameStepFrame == GameStep => UNCHANGED accountVars
  BY DEF GameStep, GuildCreateReq, GuildJoinReq, GuildLeaveReq, PartyCall, MatchReq,
         DungeonEnterReq, DungeonResultNotify, InstanceCall

(* The steps that change nothing but closed and tokens. *)
MinorStep ==
    \/ \E u \in Users : TokenExpires(u)
    \/ \E s \in Sessions : Overflow(s) \/ \E R : ChatSendReq(s, R)

(* They close live sessions or let tokens expire, and that is all. *)
LEMMA MinorStepFrame ==
    MinorStep => /\ closed' \subseteq closed \cup live
                 /\ tokens' \subseteq tokens
                 /\ UNCHANGED <<created, live, context, registry,
                                partyVars, guildVars, dungeonVars>>
  BY DEF MinorStep, TokenExpires, Overflow, ChatSendReq

(* The kinds of steps the server can take. *)
LEMMA ServerSteps ==
    ServerNext => \/ \E S : S \subseteq live /\ RemoveSessions(S)
                  \/ \E s \in Sessions : CreateSession(s) \/ LogoutReq(s)
                  \/ \E s \in Sessions, u \in Users : LoginReq(s, u)
                  \/ \E s \in Sessions, u \in Users : SessionReconnectReq(s, u)
                  \/ MinorStep
                  \/ GameStep
  <1>1. Tick => \E S : S \subseteq live /\ RemoveSessions(S)
    BY DEF Tick
  <1>2. ASSUME NEW s, ForceDisconnect(s)
        PROVE  \E S : S \subseteq live /\ RemoveSessions(S)
    BY <1>2 DEF ForceDisconnect
  <1> QED
    BY <1>1, <1>2 DEF ServerNext, MinorStep, GameStep

(* Every step keeps the accounts in order. *)
LEMMA AccountsStep ==
    ASSUME Accounts, [ServerNext]_vars
    PROVE  Accounts'
  <1>1. ASSUME NEW S, RemoveSessions(S)
        PROVE  Accounts'
    BY <1>1, RemoveSessionsAccounts
  <1>2. ASSUME NEW s \in Sessions, CreateSession(s) \/ LogoutReq(s)
        PROVE  Accounts'
    BY <1>2, CreateSessionAccounts, LogoutReqAccounts
  <1>3. ASSUME NEW s \in Sessions, NEW u \in Users, LoginReq(s, u)
        PROVE  Accounts'
    BY <1>3, LoginReqAccounts
  <1>4. ASSUME NEW s \in Sessions, NEW u \in Users, SessionReconnectReq(s, u)
        PROVE  Accounts'
    BY <1>4, ReconnectAccounts
  <1>5. CASE MinorStep
    BY <1>5, MinorStepFrame DEF Accounts, Consistent
  <1>6. CASE GameStep
    BY <1>6, GameStepFrame, AccountsFrame
  <1>7. CASE UNCHANGED vars
    BY <1>7, AccountsFrame DEF vars
  <1> QED
    BY <1>1, <1>2, <1>3, <1>4, <1>5, <1>6, <1>7, ServerSteps

(* Every step keeps instances and rewards in order. *)
LEMMA DungeonsStep ==
    ASSUME ServerInv, [ServerNext]_vars
    PROVE  Dungeons'
  <1> USE DEF ServerInv
  <1>1. nextPartyId' \in {nextPartyId, nextPartyId + 1}
    BY GroupEffects, PartyEffectKeeps
  <1>2. CASE UNCHANGED dungeonVars /\ created \subseteq created'
    BY <1>1, <1>2, DungeonsKept
  <1>3. ASSUME NEW S, RemoveSessions(S)
        PROVE  Dungeons'
    BY <1>3, RemoveSessionsDungeons
  <1>4. ASSUME NEW s \in Sessions, CreateSession(s) \/ LogoutReq(s)
        PROVE  Dungeons'
    BY <1>2, <1>4 DEF CreateSession, LogoutReq
  <1>5. ASSUME NEW s \in Sessions, NEW u \in Users, LoginReq(s, u)
        PROVE  Dungeons'
    BY <1>2, <1>5 DEF LoginReq
  <1>6. ASSUME NEW s \in Sessions, NEW u \in Users, SessionReconnectReq(s, u)
        PROVE  Dungeons'
    BY <1>6, ReconnectDungeons
  <1>7. CASE MinorStep
    BY <1>2, <1>7, MinorStepFrame
  <1>8. CASE GameStep
    <2>1. ASSUME NEW s \in Sessions,
                 \/ GuildCreateReq(s) \/ PartyCall(s)
                 \/ \E g \in DOMAIN guilds : GuildJoinReq(s, g) \/ GuildLeaveReq(s, g)
          PROVE  Dungeons'
      BY <1>2, <2>1
         DEF GuildCreateReq, GuildJoinReq, GuildLeaveReq, PartyCall, accountVars
    <2>2. ASSUME NEW s \in Sessions, NEW p \in DOMAIN parties, MatchReq(s, p)
          PROVE  Dungeons'
      BY <2>2, MatchReqDungeons
    <2>3. ASSUME NEW s \in Sessions, NEW i \in DOMAIN instances, NEW c \in Characters,
                 DungeonEnterReq(s, i, c)
          PROVE  Dungeons'
      BY <2>3, DungeonEnterDungeons
    <2>4. ASSUME NEW s \in Sessions, NEW result \in {"Clear", "Fail"},
                 NEW items \in RewardLists, DungeonResultNotify(s, result, items)
          PROVE  Dungeons'
      BY <2>4, DungeonResultDungeons
    <2>5. ASSUME NEW i \in DOMAIN instances, InstanceCall(i)
          PROVE  Dungeons'
      BY <2>5, InstanceCallDungeons
    <2> QED
      BY <1>8, <2>1, <2>2, <2>3, <2>4, <2>5 DEF GameStep
  <1>9. CASE UNCHANGED vars
    BY <1>2, <1>9 DEF vars, accountVars
  <1> QED
    BY <1>3, <1>4, <1>5, <1>6, <1>7, <1>8, <1>9, ServerSteps

(* The invariant is inductive. *)
LEMMA ServerNextInv == ServerInv /\ [ServerNext]_vars => ServerInv'
  BY GroupEffects, PartyEffectKeeps, GuildEffectKeeps, AccountsStep, DungeonsStep
     DEF ServerInv

(* The freshly constructed server satisfies the invariant. *)
LEMMA ServerInitInv == ServerInit => ServerInv
  BY PartyInitInv, GuildInitInv, AccountsInit, DungeonsInit DEF ServerInit, ServerInv

(* What the invariant says about the properties of the runs. *)
LEMMA ServerInvImplies ==
    ASSUME ServerInv
    PROVE  ServerTypeOK /\ RegistryInverse /\ RewardAccounting
  <1>1. ServerTypeOK
    BY DEF ServerInv, Accounts, Dungeons, Consistent, ServerTypeOK, InstanceRecords
  <1>2. RegistryInverse
    BY DEF ServerInv, Accounts, Consistent, RegistryInverse
  <1> QED
    BY <1>1, <1>2 DEF ServerInv, Dungeons

-----------------------------------------------------------------------------
(* What holds of the server in every environment: late packets of dropped    *)
(* sessions and takeovers by sessions that have seats of their own included. *)

(* The inductive invariant holds in every reachable state. *)
THEOREM ServerInvariant == ServerSpec => []ServerInv
  BY ServerInitInv, ServerNextInv, PTL DEF ServerSpec

(* The fields of Server always hold what server.h declares. *)
THEOREM ServerTypeCorrect == ServerSpec => []ServerTypeOK
  BY ServerInvariant, ServerInvImplies, PTL

(* records_ and active_users_ of the registry are always inverse to each     *)
(* other: unregisterSession and registerSession keep each other's tables.    *)
THEOREM ServerRegistryInverse == ServerSpec => []RegistryInverse
  BY ServerInvariant, ServerInvImplies, PTL

(* Nobody is paid twice for an instance and no payment is forgotten: the     *)
(* guard of DungeonResultNotify on instance_reward_grants_ suffices.         *)
THEOREM ServerRewardAccounting == ServerSpec => []RewardAccounting
  BY ServerInvariant, ServerInvImplies, PTL

(* The guild service keeps its tables under the calls the server makes.      *)
THEOREM ServerGuildTypes == ServerSpec => []GuildTypeOK
  BY ServerInvariant, PTL DEF ServerInv, GuildInv

(* Its index and its member tables agree.                                    *)
THEOREM ServerGuildIndex == ServerSpec => []GuildIndexMatches
  BY ServerInvariant, PTL DEF ServerInv, GuildInv

(* No removal and no takeover leaves a guild without its leader.             *)
THEOREM ServerGuildLeaders == ServerSpec => []GuildLeaderListed
  BY ServerInvariant, PTL DEF ServerInv, GuildInv

-----------------------------------------------------------------------------
(* What needs connections that stop sending once their session is dropped:   *)
(* contexts, instances and characters belong to live sessions.               *)

SilentInv ==
    /\ ContextMatchesRegistry
    /\ DOMAIN context \subseteq live
    /\ DOMAIN sessionInstances \subseteq live
    /\ DOMAIN sessionCharacters \subseteq live

(* What every step but a takeover does to the seats: the sessions that it    *)
(* ends lose theirs, and only sessions that are left get one.                *)
SeatsLetGo ==
    /\ DOMAIN memberIndex' \subseteq (DOMAIN memberIndex \cup live') \ (live \ live')
    /\ DOMAIN guildIndex' \subseteq (DOMAIN guildIndex \cup live') \ (live \ live')

(* Without late packets only live sessions send. *)
LEMMA SendersLive ==
    ASSUME ~LatePackets, NEW s, CanSend(s)
    PROVE  s \in live
  BY DEF CanSend

(* Then a registered session is live. *)
LEMMA RegisteredLive ==
    ASSUME ServerInv, SilentInv, NEW u, NEW s, NEW old \in OtherSessionOf(u, s)
    PROVE  /\ old \in live /\ old # s
           /\ u \in DOMAIN registry.activeUsers /\ old = registry.activeUsers[u]
  <1>1. /\ old # s /\ u \in DOMAIN registry.activeUsers
        /\ old = registry.activeUsers[u]
    BY DEF OtherSessionOf
  <1>2. old \in DOMAIN registry.records
    BY <1>1, ServerInvImplies DEF RegistryInverse
  <1> QED
    BY <1>1, <1>2 DEF SilentInv, ContextMatchesRegistry

(* removeSession clears every table. *)
LEMMA RemoveSessionsSilent ==
    ASSUME SilentInv, NEW S, RemoveSessions(S)
    PROVE  SilentInv' /\ SeatsLetGo
  <1>1. /\ live' = live \ S /\ context' = Without(context, S)
        /\ registry' = UnregisterSessions(registry, S)
        /\ RemoveMembers(S) /\ RemoveGuildMembers(S)
        /\ sessionInstances' = Without(sessionInstances, S)
        /\ sessionCharacters' = Without(sessionCharacters, S)
    BY DEF RemoveSessions
  <1>2. ContextMatchesRegistry'
    <2>1. registry'.records = Without(registry.records, S)
      BY <1>1 DEF UnregisterSessions
    <2> QED
      BY <1>1, <2>1 DEF SilentInv, ContextMatchesRegistry
  <1>3. /\ DOMAIN context' = DOMAIN context \ S
        /\ DOMAIN sessionInstances' = DOMAIN sessionInstances \ S
        /\ DOMAIN sessionCharacters' = DOMAIN sessionCharacters \ S
    BY <1>1 DEF Without, Restrict
  <1>4. DOMAIN memberIndex' \subseteq DOMAIN memberIndex \ S
    BY <1>1 DEF RemoveMembers, Without, Restrict
  <1>5. DOMAIN guildIndex' \subseteq DOMAIN guildIndex \ S
    BY <1>1 DEF RemoveGuildMembers, Without, Restrict
  <1>6. SilentInv'
    BY <1>1, <1>2, <1>3 DEF SilentInv
  <1>7. SeatsLetGo
    BY <1>1, <1>4, <1>5 DEF SeatsLetGo
  <1> QED
    BY <1>6, <1>7

(* Logins and logouts write the context and the registry together. *)
LEMMA LoginLogoutSilent ==
    ASSUME ServerInv, SilentInv, ~LatePackets, NEW s, NEW u,
           (u \in Users /\ LoginReq(s, u)) \/ LogoutReq(s)
    PROVE  SilentInv' /\ SeatsLetGo
  <1>1. UNCHANGED <<live, memberIndex, guildIndex, sessionInstances, sessionCharacters>>
    BY DEF LoginReq, LogoutReq, partyVars, guildVars, dungeonVars
  <1>2. s \in live
    BY SendersLive DEF LoginReq, LogoutReq
  <1>3. SeatsLetGo
    BY <1>1 DEF SeatsLetGo
  <1>4. CASE u \in Users /\ LoginReq(s, u)
    <2>1. context' = Put(context, s, u) /\ registry'.records = Put(registry.records, s, u)
      BY <1>4, SendersCreated, NoOtherSession, RegisterConsistent
         DEF LoginReq, ServerInv, Accounts
    <2>2. DOMAIN context' = DOMAIN context \cup {s}
      BY <2>1 DEF Put
    <2> QED
      BY <1>1, <1>2, <1>3, <2>1, <2>2 DEF SilentInv, ContextMatchesRegistry
  <1>5. CASE LogoutReq(s)
    <2>1. /\ context' = Without(context, {s})
          /\ registry'.records = Without(registry.records, {s})
      BY <1>5 DEF LogoutReq, UnregisterSessions
    <2>2. DOMAIN context' = DOMAIN context \ {s}
      BY <2>1 DEF Without, Restrict
    <2> QED
      BY <1>1, <1>3, <2>1, <2>2 DEF SilentInv, ContextMatchesRegistry
  <1> QED
    BY <1>4, <1>5

(* What a takeover does to the four tables. A seat that the new session has  *)
(* of its own keeps the old one's in place; otherwise nothing of the old     *)
(* session is left and the new one has what it had.                          *)
LEMMA TakeOverMoves ==
    ASSUME ServerInv, NEW old, NEW s \in created, old # s, TakeOver(old, s)
    PROVE  /\ live' = live \ {old}
           /\ DOMAIN memberIndex' \subseteq DOMAIN memberIndex \cup {s}
           /\ old \in DOMAIN memberIndex' => s \in DOMAIN memberIndex
           /\ DOMAIN guildIndex' \subseteq DOMAIN guildIndex \cup {s}
           /\ old \in DOMAIN guildIndex' => s \in DOMAIN guildIndex
           /\ SameSeat(memberIndex, old, memberIndex', s)
           /\ SameSeat(guildIndex, old, guildIndex', s)
           /\ SameEntry(sessionInstances, old, sessionInstances', s)
           /\ SameEntry(sessionCharacters, old, sessionCharacters', s)
  <1>1. live' = live \ {old}
    BY DEF TakeOver
  <1>2. /\ DOMAIN memberIndex' \subseteq DOMAIN memberIndex \cup {s}
        /\ old \in DOMAIN memberIndex' => s \in DOMAIN memberIndex
        /\ SameSeat(memberIndex, old, memberIndex', s)
    <2>1. CASE ReplaceMemberSession(old, s)
      <3>1. /\ old \in DOMAIN memberIndex /\ s \notin DOMAIN memberIndex
            /\ memberIndex' = Put(Without(memberIndex, {old}), s, memberIndex[old])
        BY <2>1 DEF ReplaceMemberSession, PartyReplaceable
      <3>2. /\ DOMAIN memberIndex' = (DOMAIN memberIndex \ {old}) \cup {s}
            /\ memberIndex'[s] = memberIndex[old]
        BY <3>1 DEF Put, Without, Restrict
      <3> QED
        BY <3>1, <3>2 DEF SameSeat, SameEntry
    <2>2. CASE ~PartyReplaceable(old, s) /\ UNCHANGED partyVars
      <3>1. old \in DOMAIN memberIndex => s \in DOMAIN memberIndex
        BY <2>2 DEF PartyReplaceable
      <3> QED
        BY <2>2, <3>1 DEF SameSeat, SameEntry, partyVars
    <2> QED
      BY <2>1, <2>2 DEF TakeOver
  <1>3. /\ DOMAIN guildIndex' \subseteq DOMAIN guildIndex \cup {s}
        /\ old \in DOMAIN guildIndex' => s \in DOMAIN guildIndex
        /\ SameSeat(guildIndex, old, guildIndex', s)
    <2>1. CASE ReplaceGuildSession(old, s)
      <3>1. /\ old \in DOMAIN guildIndex /\ s \notin DOMAIN guildIndex
            /\ guildIndex' = Put(Without(guildIndex, {old}), s, guildIndex[old])
        BY <2>1 DEF ReplaceGuildSession, GuildReplaceable
      <3>2. /\ DOMAIN guildIndex' = (DOMAIN guildIndex \ {old}) \cup {s}
            /\ guildIndex'[s] = guildIndex[old]
        BY <3>1 DEF Put, Without, Restrict
      <3> QED
        BY <3>1, <3>2 DEF SameSeat, SameEntry
    <2>2. CASE ~GuildReplaceable(old, s) /\ UNCHANGED guildVars
      <3>1. old \in DOMAIN guildIndex => s \in DOMAIN guildIndex
        BY <2>2 DEF GuildReplaceable
      <3> QED
        BY <2>2, <3>1 DEF SameSeat, SameEntry, guildVars
    <2> QED
      BY <2>1, <2>2 DEF TakeOver
  <1>4. /\ sessionInstances' = MoveEntry(sessionInstances, old, s)
        /\ sessionCharacters' = MoveEntry(sessionCharacters, old, s)
    BY DEF TakeOver
  <1>5. SameEntry(sessionInstances, old, sessionInstances', s)
    BY <1>4, MapMoveEntry DEF ServerInv, Dungeons
  <1>6. SameEntry(sessionCharacters, old, sessionCharacters', s)
    BY <1>4, MapMoveEntry DEF ServerInv, Dungeons
  <1> QED
    BY <1>1, <1>2, <1>3, <1>5, <1>6

(* A session that a reconnect ends is taken over by the session it came from. *)
LEMMA ReconnectTakesOver ==
    ASSUME ServerInv, NEW s, NEW u \in Users, SessionReconnectReq(s, u), s \in live,
           NEW old \in OtherSessionOf(u, s) \cap live, live' = live \ {old}
    PROVE  TakenOverBy(old, s)
  <1>1. /\ old # s /\ u \in DOMAIN registry.activeUsers
        /\ old = registry.activeUsers[u]
    BY DEF OtherSessionOf
  <1>2. old \in DOMAIN registry.records /\ registry.records[old] = u
    BY <1>1, ServerInvImplies DEF RegistryInverse
  <1>3. s \in created
    BY SendersCreated DEF SessionReconnectReq, ServerInv
  <1>4. registry'.records = Put(Without(registry.records, OtherSessionOf(u, s)), s, u)
    BY <1>3, ReconnectRegistry DEF SessionReconnectReq, ServerInv
  <1>5. s \in DOMAIN registry'.records /\ registry'.records[s] = u
    BY <1>4 DEF Put
  <1> QED
    BY <1>1, <1>2, <1>5 DEF TakenOverBy

(* The seats of sessions that are gone, in the steps that are no takeovers. *)
LEMMA SeatsLeft ==
    ASSUME SeatsLetGo, NEW s \in Sessions \ live'
    PROVE  SeatLeft(memberIndex, memberIndex', s) /\ SeatLeft(guildIndex, guildIndex', s)
  BY DEF SeatsLetGo, SeatLeft

(* SessionReconnectReq: the old session leaves the server's own tables,      *)
(* whatever becomes of its seats.                                            *)
LEMMA ReconnectSilent ==
    ASSUME ServerInv, SilentInv, ~LatePackets,
           NEW s, NEW u \in Users, SessionReconnectReq(s, u)
    PROVE  SilentInv'
  <1>1. /\ s \in created /\ s \in live
        /\ registry' = RegisterSession(
                         UnregisterSessions(registry, OtherSessionOf(u, s)), s, u)
    BY SendersCreated, SendersLive DEF SessionReconnectReq, ServerInv
  <1>2. registry'.records = Put(Without(registry.records, OtherSessionOf(u, s)), s, u)
    BY <1>1, ReconnectRegistry DEF ServerInv
  <1>3. \/ /\ OtherSessionOf(u, s) = {}
           /\ context' = Put(context, s, u)
           /\ UNCHANGED <<live, sessionInstances, sessionCharacters>>
        \/ \E old \in OtherSessionOf(u, s) :
             TakeOver(old, s) /\ context' = Put(Without(context, {old}), s, u)
    BY RegisteredLive DEF SessionReconnectReq
  <1>4. CASE /\ OtherSessionOf(u, s) = {}
             /\ context' = Put(context, s, u)
             /\ UNCHANGED <<live, sessionInstances, sessionCharacters>>
    <2>1. Without(registry.records, {}) = registry.records
      BY DEF ServerInv, Accounts, Consistent, IsMap, Without, Restrict
    <2>2. DOMAIN context' = DOMAIN context \cup {s}
      BY <1>4 DEF Put
    <2> QED
      BY <1>1, <1>2, <1>4, <2>1, <2>2 DEF SilentInv, ContextMatchesRegistry
  <1>5. ASSUME NEW old \in OtherSessionOf(u, s), TakeOver(old, s),
               context' = Put(Without(context, {old}), s, u)
        PROVE  SilentInv'
    <2>1. OtherSessionOf(u, s) = {old} /\ old # s
      BY RegisteredLive
    <2>2. ContextMatchesRegistry'
      BY <1>2, <1>5, <2>1 DEF SilentInv, ContextMatchesRegistry
    <2>3. DOMAIN context' = (DOMAIN context \ {old}) \cup {s}
      BY <1>5 DEF Put, Without, Restrict
    <2>4. /\ live' = live \ {old}
          /\ sessionInstances' = MoveEntry(sessionInstances, old, s)
          /\ sessionCharacters' = MoveEntry(sessionCharacters, old, s)
      BY <1>5 DEF TakeOver
    <2>5. DOMAIN sessionInstances' \subseteq (DOMAIN sessionInstances \ {old}) \cup {s}
      BY <1>1, <2>4, MapMoveEntry DEF ServerInv, Dungeons
    <2>6. DOMAIN sessionCharacters' \subseteq (DOMAIN sessionCharacters \ {old}) \cup {s}
      BY <1>1, <2>4, MapMoveEntry DEF ServerInv, Dungeons
    <2> QED
      BY <1>1, <2>1, <2>2, <2>3, <2>4, <2>5, <2>6 DEF SilentInv
  <1> QED
    BY <1>3, <1>4, <1>5

(* The old session's seat is left behind only where the new one has its own. *)
LEMMA ReconnectSeats ==
    ASSUME ServerInv, SilentInv, ~LatePackets,
           NEW s, NEW u \in Users, SessionReconnectReq(s, u), NEW t \in Sessions \ live'
    PROVE  SeatLeft(memberIndex, memberIndex', t) /\ SeatLeft(guildIndex, guildIndex', t)
  <1>1. s \in created /\ s \in live
    BY SendersCreated, SendersLive DEF SessionReconnectReq, ServerInv
  <1>2. CASE UNCHANGED <<live, partyVars, guildVars>>
    BY <1>2, SeatsLeft DEF SeatsLetGo, partyVars, guildVars
  <1>3. ASSUME NEW old \in OtherSessionOf(u, s) \cap live, TakeOver(old, s)
        PROVE  SeatLeft(memberIndex, memberIndex', t) /\ SeatLeft(guildIndex, guildIndex', t)
    <2>1. old # s
      BY RegisteredLive
    <2>2. /\ live' = live \ {old}
          /\ DOMAIN memberIndex' \subseteq DOMAIN memberIndex \cup {s}
          /\ old \in DOMAIN memberIndex' => s \in DOMAIN memberIndex
          /\ DOMAIN guildIndex' \subseteq DOMAIN guildIndex \cup {s}
          /\ old \in DOMAIN guildIndex' => s \in DOMAIN guildIndex
      BY <1>1, <1>3, <2>1, TakeOverMoves
    <2>3. TakenOverBy(old, s)
      BY <1>1, <2>2, ReconnectTakesOver
    <2>4. t # s /\ (t \in live => t = old)
      BY <1>1, <2>1, <2>2
    <2> QED
      BY <2>2, <2>3, <2>4 DEF SeatLeft
  <1> QED
    BY <1>2, <1>3 DEF SessionReconnectReq

(* The other handlers give seats, instances and characters to live sessions  *)
(* only.                                                                     *)
LEMMA GameStepSilent ==
    ASSUME SilentInv, ~LatePackets, GameStep
    PROVE  SilentInv' /\ SeatsLetGo
  <1>1. UNCHANGED <<created, live, context, registry>>
    BY GameStepFrame DEF accountVars
  <1>2. ContextMatchesRegistry' /\ DOMAIN context' \subseteq live'
    BY <1>1 DEF SilentInv, ContextMatchesRegistry
  <1> DEFINE MoreSeats == /\ DOMAIN memberIndex' \subseteq DOMAIN memberIndex \cup live
                          /\ DOMAIN guildIndex' \subseteq DOMAIN guildIndex \cup live
             MoreEntries ==
                 /\ DOMAIN sessionInstances' \subseteq DOMAIN sessionInstances \cup live
                 /\ DOMAIN sessionCharacters' \subseteq DOMAIN sessionCharacters \cup live
  <1> SUFFICES MoreSeats /\ MoreEntries
    BY <1>1, <1>2 DEF SilentInv, SeatsLetGo
  <1>3. ASSUME NEW s, PartyCall(s)
        PROVE  MoreSeats /\ MoreEntries
    <2>1. s \in live /\ UNCHANGED <<guildVars, dungeonVars>>
      BY <1>3 DEF PartyCall
    <2>2. DOMAIN memberIndex' \subseteq DOMAIN memberIndex \cup {s}
      BY <1>3 DEF PartyCall, CreateParty, InviteMember, AcceptInvite, RejectInvite,
                  DisbandParty, RemoveMember, RemoveMembers, Put, Without, Restrict
    <2> QED
      BY <2>1, <2>2 DEF guildVars, dungeonVars
  <1>4. ASSUME NEW s,
               \/ GuildCreateReq(s)
               \/ \E g \in DOMAIN guilds : GuildJoinReq(s, g) \/ GuildLeaveReq(s, g)
        PROVE  MoreSeats /\ MoreEntries
    <2>1. s \in live /\ UNCHANGED <<partyVars, dungeonVars>>
      BY <1>4, SendersLive DEF GuildCreateReq, GuildJoinReq, GuildLeaveReq, Authenticated
    <2>2. DOMAIN guildIndex' \subseteq DOMAIN guildIndex \cup {s}
      BY <1>4 DEF GuildCreateReq, GuildJoinReq, GuildLeaveReq,
                  CreateGuild, JoinGuild, LeaveGuild, Put, Without, Restrict
    <2> QED
      BY <2>1, <2>2 DEF partyVars, dungeonVars
  <1>5. ASSUME NEW s, NEW p, MatchReq(s, p)
        PROVE  MoreSeats /\ MoreEntries
    <2>1. DOMAIN sessionInstances' \subseteq DOMAIN sessionInstances \cup live
      BY <1>5 DEF MatchReq
    <2>2. UNCHANGED <<partyVars, guildVars, sessionCharacters>>
      BY <1>5 DEF MatchReq
    <2> QED
      BY <2>1, <2>2 DEF partyVars, guildVars
  <1>6. ASSUME NEW s, NEW i, NEW c, DungeonEnterReq(s, i, c)
        PROVE  MoreSeats /\ MoreEntries
    <2>1. s \in live /\ UNCHANGED <<partyVars, guildVars>>
      BY <1>6, SendersLive DEF DungeonEnterReq, Authenticated
    <2>2. /\ DOMAIN sessionInstances' = DOMAIN sessionInstances \cup {s}
          /\ DOMAIN sessionCharacters' = DOMAIN sessionCharacters \cup {s}
      BY <1>6 DEF DungeonEnterReq, Put
    <2> QED
      BY <2>1, <2>2 DEF partyVars, guildVars
  <1>7. CASE UNCHANGED <<partyVars, guildVars, sessionInstances, sessionCharacters>>
    BY <1>7 DEF partyVars, guildVars
  <1> HIDE DEF MoreSeats, MoreEntries
  <1> QED
    BY <1>3, <1>4, <1>5, <1>6, <1>7 DEF GameStep, DungeonResultNotify, InstanceCall

(* While dropped connections are silent every step keeps the invariant, and  *)
(* clears up after the sessions it ends.                                     *)
LEMMA SilentStep ==
    ASSUME ServerInv, SilentInv, ~LatePackets, [ServerNext]_vars
    PROVE  SilentInv' /\ CleanupStep
  <1> DEFINE SeatsDone == \A t \in Sessions \ live' :
                            /\ SeatLeft(memberIndex, memberIndex', t)
                            /\ SeatLeft(guildIndex, guildIndex', t)
             Kept == SilentInv' /\ SeatsDone
  <1> SUFFICES Kept
    BY DEF CleanupStep, SilentInv
  <1>0. SeatsLetGo => SeatsDone
    BY SeatsLeft
  <1>1. ASSUME NEW S, RemoveSessions(S)
        PROVE  Kept
    BY <1>0, <1>1, RemoveSessionsSilent
  <1>2. ASSUME NEW s \in Sessions, CreateSession(s)
        PROVE  Kept
    <2>1. SilentInv' /\ SeatsLetGo
      BY <1>2 DEF CreateSession, SilentInv, SeatsLetGo, ContextMatchesRegistry,
                  partyVars, guildVars, dungeonVars
    <2> QED
      BY <1>0, <2>1
  <1>3. ASSUME NEW s \in Sessions, LogoutReq(s)
        PROVE  Kept
    BY <1>0, <1>3, LoginLogoutSilent
  <1>4. ASSUME NEW s \in Sessions, NEW u \in Users, LoginReq(s, u)
        PROVE  Kept
    BY <1>0, <1>4, LoginLogoutSilent
  <1>5. ASSUME NEW s \in Sessions, NEW u \in Users, SessionReconnectReq(s, u)
        PROVE  Kept
    BY <1>5, ReconnectSilent, ReconnectSeats
  <1>6. CASE MinorStep
    <2>1. SilentInv' /\ SeatsLetGo
      BY <1>6, MinorStepFrame DEF SilentInv, SeatsLetGo, ContextMatchesRegistry,
                  partyVars, guildVars, dungeonVars
    <2> QED
      BY <1>0, <2>1
  <1>7. CASE GameStep
    BY <1>0, <1>7, GameStepSilent
  <1>8. CASE UNCHANGED vars
    <2>1. SilentInv' /\ SeatsLetGo
      BY <1>8 DEF vars, accountVars, SilentInv, SeatsLetGo, ContextMatchesRegistry,
                  partyVars, guildVars, dungeonVars
    <2> QED
      BY <1>0, <2>1
  <1> HIDE DEF Kept
  <1> QED
    BY <1>1, <1>2, <1>3, <1>4, <1>5, <1>6, <1>7, <1>8, ServerSteps

(* No session registered for u remains that is not the one registered last. *)
LEMMA OneRegistration ==
    ASSUME NEW reg, NEW C, Consistent(reg, C),
           NEW s \in DOMAIN reg.records, NEW t \in DOMAIN reg.records,
           reg.records[s] = reg.records[t]
    PROVE  s = t
  BY DEF Consistent

(* A session that ends in a step and whose user has a session afterwards was *)
(* taken over, and the new session is where it was.                          *)
LEMMA TakeoverStepHolds ==
    ASSUME ServerInv, [ServerNext]_vars
    PROVE  TakeoverStep
  <1>1. CASE live \subseteq live'
    BY <1>1 DEF TakeoverStep
  <1>2. ASSUME NEW S, RemoveSessions(S)
        PROVE  TakeoverStep
    <2> SUFFICES ASSUME NEW old \in live \ live', NEW new \in live',
                        old \in DOMAIN registry.records,
                        new \in DOMAIN registry'.records,
                        registry.records[old] = registry'.records[new]
                 PROVE  FALSE
      BY DEF TakeoverStep, TakenOverBy
    <2>1. live' = live \ S /\ registry' = UnregisterSessions(registry, S)
      BY <1>2 DEF RemoveSessions
    <2>2. /\ new \in DOMAIN registry.records
          /\ registry'.records[new] = registry.records[new]
      BY <2>1, UnregisterConsistent DEF ServerInv, Accounts
    <2>3. new = old
      BY <2>2, OneRegistration DEF ServerInv, Accounts
    <2> QED
      BY <2>3
  <1>3. ASSUME NEW s \in Sessions, NEW u \in Users, SessionReconnectReq(s, u)
        PROVE  TakeoverStep
    <2>1. CASE UNCHANGED live
      BY <1>1, <2>1
    <2>2. ASSUME NEW o \in OtherSessionOf(u, s), TakeOver(o, s)
          PROVE  TakeoverStep
      <3> SUFFICES ASSUME NEW old \in live \ live', NEW new \in live',
                          old \in DOMAIN registry.records,
                          new \in DOMAIN registry'.records,
                          registry.records[old] = registry'.records[new]
                   PROVE  /\ SameSeat(memberIndex, old, memberIndex', new)
                          /\ SameSeat(guildIndex, old, guildIndex', new)
                          /\ SameEntry(sessionInstances, old, sessionInstances', new)
                          /\ SameEntry(sessionCharacters, old, sessionCharacters', new)
        BY DEF TakeoverStep, TakenOverBy
      <3>1. /\ o # s /\ u \in DOMAIN registry.activeUsers /\ o = registry.activeUsers[u]
        BY DEF OtherSessionOf
      <3>2. registry.records[o] = u
        BY <3>1 DEF ServerInv, Accounts, Consistent
      <3>3. old = o
        BY <2>2 DEF TakeOver
      <3>4. s \in created
        BY <1>3, SendersCreated DEF SessionReconnectReq, ServerInv
      <3>5. /\ Consistent(registry', created)
            /\ registry'.records
                 = Put(Without(registry.records, OtherSessionOf(u, s)), s, u)
        BY <1>3, <3>4, ReconnectRegistry DEF SessionReconnectReq, ServerInv
      <3>6. s \in DOMAIN registry'.records /\ registry'.records[s] = u
        BY <3>5 DEF Put
      <3>7. new = s
        BY <3>2, <3>3, <3>5, <3>6, OneRegistration
      <3> QED
        BY <2>2, <3>1, <3>3, <3>4, <3>7, TakeOverMoves
    <2> QED
      BY <1>3, <2>1, <2>2 DEF SessionReconnectReq
  <1>4. CASE UNCHANGED live
    BY <1>1, <1>4
  <1>5. ASSUME NEW s \in Sessions, CreateSession(s) \/ LogoutReq(s)
        PROVE  TakeoverStep
    BY <1>1, <1>5 DEF CreateSession, LogoutReq
  <1>6. ASSUME NEW s \in Sessions, NEW u \in Users, LoginReq(s, u)
        PROVE  TakeoverStep
    BY <1>4, <1>6 DEF LoginReq
  <1>7. CASE GameStep
    BY <1>4, <1>7, GameStepFrame DEF accountVars
  <1>8. CASE MinorStep
    BY <1>4, <1>8, MinorStepFrame
  <1>9. CASE UNCHANGED vars
    BY <1>4, <1>9 DEF vars, accountVars
  <1> QED
    BY <1>2, <1>3, <1>5, <1>6, <1>7, <1>8, <1>9, ServerSteps

(* Contexts, instances and characters belong to live sessions, and contexts  *)
(* are the registry's, as long as dropped connections are silent.            *)
THEOREM SilentInvariant ==
    ASSUME ~LatePackets
    PROVE  ServerSpec => []SilentInv
  <1>1. ServerInit => SilentInv
    BY DEF ServerInit, SilentInv, ContextMatchesRegistry, EmptyMap
  <1>2. ServerInv /\ SilentInv /\ [ServerNext]_vars => SilentInv'
    BY SilentStep
  <1> QED
    BY <1>1, <1>2, ServerInvariant, PTL DEF ServerSpec

(* The user that handlers read from the session object is the user the       *)
(* registry has for it: setUserContext, clearUserContext and the registry    *)
(* are always changed together, also by a takeover that leaves a seat behind. *)
THEOREM ServerContexts ==
    ASSUME ~LatePackets
    PROVE  ServerSpec => []ContextMatchesRegistry
  BY SilentInvariant, PTL DEF SilentInv

(* The check of LoginReq against the registry and the takeover of            *)
(* SessionReconnectReq leave a user with one session.                        *)
THEOREM ServerOneSession ==
    ASSUME ~LatePackets
    PROVE  ServerSpec => []OneSessionPerUser
  <1>1. ServerInv /\ SilentInv => OneSessionPerUser
    BY OneRegistration
       DEF ServerInv, Accounts, SilentInv, ContextMatchesRegistry, OneSessionPerUser
  <1> QED
    BY <1>1, ServerInvariant, SilentInvariant, PTL

(* While dropped connections are silent, a session that removeSession or a   *)
(* takeover ends has no user, instance or character any more and gets none   *)
(* back; nor a seat in a party or a guild, unless the session that took it   *)
(* over had a seat there before. Invites sent to it are not covered: they    *)
(* stay in the party until they lapse.                                       *)
THEOREM ServerCleansUp ==
    ASSUME ~LatePackets
    PROVE  ServerSpec => EndedSessionsLetGo
  <1>1. ServerInv /\ SilentInv /\ [ServerNext]_vars => [CleanupStep]_vars
    BY SilentStep
  <1> QED
    BY <1>1, ServerInvariant, SilentInvariant, PTL DEF ServerSpec, EndedSessionsLetGo

(* SessionReconnectReq hands instance and character of the old session to    *)
(* the new one, and its party and guild where the new one has none of its    *)
(* own; late packets of dropped sessions do not interfere.                   *)
THEOREM ServerTakeovers == ServerSpec => TakeoverKeepsProgress
  <1>1. ServerInv /\ [ServerNext]_vars => [TakeoverStep]_vars
    BY TakeoverStepHolds
  <1> QED
    BY <1>1, ServerInvariant, PTL DEF ServerSpec, TakeoverKeepsProgress

(* The server's calls keep the party service's promise about who may enter.  *)
THEOREM ServerJoinByConsent == ServerSpec => JoinByConsent
  <1>1. ServerInv /\ [ServerNext]_vars => [JoinStep]_partyVars
    BY GroupEffects, PartyEffectKeeps DEF ServerInv
  <1> QED
    BY <1>1, ServerInvariant, PTL DEF ServerSpec, JoinByConsent

(* The lead of a party stays with its user through the server's takeovers    *)
(* and removals too.                                                         *)
THEOREM ServerLeadership == ServerSpec => LeadershipFollowsUser
  <1>1. ServerInv /\ [ServerNext]_vars => [LeadershipStep]_partyVars
    BY GroupEffects, PartyEffectKeeps DEF ServerInv
  <1> QED
    BY <1>1, ServerInvariant, PTL DEF ServerSpec, LeadershipFollowsUser
=============================================================================
