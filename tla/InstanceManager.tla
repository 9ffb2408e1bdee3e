-------------------------- MODULE InstanceManager --------------------------
(***************************************************************************)
(* dungeon/instance_manager.cpp: dungeon instances and their life cycle.   *)
(* The manager asks the party service about the party of an instance.      *)
(***************************************************************************)
EXTENDS PartyService

CONSTANT MaxInstances  \* bound on next_instance_id_

ASSUME InstanceConstants == MaxInstances \in Nat

VARIABLES
    instances,      \* instances_: instance id -> party and state
    nextInstanceId  \* next_instance_id_

instanceVars == <<instances, nextInstanceId>>

InstanceStates == {"Waiting", "Ready", "Playing", "Clear", "Fail", "Terminate"}
Finished == {"Clear", "Fail", "Terminate"}

InstanceInit == instances = EmptyMap /\ nextInstanceId = 1

CreateInstance(p) ==
    /\ p \in DOMAIN parties
    /\ nextInstanceId <= MaxInstances
    /\ instances' = Put(instances, nextInstanceId, [party |-> p, state |-> "Waiting"])
    /\ nextInstanceId' = nextInstanceId + 1

(* Once a party is gone its instances can only be ended. *)
IsPartyReady(p) ==
    /\ p \in DOMAIN parties
    /\ parties[p].leader \in DOMAIN parties[p].members

TransitionAllowed(from, to) ==
    <<from, to>> \in {<<"Waiting", "Ready">>, <<"Ready", "Playing">>,
                      <<"Playing", "Clear">>, <<"Playing", "Fail">>}
                     \cup ((InstanceStates \ {"Terminate"}) \X {"Terminate"})

CanTransition(i, next) ==
    /\ i \in DOMAIN instances
    /\ instances[i].state # next
    /\ TransitionAllowed(instances[i].state, next)
    /\ next \in {"Ready", "Playing"} => IsPartyReady(instances[i].party)

RequestTransition(i, next) ==
    /\ CanTransition(i, next)
    /\ instances' = [instances EXCEPT ![i].state = next]
    /\ UNCHANGED nextInstanceId

TerminateInstance(i) ==
    /\ i \in DOMAIN instances
    /\ instances' = [instances EXCEPT ![i].state = "Terminate"]
    /\ UNCHANGED nextInstanceId
=============================================================================
