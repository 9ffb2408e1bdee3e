--------------------------- MODULE InventoryStore ---------------------------
(***************************************************************************)
(* inventory/inventory_storage.h: what the server expects of its inventory *)
(* storage, whichever class implements it, and the storage operations that *)
(* InMemoryInventoryStorage and MySqlInventoryStorage share line by line.  *)
(* The change log, reasons and time stamps are left out.                   *)
(***************************************************************************)
EXTENDS Maps, Integers

CONSTANTS
    Inventories,        \* inventory ids (character ids)
    Items,              \* item ids
    StoredBefore,       \* inventories the storage already holds at the start
    QuantityMod,        \* quantities are unsigned: 2^32 in the code
    MaxTransactions,    \* bound on the transactions begun
    Threads             \* callers

Quantities == 1 .. QuantityMod - 1

-----------------------------------------------------------------------------
(* The operations of one storage on its map inventories_ *)

(* What the storage holds at the start: one of every item. *)
StoredAtStart == [i \in StoredBefore |-> [x \in Items |-> 1]]

ItemsOf(invs, i) == IF i \in DOMAIN invs THEN invs[i] ELSE EmptyMap

GetOrCreateInventory(invs, i) == Put(invs, i, ItemsOf(invs, i))

AddItem(invs, i, x, n) ==
    LET items == ItemsOf(invs, i)
        had == IF x \in DOMAIN items THEN items[x] ELSE 0
    IN  Put(invs, i, Put(items, x, (had + n) % QuantityMod))

CanRemove(invs, i, x, n) ==
    x \in DOMAIN ItemsOf(invs, i) /\ ItemsOf(invs, i)[x] >= n

RemoveItem(invs, i, x, n) ==
    LET items == ItemsOf(invs, i)
    IN  Put(invs, i, IF items[x] = n THEN Without(items, {x})
                                     ELSE Put(items, x, items[x] - n))

SetItem(invs, i, x, n) ==
    Put(invs, i, IF n = 0 THEN Without(ItemsOf(invs, i), {x})
                          ELSE Put(ItemsOf(invs, i), x, n))

-----------------------------------------------------------------------------
(* The abstract store: what loadInventory answers for every inventory, what  *)
(* it answered when each open transaction began, and the calls under way.    *)

VARIABLES store, saved, calls

storeVars == <<store, saved, calls>>

Calls ==
    [step : {"add", "remove", "save"}, inv : Inventories, item : Items, n : Quantities]
        \cup [step : {"set"}, inv : Inventories, item : Items, n : Quantities \cup {0}]
        \cup [step : {"load"}, inv : Inventories]

(* Stands for a call that has had its effect and is yet to return. *)
Done == [step |-> "done"]

StoreInit ==
    /\ store = [i \in Inventories |-> ItemsOf(StoredAtStart, i)]
    /\ saved = EmptyMap /\ calls = EmptyMap

TakeEffect(call) ==
    \/ call.step = "add" /\ store' = AddItem(store, call.inv, call.item, call.n)
    \/ /\ call.step = "remove"
       /\ CanRemove(store, call.inv, call.item, call.n)
       /\ store' = RemoveItem(store, call.inv, call.item, call.n)
    \/ call.step = "set" /\ store' = SetItem(store, call.inv, call.item, call.n)
    \/ /\ call.step = "save"
       /\ store' = [store EXCEPT ![call.inv] = Put(EmptyMap, call.item, call.n)]
    \/ call.step = "load" /\ UNCHANGED store

(* A call has its effect once: when it begins or when it returns. *)
StoreCall(t, call) ==
    /\ t \notin DOMAIN calls
    /\ \/ UNCHANGED store /\ calls' = Put(calls, t, call)
       \/ TakeEffect(call) /\ calls' = Put(calls, t, Done)
    /\ UNCHANGED saved

StoreReturn(t) ==
    /\ t \in DOMAIN calls
    /\ \/ calls[t] = Done /\ UNCHANGED store
       \/ calls[t] # Done /\ TakeEffect(calls[t])
    /\ calls' = Without(calls, {t})
    /\ UNCHANGED saved

StoreBegin(tx) ==
    /\ tx \notin DOMAIN saved
    /\ saved' = Put(saved, tx, store)
    /\ UNCHANGED <<store, calls>>

StoreEnd(tx) ==
    /\ tx \in DOMAIN saved
    /\ saved' = Without(saved, {tx})
    /\ UNCHANGED store \/ store' = saved[tx]
    /\ UNCHANGED calls

StoreNext ==
    \/ \E t \in Threads : StoreReturn(t) \/ \E call \in Calls : StoreCall(t, call)
    \/ \E tx \in 1 .. MaxTransactions : StoreBegin(tx) \/ StoreEnd(tx)

StoreSpec == StoreInit /\ [][StoreNext]_storeVars
=============================================================================
