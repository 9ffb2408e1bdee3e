-------------------------- MODULE CachedInventory --------------------------
(***************************************************************************)
(* inventory/cached_inventory_storage.cpp over two plain storages. Each of *)
(* these locks its own mutex for one operation; the cached storage has no  *)
(* lock, so a call is one step on the persistent storage followed by its   *)
(* steps on the cache, and the steps of calls from several threads         *)
(* interleave. Its table of transactions is not locked either: they are    *)
(* begun and ended only while no call is under way.                        *)
(***************************************************************************)
EXTENDS Maps, Integers, FiniteSets

CONSTANTS
    Inventories, Items, StoredBefore, QuantityMod, MaxTransactions, Threads,
                    \* as in InventoryStore
    MaxAstray       \* bound on the inventories that go astray

ASSUME InventoryConstants ==
    /\ StoredBefore \subseteq Inventories
    /\ QuantityMod \in Nat \ {0, 1} /\ MaxTransactions \in Nat /\ MaxAstray \in Nat

VARIABLES
    persistent,     \* inventories_ of the persistent storage
    cache,          \* inventories_ of the cache
    transactions,   \* transactions_ and the snapshots of both storages
    nextTransactionId,
    pending,        \* thread -> what is left of its call
    astray          \* inventories that met what the storages do not guard against

storages == <<persistent, cache>>
inventoryVars == <<storages, transactions, nextTransactionId, pending, astray>>

(* Inventories a call under way is copying from persistent storage to cache. *)
Copying == {pending[t].inv : t \in {u \in DOMAIN pending : pending[u].step \in {"read", "fill"}}}

(* What loadInventory answers with the storages p and c: the cache's answer, *)
(* except for inventories in S and those the cache does not hold.            *)
Visible(p, c, S) ==
    [i \in Inventories |-> IF i \in DOMAIN c \ S THEN c[i]
                           ELSE IF i \in DOMAIN p THEN p[i] ELSE EmptyMap]

(* The cached storage as one store. A change of an inventory that is not     *)
(* cached shows at the call's step on the persistent storage, one of an      *)
(* inventory that is cached at its step on the cache.                        *)
Store == INSTANCE InventoryStore WITH
    store <- Visible(persistent, cache, Copying),
    calls <- [t \in DOMAIN pending |->
                IF pending[t].step \in {"read", "fill"} \/ pending[t].inv \notin DOMAIN cache
                THEN [step |-> "done"] ELSE pending[t]],
    saved <- [tx \in DOMAIN transactions |->
                Visible(transactions[tx].persistent, transactions[tx].cache, {})]

-----------------------------------------------------------------------------
InventoryInit ==
    /\ persistent = Store!StoredAtStart /\ cache = EmptyMap
    /\ transactions = EmptyMap /\ nextTransactionId = 1
    /\ pending = EmptyMap /\ astray = {}

(* Both storages end alike whichever of the two adds each meets first; no    *)
(* other pair of calls is counted on to commute.                             *)
Commute(a, b) == a.step = "add" /\ b.step = "add"

(* The change makes a cached copy that lacks what was stored before. *)
Cold(call) ==
    /\ call.step \in {"add", "set"}
    /\ call.inv \notin DOMAIN cache
    /\ Store!ItemsOf(persistent, call.inv) # EmptyMap

Then(t, rest) == pending' = Put(pending, t, rest)

Begin(t, call) ==
    /\ Then(t, call)
    /\ astray' = IF \/ Cold(call)
                    \/ \E u \in DOMAIN pending :
                          pending[u].inv = call.inv /\ ~Commute(pending[u], call)
                 THEN astray \cup {call.inv} ELSE astray
    /\ Cardinality(astray') <= MaxAstray

Return(t) == pending' = Without(pending, {t})

(* Calls begin with their step on the persistent storage *)

CallAddItem(t, i, x, n) ==
    /\ t \notin DOMAIN pending
    /\ persistent' = Store!AddItem(persistent, i, x, n)
    /\ Begin(t, [step |-> "add", inv |-> i, item |-> x, n |-> n])
    /\ UNCHANGED <<cache, transactions, nextTransactionId>>

(* A removal that fails leaves an inventory behind that was not there. *)
CallRemoveItem(t, i, x, n) ==
    /\ t \notin DOMAIN pending
    /\ \/ /\ Store!CanRemove(persistent, i, x, n)
          /\ persistent' = Store!RemoveItem(persistent, i, x, n)
          /\ Begin(t, [step |-> "remove", inv |-> i, item |-> x, n |-> n])
       \/ /\ ~Store!CanRemove(persistent, i, x, n)
          /\ persistent' = Store!GetOrCreateInventory(persistent, i)
          /\ UNCHANGED <<pending, astray>>
    /\ UNCHANGED <<cache, transactions, nextTransactionId>>

CallSetItem(t, i, x, n) ==
    /\ t \notin DOMAIN pending
    /\ persistent' = Store!SetItem(persistent, i, x, n)
    /\ Begin(t, [step |-> "set", inv |-> i, item |-> x, n |-> n])
    /\ UNCHANGED <<cache, transactions, nextTransactionId>>

(* saveInventory replaces the inventory, by one stack of one item here. *)
CallSaveInventory(t, i, x, n) ==
    /\ t \notin DOMAIN pending
    /\ persistent' = Put(persistent, i, Put(EmptyMap, x, n))
    /\ Begin(t, [step |-> "fill", inv |-> i, items |-> Put(EmptyMap, x, n)])
    /\ UNCHANGED <<cache, transactions, nextTransactionId>>

(* Only a miss does more than read. *)
CallLoadInventory(t, i) ==
    /\ t \notin DOMAIN pending
    /\ i \notin DOMAIN cache
    /\ Begin(t, [step |-> "read", inv |-> i])
    /\ UNCHANGED <<storages, transactions, nextTransactionId>>

-----------------------------------------------------------------------------
(* The steps on the cache *)

(* Mutant: the cache is given the amount that is added as the new quantity. *)
AddToCacheSets(t) ==
    /\ pending[t].step = "add"
    /\ cache' = Store!SetItem(cache, pending[t].inv, pending[t].item, pending[t].n)
    /\ Return(t)
    /\ UNCHANGED persistent

AddToCache(t) ==
    /\ pending[t].step = "add"
    /\ cache' = Store!AddItem(cache, pending[t].inv, pending[t].item, pending[t].n)
    /\ Return(t)
    /\ UNCHANGED persistent

SetInCache(t) ==
    /\ pending[t].step = "set"
    /\ cache' = Store!SetItem(cache, pending[t].inv, pending[t].item, pending[t].n)
    /\ Return(t)
    /\ UNCHANGED persistent

(* A cache that cannot follow is refreshed from the persistent storage. *)
RemoveFromCache(t) ==
    /\ pending[t].step = "remove"
    /\ LET i == pending[t].inv
           x == pending[t].item
           n == pending[t].n
       IN  \/ /\ Store!CanRemove(cache, i, x, n)
              /\ cache' = Store!RemoveItem(cache, i, x, n)
              /\ Return(t)
           \/ /\ ~Store!CanRemove(cache, i, x, n)
              /\ cache' = Store!GetOrCreateInventory(cache, i)
              /\ Then(t, [step |-> "read", inv |-> i])
    /\ UNCHANGED persistent

ReadPersistent(t) ==
    /\ pending[t].step = "read"
    /\ LET i == pending[t].inv
       IN  \/ /\ i \in DOMAIN persistent
              /\ Then(t, [step |-> "fill", inv |-> i, items |-> persistent[i]])
           \/ i \notin DOMAIN persistent /\ Return(t)
    /\ UNCHANGED storages

FillCache(t) ==
    /\ pending[t].step = "fill"
    /\ cache' = Put(cache, pending[t].inv, pending[t].items)
    /\ Return(t)
    /\ UNCHANGED persistent

Continue(t) ==
    /\ t \in DOMAIN pending
    /\ \/ AddToCache(t) \/ SetInCache(t) \/ RemoveFromCache(t)
       \/ ReadPersistent(t) \/ FillCache(t)
    /\ UNCHANGED <<transactions, nextTransactionId, astray>>

-----------------------------------------------------------------------------
BeginTransaction ==
    /\ pending = EmptyMap
    /\ nextTransactionId <= MaxTransactions
    /\ transactions' = Put(transactions, nextTransactionId,
                           [persistent |-> persistent, cache |-> cache])
    /\ nextTransactionId' = nextTransactionId + 1
    /\ UNCHANGED <<storages, pending, astray>>

CommitTransaction(tx) ==
    /\ pending = EmptyMap /\ tx \in DOMAIN transactions
    /\ transactions' = Without(transactions, {tx})
    /\ UNCHANGED <<storages, nextTransactionId, pending, astray>>

(* Mutant: only the persistent storage is rolled back. *)
RollbackTransactionKeepCache(tx) ==
    /\ pending = EmptyMap /\ tx \in DOMAIN transactions
    /\ persistent' = transactions[tx].persistent
    /\ transactions' = Without(transactions, {tx})
    /\ UNCHANGED <<cache, nextTransactionId, pending, astray>>

RollbackTransaction(tx) ==
    /\ pending = EmptyMap /\ tx \in DOMAIN transactions
    /\ persistent' = transactions[tx].persistent
    /\ cache' = transactions[tx].cache
    /\ transactions' = Without(transactions, {tx})
    /\ UNCHANGED <<nextTransactionId, pending, astray>>

InventoryNext ==
    \/ \E t \in Threads :
        \/ \E i \in Inventories :
            \/ \E x \in Items :
                \/ \E n \in Store!Quantities :
                    \/ CallAddItem(t, i, x, n)
                    \/ CallRemoveItem(t, i, x, n)
                    \/ CallSaveInventory(t, i, x, n)
                \/ \E n \in Store!Quantities \cup {0} : CallSetItem(t, i, x, n)
            \/ CallLoadInventory(t, i)
        \/ Continue(t)
    \/ BeginTransaction
    \/ \E tx \in DOMAIN transactions : CommitTransaction(tx) \/ RollbackTransaction(tx)

InventorySpec == InventoryInit /\ [][InventoryNext]_inventoryVars

-----------------------------------------------------------------------------
(* Between calls, what the cache holds of an inventory is what the           *)
(* persistent storage holds, whatever calls, misses, refreshes and           *)
(* rollbacks came before, on several threads at once: an inventory goes      *)
(* astray only by calls that overlap and do not commute, or by a change to   *)
(* stored items that were never loaded.                                      *)
CacheCoherent ==
    \A i \in DOMAIN cache \ astray :
        (\A t \in DOMAIN pending : pending[t].inv # i) =>
            i \in DOMAIN persistent /\ cache[i] = persistent[i]

(* As long as no inventory is astray the pair of storages is one store to    *)
(* its callers: every call has exactly its own effect on what loadInventory  *)
(* answers, once and in one step between its start and its return, also      *)
(* while calls of other threads are under way, and a rollback restores what  *)
(* was answered when the transaction began.                                  *)
BehavesLikeOneStore ==
    Store!StoreInit /\ [][astray' = {} => Store!StoreNext]_(Store!storeVars)
=============================================================================
