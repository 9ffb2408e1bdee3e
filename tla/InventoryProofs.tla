-------------------------- MODULE InventoryProofs --------------------------
(***************************************************************************)
(* The cached inventory storage, for any number of threads, inventories,   *)
(* items and transactions: cache and persistent storage agree between      *)
(* calls, and to its callers the pair is one store (InventoryStore).       *)
(***************************************************************************)
EXTENDS CachedInventory, TLAPS

-----------------------------------------------------------------------------
(* The inductive invariant *)

(* The items of one inventory; addItem may wrap a quantity to 0. *)
ItemMaps == UNION {[D -> 0 .. QuantityMod - 1] : D \in SUBSET Items}

IsStorage(invs) == IsMap(invs, Inventories, ItemMaps)

(* addItem, removeItem and setItem on the items of one inventory *)
Had(m, x) == IF x \in DOMAIN m THEN m[x] ELSE 0
Plus(m, x, n) == Put(m, x, (Had(m, x) + n) % QuantityMod)
Enough(m, x, n) == x \in DOMAIN m /\ m[x] >= n
Less(m, x, n) == IF m[x] = n THEN Without(m, {x}) ELSE Put(m, x, m[x] - n)
SetTo(m, x, n) == IF n = 0 THEN Without(m, {x}) ELSE Put(m, x, n)

(* A call under way knows where it goes on and with what. *)
IsCall(c) ==
    /\ c.inv \in Inventories
    /\ c.step \in {"add", "remove", "set", "read", "fill"}
    /\ c.step \in {"add", "remove"} => c.item \in Items /\ c.n \in Store!Quantities
    /\ c.step = "set" => c.item \in Items /\ c.n \in Store!Quantities \cup {0}
    /\ c.step = "fill" => c.items \in ItemMaps

StorageTypes ==
    /\ IsStorage(persistent) /\ IsStorage(cache)
    /\ pending = [t \in DOMAIN pending |-> pending[t]]
    /\ \A t \in DOMAIN pending : IsCall(pending[t])

(* A snapshot is of two storages that agree, except about inventories astray.*)
Snapshots ==
    /\ nextTransactionId \in Nat \ {0}
    /\ transactions = [tx \in DOMAIN transactions |-> transactions[tx]]
    /\ DOMAIN transactions \subseteq 1 .. nextTransactionId - 1
    /\ DOMAIN transactions \subseteq 1 .. MaxTransactions
    /\ \A tx \in DOMAIN transactions :
        /\ IsStorage(transactions[tx].persistent) /\ IsStorage(transactions[tx].cache)
        /\ \A i \in DOMAIN transactions[tx].cache \ astray :
            /\ i \in DOMAIN transactions[tx].persistent
            /\ transactions[tx].cache[i] = transactions[tx].persistent[i]

Callers(i) == {t \in DOMAIN pending : pending[t].inv = i}

(* Calls that overlap are adds, and to an inventory that is cached. *)
Overlaps(i) ==
    \A t, u \in Callers(i) :
        t # u => pending[t].step = "add" /\ pending[u].step = "add" /\ i \in DOMAIN cache

(* The adds of the calls C lead from one map of items to another in whatever *)
(* order they come: F[S] is what they make of it once those of S are done.   *)
Leads(F, C, calls, from, to) ==
    /\ F \in [SUBSET C -> ItemMaps]
    /\ F[{}] = from /\ F[C] = to
    /\ \A S \in SUBSET C : \A t \in C \ S :
        F[S \cup {t}] = Plus(F[S], calls[t].item, calls[t].n)

(* The adds under way lead from the cached items to the persistent ones. *)
AddsLead(i) ==
    /\ i \in DOMAIN persistent
    /\ \E F \in [SUBSET Callers(i) -> ItemMaps] :
        Leads(F, Callers(i), pending, Store!ItemsOf(cache, i), persistent[i])

(* How far the cache is behind while t is calling. *)
Behind(i, t) ==
    LET call == pending[t]
    IN  /\ call.step = "add" => AddsLead(i)
        /\ call.step = "set" =>
            /\ i \in DOMAIN persistent
            /\ persistent[i] = SetTo(Store!ItemsOf(cache, i), call.item, call.n)
        /\ call.step = "remove" =>
            /\ i \in DOMAIN persistent
            /\ i \in DOMAIN cache =>
                /\ Enough(cache[i], call.item, call.n)
                /\ persistent[i] = Less(cache[i], call.item, call.n)
        /\ call.step = "read" => i \in DOMAIN persistent \/ i \notin DOMAIN cache
        /\ call.step = "fill" => i \in DOMAIN persistent /\ persistent[i] = call.items

Coherent(i) ==
    /\ Overlaps(i)
    /\ \A t \in Callers(i) : Behind(i, t)
    /\ Callers(i) = {} /\ i \in DOMAIN cache =>
        i \in DOMAIN persistent /\ cache[i] = persistent[i]

InventoryInv ==
    /\ StorageTypes
    /\ Snapshots
    /\ \A i \in Inventories \ astray : Coherent(i)

-----------------------------------------------------------------------------
(* The operations of one storage *)

(* map[k] = v and map.erase(k) *)
LEMMA MapOps ==
    ASSUME NEW f, NEW k, NEW v
    PROVE  /\ DOMAIN Put(f, k, v) = DOMAIN f \cup {k}
           /\ Put(f, k, v)[k] = v
           /\ \A j \in DOMAIN f : j # k => Put(f, k, v)[j] = f[j]
           /\ Put(f, k, v) = [j \in DOMAIN Put(f, k, v) |-> Put(f, k, v)[j]]
           /\ DOMAIN Without(f, {k}) = DOMAIN f \ {k}
           /\ \A j \in DOMAIN f \ {k} : Without(f, {k})[j] = f[j]
           /\ Without(f, {k}) = [j \in DOMAIN Without(f, {k}) |-> Without(f, {k})[j]]
  BY DEF Put, Without, Restrict

(* The maps of the abstract store are those of this module. *)
LEMMA SameMaps ==
    /\ Store!EmptyMap = EmptyMap
    /\ \A f, k, v : Store!Put(f, k, v) = Put(f, k, v)
    /\ \A f, K : Store!Without(f, K) = Without(f, K)
  BY DEF Store!EmptyMap, EmptyMap, Store!Put, Put, Store!Without, Without,
         Store!Restrict, Restrict

(* Each operation replaces the items of one inventory. *)
LEMMA StoreOps ==
    ASSUME NEW invs, NEW i, NEW x, NEW n
    PROVE  /\ Store!AddItem(invs, i, x, n) = Put(invs, i, Plus(Store!ItemsOf(invs, i), x, n))
           /\ Store!SetItem(invs, i, x, n) = Put(invs, i, SetTo(Store!ItemsOf(invs, i), x, n))
           /\ Store!RemoveItem(invs, i, x, n) = Put(invs, i, Less(Store!ItemsOf(invs, i), x, n))
           /\ Store!CanRemove(invs, i, x, n) = Enough(Store!ItemsOf(invs, i), x, n)
           /\ Store!GetOrCreateInventory(invs, i) = Put(invs, i, Store!ItemsOf(invs, i))
           /\ i \in DOMAIN invs => Store!ItemsOf(invs, i) = invs[i]
           /\ i \notin DOMAIN invs => Store!ItemsOf(invs, i) = EmptyMap
  <1>1. Store!AddItem(invs, i, x, n) = Put(invs, i, Plus(Store!ItemsOf(invs, i), x, n))
    BY SameMaps DEF Store!AddItem, Plus, Had
  <1>2. Store!SetItem(invs, i, x, n) = Put(invs, i, SetTo(Store!ItemsOf(invs, i), x, n))
    BY SameMaps DEF Store!SetItem, SetTo
  <1>3. Store!RemoveItem(invs, i, x, n) = Put(invs, i, Less(Store!ItemsOf(invs, i), x, n))
    BY SameMaps DEF Store!RemoveItem, Less
  <1>4. Store!CanRemove(invs, i, x, n) = Enough(Store!ItemsOf(invs, i), x, n)
    BY SameMaps DEF Store!CanRemove, Enough
  <1>5. Store!GetOrCreateInventory(invs, i) = Put(invs, i, Store!ItemsOf(invs, i))
    BY SameMaps DEF Store!GetOrCreateInventory
  <1>6. /\ i \in DOMAIN invs => Store!ItemsOf(invs, i) = invs[i]
        /\ i \notin DOMAIN invs => Store!ItemsOf(invs, i) = EmptyMap
    BY SameMaps DEF Store!ItemsOf
  <1> QED
    BY <1>1, <1>2, <1>3, <1>4, <1>5, <1>6

(* A map of items, seen as a function. *)
LEMMA ItemMap ==
    ASSUME NEW m
    PROVE  m \in ItemMaps <=> /\ DOMAIN m \subseteq Items
                              /\ m = [x \in DOMAIN m |-> m[x]]
                              /\ \A x \in DOMAIN m : m[x] \in 0 .. QuantityMod - 1
  BY DEF ItemMaps

LEMMA EmptyIsItemMap == EmptyMap \in ItemMaps
  BY ItemMap DEF EmptyMap

(* Quantities stay quantities. *)
LEMMA ItemOps ==
    ASSUME NEW m \in ItemMaps, NEW x \in Items
    PROVE  /\ \A n \in Store!Quantities : Plus(m, x, n) \in ItemMaps
           /\ \A n \in Store!Quantities : Enough(m, x, n) => Less(m, x, n) \in ItemMaps
           /\ \A n \in Store!Quantities \cup {0} : SetTo(m, x, n) \in ItemMaps
  <1>1. /\ DOMAIN m \subseteq Items /\ m = [y \in DOMAIN m |-> m[y]]
        /\ \A y \in DOMAIN m : m[y] \in 0 .. QuantityMod - 1
    BY ItemMap
  <1>2. \A n \in 0 .. QuantityMod - 1 : Put(m, x, n) \in ItemMaps
    <2>1. TAKE n \in 0 .. QuantityMod - 1
    <2>2. /\ DOMAIN Put(m, x, n) \subseteq Items
          /\ Put(m, x, n) = [y \in DOMAIN Put(m, x, n) |-> Put(m, x, n)[y]]
          /\ \A y \in DOMAIN Put(m, x, n) : Put(m, x, n)[y] \in 0 .. QuantityMod - 1
      BY <1>1 DEF Put
    <2> QED
      BY <2>2, ItemMap
  <1>3. Without(m, {x}) \in ItemMaps
    <2>1. /\ DOMAIN Without(m, {x}) \subseteq Items
          /\ Without(m, {x}) = [y \in DOMAIN Without(m, {x}) |-> Without(m, {x})[y]]
          /\ \A y \in DOMAIN Without(m, {x}) : Without(m, {x})[y] \in 0 .. QuantityMod - 1
      BY <1>1 DEF Without, Restrict
    <2> QED
      BY <2>1, ItemMap
  <1>4. ASSUME NEW n \in Store!Quantities
        PROVE  Plus(m, x, n) \in ItemMaps
    <2>1. Had(m, x) \in Nat /\ n \in Nat
      BY <1>1, InventoryConstants DEF Had, Store!Quantities
    <2>2. (Had(m, x) + n) % QuantityMod \in 0 .. QuantityMod - 1
      BY <2>1, InventoryConstants
    <2> QED
      BY <1>2, <2>2 DEF Plus
  <1>5. ASSUME NEW n \in Store!Quantities, Enough(m, x, n)
        PROVE  Less(m, x, n) \in ItemMaps
    <2>1. m[x] - n \in 0 .. QuantityMod - 1
      BY <1>1, <1>5, InventoryConstants DEF Enough, Store!Quantities
    <2> QED
      BY <1>2, <1>3, <2>1 DEF Less
  <1>6. ASSUME NEW n \in Store!Quantities \cup {0}
        PROVE  SetTo(m, x, n) \in ItemMaps
    <2>1. n \in 0 .. QuantityMod - 1
      BY InventoryConstants DEF Store!Quantities
    <2> QED
      BY <1>2, <1>3, <2>1 DEF SetTo
  <1> QED
    BY <1>4, <1>5, <1>6

(* Addition modulo the width of a quantity does not care about the order. *)
LEMMA AddMod ==
    ASSUME NEW h \in 0 .. QuantityMod - 1, NEW n \in Store!Quantities, NEW k \in Store!Quantities
    PROVE  (((h + n) % QuantityMod) + k) % QuantityMod = (((h + k) % QuantityMod) + n) % QuantityMod
  <1> DEFINE q == QuantityMod
  <1>1. q \in Nat /\ q > 1 /\ h \in Nat /\ h < q /\ n \in Nat /\ n < q /\ k \in Nat /\ k < q
    BY InventoryConstants DEF Store!Quantities
  <1> HIDE DEF q
  <1>2. \A a, b \in 0 .. q - 1 : (a + b) % q = IF a + b < q THEN a + b ELSE a + b - q
    BY <1>1
  <1> DEFINE a == (h + n) % q
             b == (h + k) % q
  <1>3. a = IF h + n < q THEN h + n ELSE h + n - q
    BY <1>1, <1>2
  <1>4. b = IF h + k < q THEN h + k ELSE h + k - q
    BY <1>1, <1>2
  <1> HIDE DEF a, b
  <1>5. a \in 0 .. q - 1 /\ b \in 0 .. q - 1
    BY <1>1, <1>3, <1>4
  <1>6. (a + k) % q = IF a + k < q THEN a + k ELSE a + k - q
    BY <1>1, <1>2, <1>5
  <1>7. (b + n) % q = IF b + n < q THEN b + n ELSE b + n - q
    BY <1>1, <1>2, <1>5
  <1>8. (a + k) % q = (b + n) % q
    BY <1>1, <1>3, <1>4, <1>6, <1>7
  <1> QED
    BY <1>8 DEF a, b, q

(* Two adds to an inventory commute. *)
LEMMA AddsCommute ==
    ASSUME NEW m \in ItemMaps, NEW x \in Items, NEW y \in Items,
           NEW n \in Store!Quantities, NEW k \in Store!Quantities
    PROVE  Plus(Plus(m, x, n), y, k) = Plus(Plus(m, y, k), x, n)
  <1>1. CASE x = y
    <2>1. Had(m, x) \in 0 .. QuantityMod - 1
      BY ItemMap, InventoryConstants DEF Had
    <2>2. \A a : Had(Put(m, x, a), x) = a
      BY DEF Had, Put
    <2>3. \A a, b : Put(Put(m, x, a), x, b) = Put(m, x, b)
      BY DEF Put
    <2>4. (((Had(m, x) + n) % QuantityMod) + k) % QuantityMod
            = (((Had(m, x) + k) % QuantityMod) + n) % QuantityMod
      BY <2>1, AddMod
    <2> QED
      BY <1>1, <2>2, <2>3, <2>4 DEF Plus
  <1>2. CASE x # y
    <2>1. \A a, b : Put(Put(m, x, a), y, b) = Put(Put(m, y, b), x, a)
      BY <1>2 DEF Put
    <2>2. \A a : Had(Put(m, x, a), y) = Had(m, y) /\ Had(Put(m, y, a), x) = Had(m, x)
      BY <1>2 DEF Had, Put
    <2> QED
      BY <2>1, <2>2 DEF Plus
  <1> QED
    BY <1>1, <1>2

(* One more call adds at the far end. *)
LEMMA LeadsMore ==
    ASSUME NEW F, NEW C, NEW calls, NEW from, NEW to, Leads(F, C, calls, from, to),
           NEW t, t \notin C, NEW more,
           \A u \in C : calls[u].item \in Items /\ calls[u].n \in Store!Quantities,
           \A u \in C : more[u] = calls[u],
           more[t].item \in Items, more[t].n \in Store!Quantities
    PROVE  \E G : Leads(G, C \cup {t}, more, from, Plus(to, more[t].item, more[t].n))
  <1> DEFINE x == more[t].item
             n == more[t].n
             G == [S \in SUBSET (C \cup {t}) |-> IF t \in S THEN Plus(F[S \ {t}], x, n) ELSE F[S]]
  <1>1. /\ F \in [SUBSET C -> ItemMaps] /\ F[{}] = from /\ F[C] = to
        /\ \A S \in SUBSET C : \A u \in C \ S : F[S \cup {u}] = Plus(F[S], calls[u].item, calls[u].n)
    BY DEF Leads
  <1>2. \A S \in SUBSET (C \cup {t}) : S \ {t} \in SUBSET C /\ (t \notin S => S \in SUBSET C)
    OBVIOUS
  <1>3. \A m \in ItemMaps : Plus(m, x, n) \in ItemMaps
    BY ItemOps
  <1>4. G \in [SUBSET (C \cup {t}) -> ItemMaps]
    BY <1>1, <1>2, <1>3
  <1>5. G[{}] = from
    BY <1>1
  <1>6. G[C \cup {t}] = Plus(to, x, n)
    <2>1. (C \cup {t}) \ {t} = C
      OBVIOUS
    <2> QED
      BY <1>1, <2>1
  <1>7. ASSUME NEW S \in SUBSET (C \cup {t}), NEW u \in (C \cup {t}) \ S
        PROVE  G[S \cup {u}] = Plus(G[S], more[u].item, more[u].n)
    <2>1. S \cup {u} \in SUBSET (C \cup {t})
      OBVIOUS
    <2>2. CASE u = t
      <3>1. (S \cup {u}) \ {t} = S /\ t \in S \cup {u} /\ t \notin S
        BY <1>7, <2>2
      <3>2. G[S \cup {u}] = Plus(F[S], x, n) /\ G[S] = F[S]
        BY <2>1, <3>1
      <3> QED
        BY <2>2, <3>2
    <2>3. CASE u # t /\ t \notin S
      <3>1. S \in SUBSET C /\ u \in C \ S /\ t \notin S \cup {u}
        BY <1>7, <2>3
      <3>2. G[S \cup {u}] = F[S \cup {u}] /\ G[S] = F[S]
        BY <2>1, <2>3, <3>1
      <3> QED
        BY <1>1, <3>1, <3>2
    <2>4. CASE u # t /\ t \in S
      <3> DEFINE R == S \ {t}
                 y == more[u].item
                 k == more[u].n
      <3>1. R \in SUBSET C /\ u \in C \ R /\ (S \cup {u}) \ {t} = R \cup {u}
        BY <1>2, <1>7, <2>4
      <3>2. G[S \cup {u}] = Plus(F[R \cup {u}], x, n) /\ G[S] = Plus(F[R], x, n)
        BY <2>1, <2>4, <3>1
      <3>3. F[R \cup {u}] = Plus(F[R], y, k) /\ F[R] \in ItemMaps
        BY <1>1, <3>1
      <3>4. x \in Items /\ n \in Store!Quantities /\ y \in Items /\ k \in Store!Quantities
        BY <3>1
      <3> HIDE DEF R, x, n, y, k, G
      <3>5. Plus(Plus(F[R], y, k), x, n) = Plus(Plus(F[R], x, n), y, k)
        BY <3>3, <3>4, AddsCommute
      <3> QED
        BY <3>2, <3>3, <3>5 DEF y, k
    <2> QED
      BY <2>2, <2>3, <2>4
  <1> HIDE DEF G
  <1>8. Leads(G, C \cup {t}, more, from, Plus(to, x, n))
    BY <1>4, <1>5, <1>6, <1>7 DEF Leads
  <1> QED
    BY <1>8

(* Any of the calls may be the first. *)
LEMMA LeadsLess ==
    ASSUME NEW F, NEW C, NEW calls, NEW from, NEW to, Leads(F, C, calls, from, to),
           NEW t \in C, NEW rest, \A u \in C \ {t} : rest[u] = calls[u]
    PROVE  \E G : Leads(G, C \ {t}, rest, Plus(from, calls[t].item, calls[t].n), to)
  <1> DEFINE G == [S \in SUBSET (C \ {t}) |-> F[S \cup {t}]]
  <1>1. /\ F \in [SUBSET C -> ItemMaps] /\ F[{}] = from /\ F[C] = to
        /\ \A S \in SUBSET C : \A u \in C \ S : F[S \cup {u}] = Plus(F[S], calls[u].item, calls[u].n)
    BY DEF Leads
  <1>2. \A S \in SUBSET (C \ {t}) : S \cup {t} \in SUBSET C
    OBVIOUS
  <1>3. G \in [SUBSET (C \ {t}) -> ItemMaps]
    BY <1>1, <1>2
  <1>4. G[{}] = Plus(from, calls[t].item, calls[t].n)
    <2>1. G[{}] = F[{} \cup {t}]
      OBVIOUS
    <2>2. {} \in SUBSET C /\ t \in C \ {}
      OBVIOUS
    <2> QED
      BY <1>1, <2>1, <2>2
  <1>5. G[C \ {t}] = to
    <2>1. (C \ {t}) \cup {t} = C
      OBVIOUS
    <2> QED
      BY <1>1, <2>1
  <1>6. ASSUME NEW S \in SUBSET (C \ {t}), NEW u \in (C \ {t}) \ S
        PROVE  G[S \cup {u}] = Plus(G[S], rest[u].item, rest[u].n)
    <2>1. /\ S \cup {u} \in SUBSET (C \ {t}) /\ S \cup {t} \in SUBSET C
          /\ u \in C \ (S \cup {t}) /\ (S \cup {u}) \cup {t} = (S \cup {t}) \cup {u}
      OBVIOUS
    <2>2. G[S \cup {u}] = F[(S \cup {t}) \cup {u}] /\ G[S] = F[S \cup {t}]
      BY <2>1
    <2>3. F[(S \cup {t}) \cup {u}] = Plus(F[S \cup {t}], calls[u].item, calls[u].n)
      BY <1>1, <2>1
    <2>4. rest[u] = calls[u]
      BY <1>6
    <2> HIDE DEF G
    <2> QED
      BY <2>2, <2>3, <2>4
  <1> HIDE DEF G
  <1>7. Leads(G, C \ {t}, rest, Plus(from, calls[t].item, calls[t].n), to)
    BY <1>3, <1>4, <1>5, <1>6 DEF Leads
  <1> QED
    BY <1>7

(* With no call the two ends are the same; with one, they are one add apart. *)
LEMMA LeadsEnds ==
    ASSUME NEW F, NEW C, NEW calls, NEW from, NEW to, Leads(F, C, calls, from, to)
    PROVE  /\ C = {} => from = to
           /\ \A t : C = {t} => to = Plus(from, calls[t].item, calls[t].n)
           /\ C # {} => to # EmptyMap
  <1>1. C = {} => from = to
    BY DEF Leads
  <1>2. ASSUME NEW t, C = {t}
        PROVE  to = Plus(from, calls[t].item, calls[t].n)
    <2>1. {} \in SUBSET C /\ t \in C \ {} /\ {} \cup {t} = C
      BY <1>2
    <2> QED
      BY <2>1 DEF Leads
  <1>3. ASSUME NEW t \in C
        PROVE  to # EmptyMap
    <2>1. C \ {t} \in SUBSET C /\ t \in C \ (C \ {t}) /\ (C \ {t}) \cup {t} = C
      OBVIOUS
    <2>2. to = Plus(F[C \ {t}], calls[t].item, calls[t].n)
      BY <2>1 DEF Leads
    <2>3. calls[t].item \in DOMAIN to
      BY <2>2 DEF Plus, Put
    <2> QED
      BY <2>3 DEF EmptyMap
  <1> QED
    BY <1>1, <1>2, <1>3

(* Replacing the items of one inventory leaves the others alone. *)
LEMMA StoragePut ==
    ASSUME NEW invs, IsStorage(invs), NEW i \in Inventories, NEW m \in ItemMaps
    PROVE  /\ IsStorage(Put(invs, i, m))
           /\ i \in DOMAIN Put(invs, i, m) /\ Put(invs, i, m)[i] = m
           /\ Store!ItemsOf(Put(invs, i, m), i) = m
           /\ \A j : j # i => /\ j \in DOMAIN Put(invs, i, m) <=> j \in DOMAIN invs
                              /\ j \in DOMAIN invs => Put(invs, i, m)[j] = invs[j]
  <1>1. /\ DOMAIN Put(invs, i, m) = DOMAIN invs \cup {i}
        /\ Put(invs, i, m)[i] = m
        /\ \A j \in DOMAIN invs : j # i => Put(invs, i, m)[j] = invs[j]
        /\ Put(invs, i, m) = [j \in DOMAIN Put(invs, i, m) |-> Put(invs, i, m)[j]]
    BY DEF Put
  <1>2. IsStorage(Put(invs, i, m))
    BY <1>1 DEF IsStorage, IsMap
  <1> QED
    BY <1>1, <1>2 DEF Store!ItemsOf

(* What a storage holds of an inventory is a map of items. *)
LEMMA StorageItems ==
    ASSUME NEW invs, IsStorage(invs), NEW i
    PROVE  Store!ItemsOf(invs, i) \in ItemMaps
  <1>1. CASE i \in DOMAIN invs
    BY <1>1, StoreOps DEF IsStorage, IsMap
  <1>2. CASE i \notin DOMAIN invs
    BY <1>2, StoreOps, EmptyIsItemMap
  <1> QED
    BY <1>1, <1>2

-----------------------------------------------------------------------------
(* Calls under way *)

(* A thread begins a call, or goes on with it, on the inventory of c. *)
LEMMA PendingPut ==
    ASSUME StorageTypes, NEW t, NEW c, IsCall(c), Then(t, c),
           t \in DOMAIN pending => pending[t].inv = c.inv
    PROVE  /\ pending' = [u \in DOMAIN pending' |-> pending'[u]]
           /\ \A u \in DOMAIN pending' : IsCall(pending'[u])
           /\ Callers(c.inv)' = Callers(c.inv) \cup {t} /\ pending'[t] = c
           /\ \A u \in DOMAIN pending : u # t => pending'[u] = pending[u]
           /\ \A j : j # c.inv => /\ Callers(j)' = Callers(j)
                                  /\ \A u \in Callers(j) : pending'[u] = pending[u]
  <1>1. /\ DOMAIN pending' = DOMAIN pending \cup {t} /\ pending'[t] = c
        /\ \A u \in DOMAIN pending : u # t => pending'[u] = pending[u]
        /\ pending' = [u \in DOMAIN pending' |-> pending'[u]]
    BY DEF Then, Put
  <1>2. \A u \in DOMAIN pending' : IsCall(pending'[u])
    BY <1>1 DEF StorageTypes
  <1>3. Callers(c.inv)' = Callers(c.inv) \cup {t}
    BY <1>1 DEF Callers
  <1>4. ASSUME NEW j, j # c.inv
        PROVE  Callers(j)' = Callers(j) /\ \A u \in Callers(j) : pending'[u] = pending[u]
    BY <1>1, <1>4 DEF Callers
  <1> QED
    BY <1>1, <1>2, <1>3, <1>4

(* A call returns. *)
LEMMA PendingReturn ==
    ASSUME StorageTypes, NEW t \in DOMAIN pending, Return(t)
    PROVE  /\ pending' = [u \in DOMAIN pending' |-> pending'[u]]
           /\ \A u \in DOMAIN pending' : IsCall(pending'[u])
           /\ \A j : /\ Callers(j)' = Callers(j) \ {t}
                     /\ \A u \in Callers(j) : u # t => pending'[u] = pending[u]
           /\ \A j : j # pending[t].inv => Callers(j)' = Callers(j) /\ t \notin Callers(j)
  <1>1. /\ DOMAIN pending' = DOMAIN pending \ {t}
        /\ \A u \in DOMAIN pending : u # t => pending'[u] = pending[u]
        /\ pending' = [u \in DOMAIN pending' |-> pending'[u]]
    BY DEF Return, Without, Restrict
  <1>2. \A u \in DOMAIN pending' : IsCall(pending'[u])
    BY <1>1 DEF StorageTypes
  <1>3. ASSUME NEW j
        PROVE  /\ Callers(j)' = Callers(j) \ {t}
               /\ \A u \in Callers(j) : u # t => pending'[u] = pending[u]
    BY <1>1 DEF Callers
  <1>4. \A j : j # pending[t].inv => t \notin Callers(j)
    BY DEF Callers
  <1> QED
    BY <1>1, <1>2, <1>3, <1>4

(* An inventory that a step does not touch stays coherent. *)
LEMMA Untouched ==
    ASSUME NEW j, Coherent(j),
           j \in DOMAIN persistent' <=> j \in DOMAIN persistent,
           j \in DOMAIN persistent => persistent'[j] = persistent[j],
           j \in DOMAIN cache' <=> j \in DOMAIN cache,
           j \in DOMAIN cache => cache'[j] = cache[j],
           Callers(j)' = Callers(j),
           \A u \in Callers(j) : pending'[u] = pending[u]
    PROVE  Coherent(j)'
  <1>1. Store!ItemsOf(cache', j) = Store!ItemsOf(cache, j)
    BY DEF Store!ItemsOf
  <1>2. Overlaps(j)'
    BY DEF Coherent, Overlaps
  <1>3. ASSUME AddsLead(j)
        PROVE  AddsLead(j)'
    <2>1. PICK F \in [SUBSET Callers(j) -> ItemMaps] :
              Leads(F, Callers(j), pending, Store!ItemsOf(cache, j), persistent[j])
      BY <1>3 DEF AddsLead
    <2>2. Leads(F, Callers(j), pending', Store!ItemsOf(cache, j), persistent[j])
      BY <2>1 DEF Leads
    <2> QED
      BY <1>1, <1>3, <2>1, <2>2 DEF AddsLead
  <1>4. ASSUME NEW t \in Callers(j)
        PROVE  Behind(j, t)'
    <2>1. Behind(j, t)
      BY DEF Coherent
    <2> QED
      BY <1>1, <1>3, <2>1 DEF Behind
  <1>5. Callers(j)' = {} /\ j \in DOMAIN cache' =>
            j \in DOMAIN persistent' /\ cache'[j] = persistent'[j]
    BY DEF Coherent
  <1> QED
    BY <1>2, <1>4, <1>5 DEF Coherent

(* The one call to an inventory says how far the cache is behind. *)
LEMMA OneCaller ==
    ASSUME NEW i, NEW t, Callers(i)' = {t}, Behind(i, t)'
    PROVE  Coherent(i)'
  BY DEF Coherent, Overlaps

(* An inventory that does not go astray when a call begins met no call that  *)
(* the new one does not commute with.                                        *)
LEMMA BeginMeets ==
    ASSUME InventoryInv, NEW t, t \notin DOMAIN pending, NEW c, IsCall(c), Begin(t, c),
           c.inv \notin astray'
    PROVE  /\ c.inv \notin astray /\ Coherent(c.inv) /\ ~Cold(c)
           /\ c.step # "add" => Callers(c.inv) = {}
           /\ \A u \in Callers(c.inv) : pending[u].step = "add"
  <1>1. astray' = IF \/ Cold(c)
                     \/ \E u \in DOMAIN pending :
                           pending[u].inv = c.inv /\ ~Commute(pending[u], c)
                  THEN astray \cup {c.inv} ELSE astray
    BY DEF Begin
  <1>2. /\ c.inv \notin astray /\ ~Cold(c)
        /\ \A u \in DOMAIN pending : pending[u].inv = c.inv => Commute(pending[u], c)
    BY <1>1
  <1>3. Coherent(c.inv)
    BY <1>2 DEF InventoryInv, IsCall
  <1> QED
    BY <1>2, <1>3 DEF Callers, Commute

(* astray only grows. *)
LEMMA AstrayGrows ==
    ASSUME NEW t, NEW c, Begin(t, c)
    PROVE  astray \subseteq astray' /\ astray' \subseteq astray \cup {c.inv}
  BY DEF Begin

-----------------------------------------------------------------------------
(* Calls begin *)

(* Snapshots stay what they are, and astray grows. *)
LEMMA SnapshotsStay ==
    ASSUME Snapshots, UNCHANGED <<transactions, nextTransactionId>>, astray \subseteq astray'
    PROVE  Snapshots'
  BY DEF Snapshots

(* A call that begins touches one inventory of the persistent storage. *)
LEMMA CallBegins ==
    ASSUME InventoryInv, NEW t, t \notin DOMAIN pending, NEW c, IsCall(c), Begin(t, c),
           NEW m \in ItemMaps,
           UNCHANGED persistent \/ persistent' = Put(persistent, c.inv, m),
           UNCHANGED <<cache, transactions, nextTransactionId>>,
           c.inv \notin astray' => Coherent(c.inv)'
    PROVE  InventoryInv'
  <1>1. c.inv \in Inventories
    BY DEF IsCall
  <1>2. /\ IsStorage(persistent')
        /\ \A j : j # c.inv => /\ j \in DOMAIN persistent' <=> j \in DOMAIN persistent
                               /\ j \in DOMAIN persistent => persistent'[j] = persistent[j]
    BY <1>1, StoragePut DEF InventoryInv, StorageTypes
  <1>3. /\ pending' = [u \in DOMAIN pending' |-> pending'[u]]
        /\ \A u \in DOMAIN pending' : IsCall(pending'[u])
        /\ \A j : j # c.inv => /\ Callers(j)' = Callers(j)
                               /\ \A u \in Callers(j) : pending'[u] = pending[u]
    BY PendingPut DEF Begin, InventoryInv
  <1>4. StorageTypes'
    BY <1>2, <1>3 DEF InventoryInv, StorageTypes
  <1>5. astray \subseteq astray'
    BY AstrayGrows
  <1>6. Snapshots'
    BY <1>5, SnapshotsStay DEF InventoryInv
  <1>7. ASSUME NEW j \in Inventories \ astray', j # c.inv
        PROVE  Coherent(j)'
    <2>1. Coherent(j)
      BY <1>5 DEF InventoryInv
    <2> QED
      BY <1>2, <1>3, <1>7, <2>1, Untouched
  <1> QED
    BY <1>4, <1>6, <1>7 DEF InventoryInv

(* What the cache lacks when a change begins that is not Cold is nothing. *)
LEMMA WarmItems ==
    ASSUME StorageTypes, NEW i, Coherent(i), Callers(i) = {}, NEW c, c.inv = i,
           c.step \in {"add", "set"}, ~Cold(c)
    PROVE  Store!ItemsOf(persistent, i) = Store!ItemsOf(cache, i)
  <1>1. CASE i \in DOMAIN cache
    <2>1. i \in DOMAIN persistent /\ cache[i] = persistent[i]
      BY <1>1 DEF Coherent
    <2> QED
      BY <1>1, <2>1, StoreOps
  <1>2. CASE i \notin DOMAIN cache
    <2>1. Store!ItemsOf(persistent, i) = EmptyMap
      BY <1>2 DEF Cold
    <2> QED
      BY <1>2, <2>1, StoreOps
  <1> QED
    BY <1>1, <1>2

(* CachedInventoryStorage::addItem, on the persistent storage *)
LEMMA CallAddItemInv ==
    ASSUME InventoryInv, NEW t, NEW i \in Inventories, NEW x \in Items,
           NEW n \in Store!Quantities, CallAddItem(t, i, x, n)
    PROVE  InventoryInv'
  <1> DEFINE c == [step |-> "add", inv |-> i, item |-> x, n |-> n]
             old == Store!ItemsOf(persistent, i)
  <1>1. IsCall(c) /\ c.inv = i /\ c.step = "add" /\ c.item = x /\ c.n = n
    BY DEF IsCall
  <1>2. /\ t \notin DOMAIN pending /\ Begin(t, c)
        /\ UNCHANGED <<cache, transactions, nextTransactionId>>
    BY DEF CallAddItem
  <1>3. persistent' = Put(persistent, i, Plus(old, x, n))
    BY StoreOps DEF CallAddItem
  <1>4. old \in ItemMaps /\ Plus(old, x, n) \in ItemMaps
    BY StorageItems, ItemOps DEF InventoryInv, StorageTypes
  <1> HIDE DEF c, old
  <1>5. i \in DOMAIN persistent' /\ persistent'[i] = Plus(old, x, n)
    BY <1>3, <1>4, StoragePut DEF InventoryInv, StorageTypes
  <1>6. /\ Callers(i)' = Callers(i) \cup {t} /\ pending'[t] = c
        /\ \A u \in DOMAIN pending : u # t => pending'[u] = pending[u]
    BY <1>1, <1>2, PendingPut DEF Begin, InventoryInv
  <1>7. ASSUME i \notin astray'
        PROVE  Coherent(i)'
    <2>1. /\ Coherent(i) /\ ~Cold(c)
          /\ \A u \in Callers(i) : pending[u].step = "add"
      BY <1>1, <1>2, <1>7, BeginMeets
    <2>2. /\ t \notin Callers(i)
          /\ \A u \in Callers(i) : /\ pending'[u] = pending[u]
                                   /\ pending[u].item \in Items
                                   /\ pending[u].n \in Store!Quantities
      BY <1>2, <1>6, <2>1 DEF Callers, InventoryInv, StorageTypes, IsCall
    <2>3. \E F : Leads(F, Callers(i), pending, Store!ItemsOf(cache, i), old)
      <3>1. CASE Callers(i) = {}
        <4> DEFINE F == [S \in SUBSET Callers(i) |-> old]
        <4>1. old = Store!ItemsOf(cache, i)
          BY <1>1, <2>1, <3>1, WarmItems DEF InventoryInv, old
        <4>2. F \in [SUBSET Callers(i) -> ItemMaps] /\ F[{}] = old /\ F[Callers(i)] = old
          BY <1>4
        <4> HIDE DEF F
        <4>3. Leads(F, Callers(i), pending, Store!ItemsOf(cache, i), old)
          BY <3>1, <4>1, <4>2 DEF Leads
        <4> QED
          BY <4>3
      <3>2. ASSUME NEW u \in Callers(i)
            PROVE  \E F : Leads(F, Callers(i), pending, Store!ItemsOf(cache, i), old)
        <4>1. AddsLead(i)
          BY <2>1 DEF Coherent, Behind
        <4>2. old = persistent[i]
          BY <4>1, StoreOps DEF AddsLead, old
        <4> QED
          BY <4>1, <4>2 DEF AddsLead
      <3> QED
        BY <3>1, <3>2
    <2>4. PICK F : Leads(F, Callers(i), pending, Store!ItemsOf(cache, i), old)
      BY <2>3
    <2>5. \E G : Leads(G, Callers(i)', pending', Store!ItemsOf(cache, i), Plus(old, x, n))
      BY <1>1, <1>6, <2>2, <2>4, LeadsMore
    <2>6. AddsLead(i)'
      <3>1. PICK G : Leads(G, Callers(i)', pending', Store!ItemsOf(cache, i), Plus(old, x, n))
        BY <2>5
      <3>2. G \in [SUBSET Callers(i)' -> ItemMaps]
        BY <3>1 DEF Leads
      <3> QED
        BY <1>2, <1>5, <3>1, <3>2 DEF AddsLead
    <2>7. \A u \in Callers(i)' : pending'[u].step = "add"
      BY <1>1, <1>6, <2>1, <2>2
    <2>8. Callers(i) # {} => i \in DOMAIN cache
      <3>1. Callers(i) # {} => old # EmptyMap
        BY <2>4, LeadsEnds
      <3> QED
        BY <1>1, <2>1, <3>1 DEF Cold, old
    <2>9. Overlaps(i)'
      BY <1>2, <1>6, <2>7, <2>8 DEF Overlaps
    <2>10. \A u \in Callers(i)' : Behind(i, u)'
      BY <2>6, <2>7 DEF Behind
    <2> QED
      BY <1>6, <2>9, <2>10 DEF Coherent
  <1> QED
    BY <1>1, <1>2, <1>3, <1>4, <1>7, CallBegins

(* setItem, on the persistent storage *)
LEMMA CallSetItemInv ==
    ASSUME InventoryInv, NEW t, NEW i \in Inventories, NEW x \in Items,
           NEW n \in Store!Quantities \cup {0}, CallSetItem(t, i, x, n)
    PROVE  InventoryInv'
  <1> DEFINE c == [step |-> "set", inv |-> i, item |-> x, n |-> n]
             m == SetTo(Store!ItemsOf(persistent, i), x, n)
  <1>1. IsCall(c) /\ c.inv = i /\ c.step = "set" /\ c.item = x /\ c.n = n
    BY DEF IsCall
  <1>2. /\ t \notin DOMAIN pending /\ Begin(t, c)
        /\ UNCHANGED <<cache, transactions, nextTransactionId>>
    BY DEF CallSetItem
  <1>3. persistent' = Put(persistent, i, m)
    BY StoreOps DEF CallSetItem
  <1>4. m \in ItemMaps
    BY StorageItems, ItemOps DEF InventoryInv, StorageTypes
  <1> HIDE DEF c, m
  <1>5. i \in DOMAIN persistent' /\ persistent'[i] = m
    BY <1>3, <1>4, StoragePut DEF InventoryInv, StorageTypes
  <1>6. Callers(i)' = Callers(i) \cup {t} /\ pending'[t] = c
    BY <1>1, <1>2, PendingPut DEF Begin, InventoryInv
  <1>7. ASSUME i \notin astray'
        PROVE  Coherent(i)'
    <2>1. Coherent(i) /\ ~Cold(c) /\ Callers(i) = {}
      BY <1>1, <1>2, <1>7, BeginMeets
    <2>2. m = SetTo(Store!ItemsOf(cache, i), x, n)
      BY <1>1, <2>1, WarmItems DEF InventoryInv, m
    <2>3. Behind(i, t)'
      BY <1>1, <1>2, <1>5, <1>6, <2>2 DEF Behind
    <2> QED
      BY <1>6, <2>1, <2>3, OneCaller
  <1> QED
    BY <1>1, <1>2, <1>3, <1>4, <1>7, CallBegins

(* saveInventory, on the persistent storage *)
LEMMA CallSaveInventoryInv ==
    ASSUME InventoryInv, NEW t, NEW i \in Inventories, NEW x \in Items,
           NEW n \in Store!Quantities, CallSaveInventory(t, i, x, n)
    PROVE  InventoryInv'
  <1> DEFINE m == Put(EmptyMap, x, n)
             c == [step |-> "fill", inv |-> i, items |-> m]
  <1>1. m \in ItemMaps
    <2>1. m = SetTo(EmptyMap, x, n)
      BY InventoryConstants DEF SetTo, Store!Quantities
    <2> QED
      BY <2>1, EmptyIsItemMap, ItemOps
  <1>2. IsCall(c) /\ c.inv = i /\ c.step = "fill" /\ c.items = m
    BY <1>1 DEF IsCall
  <1>3. /\ t \notin DOMAIN pending /\ Begin(t, c) /\ persistent' = Put(persistent, i, m)
        /\ UNCHANGED <<cache, transactions, nextTransactionId>>
    BY DEF CallSaveInventory
  <1> HIDE DEF c, m
  <1>4. i \in DOMAIN persistent' /\ persistent'[i] = m
    BY <1>1, <1>3, StoragePut DEF InventoryInv, StorageTypes
  <1>5. Callers(i)' = Callers(i) \cup {t} /\ pending'[t] = c
    BY <1>2, <1>3, PendingPut DEF Begin, InventoryInv
  <1>6. ASSUME i \notin astray'
        PROVE  Coherent(i)'
    <2>1. Callers(i) = {}
      BY <1>2, <1>3, <1>6, BeginMeets
    <2>2. Behind(i, t)'
      BY <1>2, <1>4, <1>5 DEF Behind
    <2> QED
      BY <1>5, <2>1, <2>2, OneCaller
  <1> QED
    BY <1>1, <1>2, <1>3, <1>6, CallBegins

(* loadInventory, on a miss *)
LEMMA CallLoadInventoryInv ==
    ASSUME InventoryInv, NEW t, NEW i \in Inventories, CallLoadInventory(t, i)
    PROVE  InventoryInv'
  <1> DEFINE c == [step |-> "read", inv |-> i]
  <1>1. IsCall(c) /\ c.inv = i /\ c.step = "read"
    BY DEF IsCall
  <1>2. /\ t \notin DOMAIN pending /\ i \notin DOMAIN cache /\ Begin(t, c)
        /\ UNCHANGED <<persistent, cache, transactions, nextTransactionId>>
    BY DEF CallLoadInventory, storages
  <1> HIDE DEF c
  <1>3. Callers(i)' = Callers(i) \cup {t} /\ pending'[t] = c
    BY <1>1, <1>2, PendingPut DEF Begin, InventoryInv
  <1>4. ASSUME i \notin astray'
        PROVE  Coherent(i)'
    <2>1. Callers(i) = {}
      BY <1>1, <1>2, <1>4, BeginMeets
    <2>2. Behind(i, t)'
      BY <1>1, <1>2, <1>3 DEF Behind
    <2> QED
      BY <1>3, <2>1, <2>2, OneCaller
  <1> QED
    BY <1>1, <1>2, <1>4, EmptyIsItemMap, CallBegins

(* removeItem, on the persistent storage, when there is enough *)
LEMMA CallRemoveItemInv ==
    ASSUME InventoryInv, NEW t, NEW i \in Inventories, NEW x \in Items,
           NEW n \in Store!Quantities, CallRemoveItem(t, i, x, n),
           Store!CanRemove(persistent, i, x, n)
    PROVE  InventoryInv'
  <1> DEFINE c == [step |-> "remove", inv |-> i, item |-> x, n |-> n]
             old == Store!ItemsOf(persistent, i)
             m == Less(old, x, n)
  <1>1. IsCall(c) /\ c.inv = i /\ c.step = "remove" /\ c.item = x /\ c.n = n
    BY DEF IsCall
  <1>2. /\ t \notin DOMAIN pending /\ Begin(t, c)
        /\ UNCHANGED <<cache, transactions, nextTransactionId>>
    BY DEF CallRemoveItem
  <1>3. persistent' = Put(persistent, i, m) /\ Enough(old, x, n)
    BY StoreOps DEF CallRemoveItem
  <1>4. m \in ItemMaps
    BY <1>3, StorageItems, ItemOps DEF InventoryInv, StorageTypes
  <1> HIDE DEF c, m
  <1>5. i \in DOMAIN persistent' /\ persistent'[i] = m
    BY <1>3, <1>4, StoragePut DEF InventoryInv, StorageTypes
  <1>6. Callers(i)' = Callers(i) \cup {t} /\ pending'[t] = c
    BY <1>1, <1>2, PendingPut DEF Begin, InventoryInv
  <1>7. ASSUME i \notin astray'
        PROVE  Coherent(i)'
    <2>1. Coherent(i) /\ Callers(i) = {}
      BY <1>1, <1>2, <1>7, BeginMeets
    <2>2. i \in DOMAIN cache => cache[i] = old
      <3>1. i \in DOMAIN cache => i \in DOMAIN persistent /\ cache[i] = persistent[i]
        BY <2>1 DEF Coherent
      <3> QED
        BY <3>1, StoreOps
    <2>3. i \in DOMAIN cache' => Enough(cache'[i], x, n) /\ m = Less(cache'[i], x, n)
      BY <1>2, <1>3, <2>2 DEF m
    <2>4. Behind(i, t)'
      BY <1>1, <1>5, <1>6, <2>3 DEF Behind
    <2> QED
      BY <1>6, <2>1, <2>4, OneCaller
  <1> QED
    BY <1>1, <1>2, <1>3, <1>4, <1>7, CallBegins

(* removeItem when there is not enough: an inventory may come to be, empty. *)
LEMMA RemoveFailsInv ==
    ASSUME InventoryInv, NEW t, NEW i \in Inventories, NEW x \in Items,
           NEW n \in Store!Quantities, CallRemoveItem(t, i, x, n),
           ~Store!CanRemove(persistent, i, x, n)
    PROVE  InventoryInv' /\ UNCHANGED <<cache, pending, astray, transactions, nextTransactionId>>
           /\ persistent' = Put(persistent, i, Store!ItemsOf(persistent, i))
  <1>1. /\ persistent' = Put(persistent, i, Store!ItemsOf(persistent, i))
        /\ UNCHANGED <<cache, pending, astray, transactions, nextTransactionId>>
    BY StoreOps DEF CallRemoveItem
  <1>2. Store!ItemsOf(persistent, i) \in ItemMaps
    BY StorageItems DEF InventoryInv, StorageTypes
  <1>3. /\ IsStorage(persistent')
        /\ i \in DOMAIN persistent' /\ persistent'[i] = Store!ItemsOf(persistent, i)
        /\ \A j : j # i => /\ j \in DOMAIN persistent' <=> j \in DOMAIN persistent
                           /\ j \in DOMAIN persistent => persistent'[j] = persistent[j]
    BY <1>1, <1>2, StoragePut DEF InventoryInv, StorageTypes
  <1>4. i \in DOMAIN persistent => persistent'[i] = persistent[i]
    BY <1>3, StoreOps
  <1>5. \A j : Callers(j)' = Callers(j)
    BY <1>1 DEF Callers
  <1>6. StorageTypes' /\ Snapshots'
    BY <1>1, <1>3, SnapshotsStay DEF InventoryInv, StorageTypes
  <1>7. ASSUME NEW j \in Inventories \ astray'
        PROVE  Coherent(j)'
    <2>1. Coherent(j)
      BY <1>1 DEF InventoryInv
    <2>2. CASE j # i \/ j \in DOMAIN persistent
      BY <1>1, <1>3, <1>4, <1>5, <2>1, <2>2, Untouched
    <2>3. CASE j = i /\ j \notin DOMAIN persistent
      <3>1. ASSUME NEW u \in Callers(j)
            PROVE  pending[u].step = "read" /\ Callers(j) = {u}
        <4>1. Behind(j, u) /\ Overlaps(j)
          BY <2>1 DEF Coherent
        <4>2. pending[u].step \in {"add", "remove", "set", "read", "fill"}
          BY DEF Callers, InventoryInv, StorageTypes, IsCall
        <4>3. pending[u].step = "read"
          BY <2>3, <4>1, <4>2 DEF Behind, AddsLead
        <4> QED
          BY <4>1, <4>3 DEF Overlaps
      <3>2. ASSUME NEW u \in Callers(j)
            PROVE  Coherent(j)'
        <4>1. pending'[u].step = "read" /\ Callers(j)' = {u}
          BY <1>1, <1>5, <3>1
        <4>2. Behind(j, u)'
          BY <1>3, <2>3, <4>1 DEF Behind
        <4> QED
          BY <4>1, <4>2, OneCaller
      <3>3. CASE Callers(j) = {}
        <4>1. j \notin DOMAIN cache'
          BY <1>1, <2>1, <2>3, <3>3 DEF Coherent
        <4> QED
          BY <1>5, <3>3, <4>1 DEF Coherent, Overlaps
      <3> QED
        BY <3>2, <3>3
    <2> QED
      BY <2>2, <2>3
  <1> QED
    BY <1>1, <1>6, <1>7 DEF InventoryInv

-----------------------------------------------------------------------------
(* Calls go on *)

(* A call that goes on touches one inventory of the cache. *)
LEMMA CallGoesOn ==
    ASSUME InventoryInv, NEW t \in DOMAIN pending, NEW i, i = pending[t].inv,
           NEW m \in ItemMaps,
           UNCHANGED cache \/ cache' = Put(cache, i, m),
           UNCHANGED <<persistent, transactions, nextTransactionId, astray>>,
           Return(t) \/ \E c : IsCall(c) /\ c.inv = i /\ Then(t, c),
           i \notin astray => Coherent(i)'
    PROVE  InventoryInv'
  <1>1. i \in Inventories
    BY DEF InventoryInv, StorageTypes, IsCall
  <1>2. /\ IsStorage(cache')
        /\ \A j : j # i => /\ j \in DOMAIN cache' <=> j \in DOMAIN cache
                           /\ j \in DOMAIN cache => cache'[j] = cache[j]
    BY <1>1, StoragePut DEF InventoryInv, StorageTypes
  <1>3. /\ pending' = [u \in DOMAIN pending' |-> pending'[u]]
        /\ \A u \in DOMAIN pending' : IsCall(pending'[u])
        /\ \A j : j # i => /\ Callers(j)' = Callers(j)
                           /\ \A u \in Callers(j) : pending'[u] = pending[u]
    <2>1. CASE Return(t)
      <3>1. /\ pending' = [u \in DOMAIN pending' |-> pending'[u]]
            /\ \A u \in DOMAIN pending' : IsCall(pending'[u])
            /\ \A j : \A u \in Callers(j) : u # t => pending'[u] = pending[u]
            /\ \A j : j # i => Callers(j)' = Callers(j) /\ t \notin Callers(j)
        BY <2>1, PendingReturn DEF InventoryInv
      <3> QED
        BY <3>1
    <2>2. CASE \E c : IsCall(c) /\ c.inv = i /\ Then(t, c)
      BY <2>2, PendingPut DEF InventoryInv
    <2> QED
      BY <2>1, <2>2
  <1>4. StorageTypes'
    BY <1>2, <1>3 DEF InventoryInv, StorageTypes
  <1>5. Snapshots'
    BY SnapshotsStay DEF InventoryInv
  <1>6. ASSUME NEW j \in Inventories \ astray', j # i
        PROVE  Coherent(j)'
    <2>1. Coherent(j)
      BY DEF InventoryInv
    <2> QED
      BY <1>2, <1>3, <1>6, <2>1, Untouched
  <1> QED
    BY <1>4, <1>5, <1>6 DEF InventoryInv

(* The last call to an inventory returns when both storages agree. *)
LEMMA LastReturns ==
    ASSUME NEW i, Callers(i)' = {},
           i \in DOMAIN cache' => i \in DOMAIN persistent' /\ cache'[i] = persistent'[i]
    PROVE  Coherent(i)'
  BY DEF Coherent, Overlaps

(* A call that is not an add is the only one to its inventory. *)
LEMMA AloneUnlessAdd ==
    ASSUME InventoryInv, NEW t \in DOMAIN pending, pending[t].inv \notin astray
    PROVE  /\ Coherent(pending[t].inv) /\ Behind(pending[t].inv, t)
           /\ t \in Callers(pending[t].inv) /\ pending[t].inv \in Inventories
           /\ pending[t].step # "add" => Callers(pending[t].inv) = {t}
  <1>1. t \in Callers(pending[t].inv) /\ pending[t].inv \in Inventories
    BY DEF Callers, InventoryInv, StorageTypes, IsCall
  <1>2. Coherent(pending[t].inv)
    BY <1>1 DEF InventoryInv
  <1> QED
    BY <1>1, <1>2 DEF Coherent, Overlaps

(* addItem, on the cache *)
LEMMA AddToCacheInv ==
    ASSUME InventoryInv, NEW t \in DOMAIN pending, AddToCache(t),
           UNCHANGED <<transactions, nextTransactionId, astray>>
    PROVE  InventoryInv'
  <1> DEFINE i == pending[t].inv
             x == pending[t].item
             n == pending[t].n
             m == Plus(Store!ItemsOf(cache, i), x, n)
  <1>1. i \in Inventories /\ x \in Items /\ n \in Store!Quantities /\ pending[t].step = "add"
    BY DEF AddToCache, InventoryInv, StorageTypes, IsCall
  <1>2. cache' = Put(cache, i, m) /\ Return(t) /\ UNCHANGED persistent
    BY StoreOps DEF AddToCache
  <1>3. m \in ItemMaps
    BY <1>1, StorageItems, ItemOps DEF InventoryInv, StorageTypes
  <1>4. PICK j : j = i
    OBVIOUS
  <1>5. /\ j \in DOMAIN cache' /\ cache'[j] = m /\ Store!ItemsOf(cache', j) = m
    BY <1>1, <1>2, <1>3, <1>4, StoragePut DEF InventoryInv, StorageTypes
  <1>6. /\ Callers(j)' = Callers(j) \ {t}
        /\ \A u \in Callers(j) : u # t => pending'[u] = pending[u]
    BY <1>2, PendingReturn DEF InventoryInv
  <1>7. ASSUME j \notin astray
        PROVE  Coherent(j)'
    <2>1. Coherent(j) /\ Behind(j, t) /\ t \in Callers(j)
      BY <1>4, <1>7, AloneUnlessAdd
    <2>2. AddsLead(j)
      BY <1>1, <2>1 DEF Behind
    <2>3. PICK F : Leads(F, Callers(j), pending, Store!ItemsOf(cache, j), persistent[j])
      BY <2>2 DEF AddsLead
    <2>4. \E G : Leads(G, Callers(j)', pending', m, persistent[j])
      BY <1>4, <1>6, <2>1, <2>3, LeadsLess
    <2>5. PICK G : Leads(G, Callers(j)', pending', m, persistent[j])
      BY <2>4
    <2>6. AddsLead(j)'
      <3>1. G \in [SUBSET Callers(j)' -> ItemMaps] /\ j \in DOMAIN persistent'
        BY <1>2, <2>2, <2>5 DEF Leads, AddsLead
      <3> QED
        BY <1>2, <1>5, <2>5, <3>1 DEF AddsLead
    <2>7. \A u \in Callers(j)' : pending'[u].step = "add"
      BY <1>6, <2>1 DEF Coherent, Overlaps
    <2>8. Overlaps(j)' /\ \A u \in Callers(j)' : Behind(j, u)'
      BY <1>5, <2>6, <2>7 DEF Overlaps, Behind
    <2>9. Callers(j)' = {} => j \in DOMAIN persistent' /\ cache'[j] = persistent'[j]
      BY <1>2, <1>5, <2>2, <2>5, LeadsEnds DEF AddsLead
    <2> QED
      BY <2>8, <2>9 DEF Coherent
  <1> QED
    BY <1>2, <1>3, <1>4, <1>7, CallGoesOn

(* setItem, on the cache *)
LEMMA SetInCacheInv ==
    ASSUME InventoryInv, NEW t \in DOMAIN pending, SetInCache(t),
           UNCHANGED <<transactions, nextTransactionId, astray>>
    PROVE  InventoryInv'
  <1> DEFINE i == pending[t].inv
             m == SetTo(Store!ItemsOf(cache, i), pending[t].item, pending[t].n)
  <1>1. /\ i \in Inventories /\ pending[t].item \in Items
        /\ pending[t].n \in Store!Quantities \cup {0} /\ pending[t].step = "set"
    BY DEF SetInCache, InventoryInv, StorageTypes, IsCall
  <1>2. cache' = Put(cache, i, m) /\ Return(t) /\ UNCHANGED persistent
    BY StoreOps DEF SetInCache
  <1>3. m \in ItemMaps
    BY <1>1, StorageItems, ItemOps DEF InventoryInv, StorageTypes
  <1>4. PICK j : j = i
    OBVIOUS
  <1>5. cache'[j] = m
    BY <1>1, <1>2, <1>3, <1>4, StoragePut DEF InventoryInv, StorageTypes
  <1>6. Callers(j)' = Callers(j) \ {t}
    BY <1>2, PendingReturn DEF InventoryInv
  <1>7. ASSUME j \notin astray
        PROVE  Coherent(j)'
    <2>1. Behind(j, t) /\ Callers(j) = {t}
      BY <1>1, <1>4, <1>7, AloneUnlessAdd
    <2>2. j \in DOMAIN persistent /\ persistent[j] = m
      BY <1>1, <1>4, <2>1 DEF Behind
    <2> QED
      BY <1>2, <1>5, <1>6, <2>1, <2>2, LastReturns
  <1> QED
    BY <1>2, <1>3, <1>4, <1>7, CallGoesOn

(* removeItem, on the cache, with the refresh that begins when it fails *)
LEMMA RemoveFromCacheInv ==
    ASSUME InventoryInv, NEW t \in DOMAIN pending, RemoveFromCache(t),
           UNCHANGED <<transactions, nextTransactionId, astray>>
    PROVE  InventoryInv'
  <1> DEFINE i == pending[t].inv
             x == pending[t].item
             n == pending[t].n
             had == Store!ItemsOf(cache, i)
             c == [step |-> "read", inv |-> i]
  <1>1. /\ i \in Inventories /\ x \in Items /\ n \in Store!Quantities
        /\ pending[t].step = "remove" /\ had \in ItemMaps
    BY StorageItems DEF RemoveFromCache, InventoryInv, StorageTypes, IsCall
  <1>2. PICK j : j = i
    OBVIOUS
  <1>3. ASSUME j \notin astray
        PROVE  /\ Callers(j) = {t} /\ j \in DOMAIN persistent
               /\ j \in DOMAIN cache => Enough(had, x, n) /\ persistent[j] = Less(had, x, n)
    <2>1. Behind(j, t) /\ Callers(j) = {t}
      BY <1>1, <1>2, <1>3, AloneUnlessAdd
    <2>2. j \in DOMAIN cache => had = cache[j]
      BY <1>2, StoreOps
    <2> QED
      BY <1>1, <1>2, <2>1, <2>2 DEF Behind
  <1>4. CASE Store!CanRemove(cache, i, x, n)
    <2> DEFINE m == Less(had, x, n)
    <2>1. /\ cache' = Put(cache, i, m) /\ Return(t) /\ UNCHANGED persistent
          /\ Enough(had, x, n)
      BY <1>4, StoreOps DEF RemoveFromCache
    <2>2. m \in ItemMaps
      BY <1>1, <2>1, ItemOps
    <2>3. cache'[j] = m /\ j \in DOMAIN cache'
      BY <1>1, <1>2, <2>1, <2>2, StoragePut DEF InventoryInv, StorageTypes
    <2>4. Callers(j)' = Callers(j) \ {t}
      BY <2>1, PendingReturn DEF InventoryInv
    <2>5. j \in DOMAIN cache
      BY <1>2, <2>1, StoreOps DEF Enough, EmptyMap
    <2>6. j \notin astray => Coherent(j)'
      BY <1>3, <2>1, <2>3, <2>4, <2>5, LastReturns
    <2> QED
      BY <1>2, <2>1, <2>2, <2>6, CallGoesOn
  <1>5. CASE ~Store!CanRemove(cache, i, x, n)
    <2>1. cache' = Put(cache, i, had) /\ Then(t, c) /\ UNCHANGED persistent
      BY <1>5, StoreOps DEF RemoveFromCache
    <2>2. IsCall(c) /\ c.inv = j /\ c.step = "read"
      BY <1>1, <1>2 DEF IsCall
    <2> HIDE DEF c
    <2>3. Callers(j)' = Callers(j) \cup {t} /\ pending'[t] = c
      BY <1>2, <2>1, <2>2, PendingPut DEF InventoryInv
    <2>4. ASSUME j \notin astray
          PROVE  Coherent(j)'
      <3>1. Behind(j, t)'
        BY <1>3, <2>1, <2>2, <2>3, <2>4 DEF Behind
      <3> QED
        BY <1>3, <2>3, <2>4, <3>1, OneCaller
    <2> QED
      BY <1>1, <1>2, <2>1, <2>2, <2>4, CallGoesOn
  <1> QED
    BY <1>4, <1>5

(* The refresh reads the persistent storage... *)
LEMMA ReadPersistentInv ==
    ASSUME InventoryInv, NEW t \in DOMAIN pending, ReadPersistent(t),
           UNCHANGED <<transactions, nextTransactionId, astray>>
    PROVE  InventoryInv'
  <1> DEFINE i == pending[t].inv
             c == [step |-> "fill", inv |-> i, items |-> persistent[i]]
  <1>1. /\ i \in Inventories /\ pending[t].step = "read"
        /\ UNCHANGED <<persistent, cache>>
    BY DEF ReadPersistent, storages, InventoryInv, StorageTypes, IsCall
  <1>2. PICK j : j = i
    OBVIOUS
  <1>3. j \notin astray => Behind(j, t) /\ Callers(j) = {t}
    BY <1>1, <1>2, AloneUnlessAdd
  <1>4. CASE i \in DOMAIN persistent
    <2>1. Then(t, c)
      BY <1>4 DEF ReadPersistent
    <2>2. IsCall(c) /\ c.inv = j /\ c.step = "fill" /\ c.items = persistent[j]
      BY <1>1, <1>2, <1>4 DEF IsCall, InventoryInv, StorageTypes, IsStorage, IsMap
    <2> HIDE DEF c
    <2>3. Callers(j)' = Callers(j) \cup {t} /\ pending'[t] = c
      BY <1>2, <2>1, <2>2, PendingPut DEF InventoryInv
    <2>4. ASSUME j \notin astray
          PROVE  Coherent(j)'
      <3>1. Behind(j, t)'
        BY <1>1, <1>2, <1>4, <2>2, <2>3 DEF Behind
      <3> QED
        BY <1>3, <2>3, <2>4, <3>1, OneCaller
    <2> QED
      BY <1>1, <1>2, <2>1, <2>2, <2>4, EmptyIsItemMap, CallGoesOn
  <1>5. CASE i \notin DOMAIN persistent
    <2>1. Return(t)
      BY <1>5 DEF ReadPersistent
    <2>2. Callers(j)' = Callers(j) \ {t}
      BY <2>1, PendingReturn DEF InventoryInv
    <2>3. ASSUME j \notin astray
          PROVE  Coherent(j)'
      <3>1. j \notin DOMAIN cache'
        BY <1>1, <1>2, <1>3, <1>5, <2>3 DEF Behind
      <3> QED
        BY <1>3, <2>2, <2>3, <3>1, LastReturns
    <2> QED
      BY <1>1, <1>2, <2>1, <2>3, EmptyIsItemMap, CallGoesOn
  <1> QED
    BY <1>4, <1>5

(* ... and fills the cache with what it read. *)
LEMMA FillCacheInv ==
    ASSUME InventoryInv, NEW t \in DOMAIN pending, FillCache(t),
           UNCHANGED <<transactions, nextTransactionId, astray>>
    PROVE  InventoryInv'
  <1> DEFINE i == pending[t].inv
             m == pending[t].items
  <1>1. /\ i \in Inventories /\ m \in ItemMaps /\ pending[t].step = "fill"
        /\ cache' = Put(cache, i, m) /\ Return(t) /\ UNCHANGED persistent
    BY DEF FillCache, InventoryInv, StorageTypes, IsCall
  <1>2. PICK j : j = i
    OBVIOUS
  <1>3. cache'[j] = m
    BY <1>1, <1>2, StoragePut DEF InventoryInv, StorageTypes
  <1>4. Callers(j)' = Callers(j) \ {t}
    BY <1>1, PendingReturn DEF InventoryInv
  <1>5. ASSUME j \notin astray
        PROVE  Coherent(j)'
    <2>1. Behind(j, t) /\ Callers(j) = {t}
      BY <1>1, <1>2, <1>5, AloneUnlessAdd
    <2>2. j \in DOMAIN persistent /\ persistent[j] = m
      BY <1>1, <1>2, <2>1 DEF Behind
    <2> QED
      BY <1>1, <1>3, <1>4, <2>1, <2>2, LastReturns
  <1> QED
    BY <1>1, <1>2, <1>5, CallGoesOn

-----------------------------------------------------------------------------
(* Transactions, while no call is under way *)

(* Without calls, coherent storages agree. *)
LEMMA QuietStorages ==
    ASSUME InventoryInv, pending = EmptyMap
    PROVE  /\ \A j : Callers(j) = {}
           /\ \A j \in DOMAIN cache \ astray : j \in DOMAIN persistent /\ cache[j] = persistent[j]
  <1>1. \A j : Callers(j) = {}
    BY DEF Callers, EmptyMap
  <1>2. DOMAIN cache \subseteq Inventories
    BY DEF InventoryInv, StorageTypes, IsStorage, IsMap
  <1> QED
    BY <1>1, <1>2 DEF InventoryInv, Coherent

LEMMA BeginTransactionInv ==
    ASSUME InventoryInv, BeginTransaction
    PROVE  InventoryInv'
  <1> DEFINE snapshot == [persistent |-> persistent, cache |-> cache]
             id == nextTransactionId
  <1>1. /\ pending = EmptyMap /\ id <= MaxTransactions
        /\ transactions' = Put(transactions, id, snapshot)
        /\ nextTransactionId' = id + 1
        /\ UNCHANGED <<persistent, cache, pending, astray>>
    BY DEF BeginTransaction, storages
  <1>2. snapshot.persistent = persistent /\ snapshot.cache = cache
    OBVIOUS
  <1> HIDE DEF snapshot
  <1>3. id \in Nat \ {0} /\ MaxTransactions \in Nat
    BY InventoryConstants DEF InventoryInv, Snapshots
  <1>4. /\ DOMAIN transactions' = DOMAIN transactions \cup {id}
        /\ transactions'[id] = snapshot
        /\ \A tx \in DOMAIN transactions : tx # id => transactions'[tx] = transactions[tx]
        /\ transactions' = [tx \in DOMAIN transactions' |-> transactions'[tx]]
    BY <1>1 DEF Put
  <1>5. /\ nextTransactionId' \in Nat \ {0}
        /\ DOMAIN transactions' \subseteq 1 .. nextTransactionId' - 1
        /\ DOMAIN transactions' \subseteq 1 .. MaxTransactions
    BY <1>1, <1>3, <1>4 DEF InventoryInv, Snapshots
  <1>6. ASSUME NEW tx \in DOMAIN transactions'
        PROVE  /\ IsStorage(transactions'[tx].persistent) /\ IsStorage(transactions'[tx].cache)
               /\ \A i \in DOMAIN transactions'[tx].cache \ astray' :
                    /\ i \in DOMAIN transactions'[tx].persistent
                    /\ transactions'[tx].cache[i] = transactions'[tx].persistent[i]
    <2>1. CASE tx = id
      BY <1>1, <1>2, <1>4, <2>1, QuietStorages DEF InventoryInv, StorageTypes
    <2>2. CASE tx # id
      BY <1>1, <1>4, <2>2 DEF InventoryInv, Snapshots
    <2> QED
      BY <2>1, <2>2
  <1>7. Snapshots'
    BY <1>4, <1>5, <1>6 DEF Snapshots
  <1>8. StorageTypes'
    BY <1>1 DEF InventoryInv, StorageTypes
  <1>9. \A j : Callers(j)' = Callers(j)
    BY <1>1 DEF Callers
  <1>10. ASSUME NEW j \in Inventories \ astray'
         PROVE  Coherent(j)'
    <2>1. Coherent(j)
      BY <1>1 DEF InventoryInv
    <2> QED
      BY <1>1, <1>9, <2>1, Untouched
  <1> QED
    BY <1>7, <1>8, <1>10 DEF InventoryInv

(* A commit forgets the snapshot, a rollback goes back to it. *)
LEMMA EndTransactionInv ==
    ASSUME InventoryInv, NEW tx \in DOMAIN transactions,
           CommitTransaction(tx) \/ RollbackTransaction(tx)
    PROVE  InventoryInv'
  <1>1. /\ pending = EmptyMap /\ transactions' = Without(transactions, {tx})
        /\ UNCHANGED <<nextTransactionId, pending, astray>>
    BY DEF CommitTransaction, RollbackTransaction
  <1>2. /\ DOMAIN transactions' = DOMAIN transactions \ {tx}
        /\ \A o \in DOMAIN transactions' : transactions'[o] = transactions[o]
        /\ transactions' = [o \in DOMAIN transactions' |-> transactions'[o]]
    BY <1>1 DEF Without, Restrict
  <1>3. Snapshots'
    <2>1. /\ nextTransactionId' \in Nat \ {0}
          /\ DOMAIN transactions' \subseteq 1 .. nextTransactionId' - 1
          /\ DOMAIN transactions' \subseteq 1 .. MaxTransactions
      BY <1>1, <1>2 DEF InventoryInv, Snapshots
    <2>2. ASSUME NEW o \in DOMAIN transactions'
          PROVE  /\ IsStorage(transactions'[o].persistent) /\ IsStorage(transactions'[o].cache)
                 /\ \A i \in DOMAIN transactions'[o].cache \ astray' :
                      /\ i \in DOMAIN transactions'[o].persistent
                      /\ transactions'[o].cache[i] = transactions'[o].persistent[i]
      <3>1. o \in DOMAIN transactions /\ transactions'[o] = transactions[o] /\ astray' = astray
        BY <1>1, <1>2
      <3> QED
        BY <3>1 DEF InventoryInv, Snapshots
    <2> QED
      BY <1>2, <2>1, <2>2 DEF Snapshots
  <1>4. /\ IsStorage(persistent') /\ IsStorage(cache')
        /\ \A j \in DOMAIN cache' \ astray :
            j \in DOMAIN persistent' /\ cache'[j] = persistent'[j]
    <2>1. CASE CommitTransaction(tx)
      <3>1. UNCHANGED <<persistent, cache>>
        BY <2>1 DEF CommitTransaction, storages
      <3> QED
        BY <1>1, <3>1, QuietStorages DEF InventoryInv, StorageTypes
    <2>2. CASE RollbackTransaction(tx)
      <3>1. persistent' = transactions[tx].persistent /\ cache' = transactions[tx].cache
        BY <2>2 DEF RollbackTransaction
      <3> QED
        BY <3>1 DEF InventoryInv, Snapshots
    <2> QED
      BY <2>1, <2>2
  <1>5. StorageTypes'
    BY <1>1, <1>4 DEF InventoryInv, StorageTypes
  <1>6. \A j : Callers(j)' = {}
    BY <1>1 DEF Callers, EmptyMap
  <1>7. ASSUME NEW j \in Inventories \ astray'
        PROVE  Coherent(j)'
    BY <1>1, <1>4, <1>6, LastReturns
  <1> QED
    BY <1>3, <1>5, <1>7 DEF InventoryInv

-----------------------------------------------------------------------------
(* The invariant of every behaviour *)

LEMMA InventoryInitInv == InventoryInit => InventoryInv
  <1> SUFFICES ASSUME InventoryInit
               PROVE  InventoryInv
    OBVIOUS
  <1>1. /\ persistent = Store!StoredAtStart /\ cache = EmptyMap
        /\ transactions = EmptyMap /\ nextTransactionId = 1 /\ pending = EmptyMap
    BY DEF InventoryInit
  <1>2. IsStorage(cache)
    BY <1>1 DEF IsStorage, IsMap, EmptyMap
  <1>3. IsStorage(persistent)
    <2> DEFINE one == [x \in Items |-> 1]
    <2>1. one \in ItemMaps
      BY ItemMap, InventoryConstants
    <2>2. persistent = [i \in StoredBefore |-> one]
      BY <1>1 DEF Store!StoredAtStart
    <2> HIDE DEF one
    <2> QED
      BY <2>1, <2>2, InventoryConstants DEF IsStorage, IsMap
  <1>4. StorageTypes
    BY <1>1, <1>2, <1>3 DEF StorageTypes, EmptyMap
  <1>5. Snapshots
    BY <1>1 DEF Snapshots, EmptyMap
  <1>6. ASSUME NEW i
        PROVE  Coherent(i)
    BY <1>1 DEF Coherent, Overlaps, Callers, EmptyMap
  <1> QED
    BY <1>4, <1>5, <1>6 DEF InventoryInv

LEMMA InventoryNextInv == InventoryInv /\ [InventoryNext]_inventoryVars => InventoryInv'
  <1> SUFFICES ASSUME InventoryInv, [InventoryNext]_inventoryVars
               PROVE  InventoryInv'
    OBVIOUS
  <1>1. CASE UNCHANGED inventoryVars
    <2>1. UNCHANGED <<persistent, cache, transactions, nextTransactionId, pending, astray>>
      BY <1>1 DEF inventoryVars, storages
    <2>2. \A j : Callers(j)' = Callers(j)
      BY <2>1 DEF Callers
    <2>3. ASSUME NEW j \in Inventories \ astray'
          PROVE  Coherent(j)'
      <3>1. Coherent(j)
        BY <2>1 DEF InventoryInv
      <3> QED
        BY <2>1, <2>2, <3>1, Untouched
    <2> QED
      BY <2>1, <2>3, SnapshotsStay DEF InventoryInv, StorageTypes
  <1>2. ASSUME NEW t \in Threads, NEW i \in Inventories, NEW x \in Items,
               NEW n \in Store!Quantities,
               \/ CallAddItem(t, i, x, n) \/ CallRemoveItem(t, i, x, n)
               \/ CallSaveInventory(t, i, x, n)
        PROVE  InventoryInv'
    BY <1>2, CallAddItemInv, CallRemoveItemInv, RemoveFailsInv, CallSaveInventoryInv
  <1>3. ASSUME NEW t \in Threads, NEW i \in Inventories, NEW x \in Items,
               NEW n \in Store!Quantities \cup {0}, CallSetItem(t, i, x, n)
        PROVE  InventoryInv'
    BY <1>3, CallSetItemInv
  <1>4. ASSUME NEW t \in Threads, NEW i \in Inventories, CallLoadInventory(t, i)
        PROVE  InventoryInv'
    BY <1>4, CallLoadInventoryInv
  <1>5. ASSUME NEW t \in Threads, Continue(t)
        PROVE  InventoryInv'
    BY <1>5, AddToCacheInv, SetInCacheInv, RemoveFromCacheInv, ReadPersistentInv, FillCacheInv
       DEF Continue
  <1>6. CASE BeginTransaction
    BY <1>6, BeginTransactionInv
  <1>7. CASE \E tx \in DOMAIN transactions : CommitTransaction(tx) \/ RollbackTransaction(tx)
    BY <1>7, EndTransactionInv
  <1> QED
    BY <1>1, <1>2, <1>3, <1>4, <1>5, <1>6, <1>7 DEF InventoryNext

(* Every state of the cached storage satisfies the invariant. *)
THEOREM InventoryInvariant == InventorySpec => []InventoryInv
  BY InventoryInitInv, InventoryNextInv, PTL DEF InventorySpec

(* CachedInventoryStorage keeps cache and persistent storage together:       *)
(* between the calls to an inventory that is not astray, what the cache      *)
(* holds of it is what the persistent storage holds.                         *)
THEOREM InventoryCoherent == InventorySpec => []CacheCoherent
  <1>1. InventoryInv => CacheCoherent
    BY DEF InventoryInv, StorageTypes, IsStorage, IsMap, Coherent, Callers, CacheCoherent
  <1> QED
    BY <1>1, InventoryInvariant, PTL

-----------------------------------------------------------------------------
(* To its callers the pair of storages is one store *)

(* The store and the saved stores of the mapping. *)
Answers == Visible(persistent, cache, Copying)
Saved == [tx \in DOMAIN transactions |->
            Visible(transactions[tx].persistent, transactions[tx].cache, {})]

Owed == [t \in DOMAIN pending |->
            IF pending[t].step \in {"read", "fill"} \/ pending[t].inv \notin DOMAIN cache
            THEN [step |-> "done"] ELSE pending[t]]

(* The effect that thread t has yet to have. *)
Owes(t) == IF pending[t].step \in {"read", "fill"} \/ pending[t].inv \notin DOMAIN cache
           THEN Store!Done ELSE pending[t]

(* A step of the store to its callers. *)
StoreStep == Store!StoreNext \/ UNCHANGED Store!storeVars

(* What loadInventory answers for one inventory. *)
Shown(i) == IF i \in DOMAIN cache \ Copying THEN cache[i] ELSE Store!ItemsOf(persistent, i)

(* What a call makes of the items of its inventory. *)
Effect(c, old, new) ==
    \/ c.step = "add" /\ new = Plus(old, c.item, c.n)
    \/ c.step = "remove" /\ Enough(old, c.item, c.n) /\ new = Less(old, c.item, c.n)
    \/ c.step = "set" /\ new = SetTo(old, c.item, c.n)
    \/ c.step = "save" /\ new = Put(EmptyMap, c.item, c.n)
    \/ c.step = "load" /\ new = old

(* The mapped store, inventory by inventory, before and after a step. *)
LEMMA AnswersShown ==
    /\ Answers = [i \in Inventories |-> Shown(i)]
    /\ Answers' = [i \in Inventories |-> Shown(i)']
  <1>1. Answers = [i \in Inventories |-> Shown(i)]
    BY StoreOps DEF Answers, Visible, Shown
  <1>2. Answers' = [i \in Inventories |-> Shown(i)']
    BY StoreOps DEF Answers, Visible, Shown
  <1> QED
    BY <1>1, <1>2

LEMMA CopyingCalls ==
    ASSUME NEW i
    PROVE  /\ i \in Copying <=> \E t \in Callers(i) : pending[t].step \in {"read", "fill"}
           /\ i \in Copying' <=> \E t \in Callers(i)' : pending'[t].step \in {"read", "fill"}
  <1>1. i \in Copying <=> \E t \in Callers(i) : pending[t].step \in {"read", "fill"}
    BY DEF Copying, Callers
  <1>2. i \in Copying' <=> \E t \in Callers(i)' : pending'[t].step \in {"read", "fill"}
    BY DEF Copying, Callers
  <1> QED
    BY <1>1, <1>2

(* The mapped calls, thread by thread, before and after a step. *)
LEMMA OwedOwes ==
    /\ Owed = [t \in DOMAIN pending |-> Owes(t)]
    /\ Owed' = [t \in DOMAIN pending' |-> Owes(t)']
  <1>1. Owed = [t \in DOMAIN pending |-> Owes(t)]
    BY DEF Owed, Owes, Store!Done
  <1>2. Owed' = [t \in DOMAIN pending' |-> Owes(t)']
    BY DEF Owed, Owes, Store!Done
  <1> QED
    BY <1>1, <1>2

(* A step that lets one inventory be seen to change as a call changes it has *)
(* the effect of that call on the abstract store.                            *)
LEMMA EffectShows ==
    ASSUME NEW c, NEW i \in Inventories, c.inv = i,
           \A j \in Inventories : j # i => Shown(j)' = Shown(j),
           Effect(c, Shown(i), Shown(i)')
    PROVE  Store!TakeEffect(c)
  <1>1. Answers = [j \in Inventories |-> Shown(j)] /\ Answers' = [j \in Inventories |-> Shown(j)']
    BY AnswersShown
  <1>2. PICK old, x, n : old = Shown(i) /\ x = c.item /\ n = c.n
    OBVIOUS
  <1>3. Store!ItemsOf(Answers, i) = old
    BY <1>1, <1>2, StoreOps
  <1>4. \A m : Shown(i)' = m => Answers' = Put(Answers, i, m)
    BY <1>1 DEF Put
  <1>5. \A m : Shown(i)' = m => Answers' = [Answers EXCEPT ![i] = m]
    BY <1>1
  <1>6. CASE c.step = "add" /\ Shown(i)' = Plus(old, x, n)
    <2>1. Answers' = Store!AddItem(Answers, c.inv, c.item, c.n)
      BY <1>2, <1>3, <1>4, <1>6, StoreOps
    <2> QED
      BY <1>6, <2>1 DEF Store!TakeEffect, Answers
  <1>7. CASE c.step = "remove" /\ Enough(old, x, n) /\ Shown(i)' = Less(old, x, n)
    <2>1. /\ Store!CanRemove(Answers, c.inv, c.item, c.n)
          /\ Answers' = Store!RemoveItem(Answers, c.inv, c.item, c.n)
      BY <1>2, <1>3, <1>4, <1>7, StoreOps
    <2> QED
      BY <1>7, <2>1 DEF Store!TakeEffect, Answers
  <1>8. CASE c.step = "set" /\ Shown(i)' = SetTo(old, x, n)
    <2>1. Answers' = Store!SetItem(Answers, c.inv, c.item, c.n)
      BY <1>2, <1>3, <1>4, <1>8, StoreOps
    <2> QED
      BY <1>8, <2>1 DEF Store!TakeEffect, Answers
  <1>9. CASE c.step = "save" /\ Shown(i)' = Put(EmptyMap, x, n)
    <2>1. Answers' = [Answers EXCEPT ![c.inv] = Store!Put(Store!EmptyMap, c.item, c.n)]
      BY <1>2, <1>5, <1>9, SameMaps
    <2> QED
      BY <1>9, <2>1 DEF Store!TakeEffect, Answers
  <1>10. CASE c.step = "load" /\ Shown(i)' = old
    <2>1. Answers' = Answers
      BY <1>1, <1>2, <1>10
    <2> QED
      BY <1>10, <2>1 DEF Store!TakeEffect, Answers
  <1> QED
    BY <1>2, <1>6, <1>7, <1>8, <1>9, <1>10 DEF Effect

(* A step after which everything is answered as before. *)
LEMMA AnswersStay ==
    ASSUME \A j \in Inventories : Shown(j)' = Shown(j)
    PROVE  Answers' = Answers
  BY AnswersShown

(* A step that nobody sees. *)
LEMMA NothingShown ==
    ASSUME UNCHANGED transactions, \A j \in Inventories : Shown(j)' = Shown(j),
           Owed' = Owed
    PROVE  StoreStep
  <1>1. Answers' = Answers
    BY AnswersStay
  <1>2. Saved' = Saved
    BY DEF Saved
  <1> QED
    BY <1>1, <1>2 DEF StoreStep, Store!storeVars, Answers, Saved, Owed

(* A call of the abstract store begins, with its effect or before it. *)
LEMMA StoreCalls ==
    ASSUME NEW t \in Threads, t \notin DOMAIN pending, NEW call \in Store!Calls,
           UNCHANGED transactions,
           \/ Answers' = Answers /\ Owed' = Put(Owed, t, call)
           \/ Store!TakeEffect(call) /\ Owed' = Put(Owed, t, Store!Done)
    PROVE  StoreStep
  <1>1. Saved' = Saved
    BY DEF Saved
  <1>2. t \notin DOMAIN Owed
    BY DEF Owed
  <1>3. \/ Answers' = Answers /\ Owed' = Store!Put(Owed, t, call)
        \/ Store!TakeEffect(call) /\ Owed' = Store!Put(Owed, t, Store!Done)
    BY SameMaps
  <1>4. Store!StoreCall(t, call)
    BY <1>1, <1>2, <1>3 DEF Store!StoreCall, Answers, Saved, Owed
  <1> QED
    BY <1>4 DEF StoreStep, Store!StoreNext

(* A call of the abstract store returns, with its effect or after it. *)
LEMMA StoreReturns ==
    ASSUME NEW t \in Threads, t \in DOMAIN pending, UNCHANGED transactions,
           \/ Owes(t) = Store!Done /\ Answers' = Answers
           \/ Owes(t) # Store!Done /\ Store!TakeEffect(Owes(t)),
           Owed' = Without(Owed, {t})
    PROVE  StoreStep
  <1>1. Saved' = Saved
    BY DEF Saved
  <1>2. t \in DOMAIN Owed /\ Owed[t] = Owes(t)
    BY OwedOwes
  <1>3. Owed' = Store!Without(Owed, {t})
    BY SameMaps
  <1>4. \/ Owed[t] = Store!Done /\ Answers' = Answers
        \/ Owed[t] # Store!Done /\ Store!TakeEffect(Owed[t])
    BY <1>2
  <1>5. Store!StoreReturn(t)
    BY <1>1, <1>2, <1>3, <1>4 DEF Store!StoreReturn, Answers, Saved, Owed
  <1> QED
    BY <1>5 DEF StoreStep, Store!StoreNext

(* A thread that a step leaves alone owes what it owed. *)
LEMMA OwesStays ==
    ASSUME NEW u, pending'[u] = pending[u],
           pending[u].inv \in DOMAIN cache' <=> pending[u].inv \in DOMAIN cache
    PROVE  Owes(u)' = Owes(u)
  BY DEF Owes, Store!Done

(* The call that begins is the only one that the table of calls gains. *)
LEMMA OwedBegins ==
    ASSUME NEW t, t \notin DOMAIN pending, NEW c, Then(t, c), UNCHANGED cache
    PROVE  Owed' = Put(Owed, t, Owes(t)')
  <1>1. /\ DOMAIN pending' = DOMAIN pending \cup {t}
        /\ \A u \in DOMAIN pending : pending'[u] = pending[u]
    BY DEF Then, Put
  <1>2. \A u \in DOMAIN pending : Owes(u)' = Owes(u)
    BY <1>1, OwesStays
  <1>3. PICK o : o = Owes(t)'
    OBVIOUS
  <1>4. /\ DOMAIN Owed = DOMAIN pending /\ DOMAIN Owed' = DOMAIN pending'
        /\ \A u \in DOMAIN pending : Owed[u] = Owes(u)
        /\ \A u \in DOMAIN pending' : Owed'[u] = Owes(u)'
        /\ Owed' = [u \in DOMAIN Owed' |-> Owed'[u]]
    BY OwedOwes
  <1>5. /\ DOMAIN Owed' = DOMAIN Owed \cup {t} /\ Owed'[t] = o
        /\ \A u \in DOMAIN Owed : u # t => Owed'[u] = Owed[u]
    BY <1>1, <1>2, <1>3, <1>4
  <1> HIDE DEF Owed
  <1> QED
    BY <1>3, <1>4, <1>5 DEF Put

(* The cached inventories that the calls of other threads are about are the  *)
(* same after a call has gone on with an inventory that is cached or that no *)
(* other call is about.                                                      *)
LEMMA OthersOwe ==
    ASSUME InventoryInv, NEW t \in DOMAIN pending, NEW i, i = pending[t].inv,
           NEW m \in ItemMaps,
           UNCHANGED cache \/ cache' = Put(cache, i, m),
           UNCHANGED cache \/ i \in DOMAIN cache \/ Callers(i) = {t},
           NEW u \in DOMAIN pending, u # t, pending'[u] = pending[u]
    PROVE  Owes(u)' = Owes(u)
  <1>1. CASE UNCHANGED cache
    BY <1>1, OwesStays
  <1>2. CASE cache' = Put(cache, i, m)
    <2>1. DOMAIN cache' = DOMAIN cache \cup {i}
      BY <1>2 DEF Put
    <2>2. Callers(i) = {t} => pending[u].inv # i
      BY DEF Callers
    <2>3. pending[u].inv \in DOMAIN cache' <=> pending[u].inv \in DOMAIN cache
      BY <2>1, <2>2
    <2> QED
      BY <2>3, OwesStays
  <1> QED
    BY <1>1, <1>2

(* The call that returns is the only one that the table of calls loses. *)
LEMMA OwedReturns ==
    ASSUME InventoryInv, NEW t \in DOMAIN pending, NEW i, i = pending[t].inv,
           NEW m \in ItemMaps,
           UNCHANGED cache \/ cache' = Put(cache, i, m),
           UNCHANGED cache \/ i \in DOMAIN cache \/ Callers(i) = {t},
           Return(t)
    PROVE  Owed' = Without(Owed, {t})
  <1>1. /\ DOMAIN pending' = DOMAIN pending \ {t}
        /\ \A u \in DOMAIN pending : u # t => pending'[u] = pending[u]
    BY DEF Return, Without, Restrict
  <1>2. \A u \in DOMAIN pending : u # t => Owes(u)' = Owes(u)
    BY <1>1, OthersOwe
  <1>3. /\ DOMAIN Owed = DOMAIN pending /\ DOMAIN Owed' = DOMAIN pending'
        /\ \A u \in DOMAIN pending : Owed[u] = Owes(u)
        /\ \A u \in DOMAIN pending' : Owed'[u] = Owes(u)'
        /\ Owed' = [u \in DOMAIN Owed' |-> Owed'[u]]
    BY OwedOwes
  <1>4. /\ DOMAIN Owed' = DOMAIN Owed \ {t}
        /\ \A u \in DOMAIN Owed : u # t => Owed'[u] = Owed[u]
    BY <1>1, <1>2, <1>3
  <1> HIDE DEF Owed
  <1> QED
    BY <1>3, <1>4 DEF Without, Restrict

(* A call that has had its effect goes on. *)
LEMMA OwedGoesOn ==
    ASSUME InventoryInv, NEW t \in DOMAIN pending, NEW i, i = pending[t].inv,
           NEW m \in ItemMaps,
           UNCHANGED cache \/ cache' = Put(cache, i, m),
           UNCHANGED cache \/ i \in DOMAIN cache \/ Callers(i) = {t},
           NEW c, c.step \in {"read", "fill"}, Then(t, c), Owes(t) = Store!Done
    PROVE  Owed' = Owed
  <1>1. /\ DOMAIN pending' = DOMAIN pending /\ pending'[t] = c
        /\ \A u \in DOMAIN pending : u # t => pending'[u] = pending[u]
    BY DEF Then, Put
  <1>2. \A u \in DOMAIN pending : u # t => Owes(u)' = Owes(u)
    BY <1>1, OthersOwe
  <1>3. Owes(t)' = Store!Done
    BY <1>1 DEF Owes, Store!Done
  <1> QED
    BY <1>1, <1>2, <1>3, OwedOwes

(* An inventory that a step leaves alone answers as before. *)
LEMMA ShownStays ==
    ASSUME NEW j,
           j \in DOMAIN persistent' <=> j \in DOMAIN persistent,
           j \in DOMAIN persistent => persistent'[j] = persistent[j],
           j \in DOMAIN cache' <=> j \in DOMAIN cache,
           j \in DOMAIN cache => cache'[j] = cache[j],
           Callers(j)' = Callers(j),
           \A u \in Callers(j) : pending'[u] = pending[u]
    PROVE  Shown(j)' = Shown(j)
  <1>1. j \in Copying' <=> j \in Copying
    BY CopyingCalls
  <1>2. Store!ItemsOf(persistent', j) = Store!ItemsOf(persistent, j)
    BY DEF Store!ItemsOf
  <1> QED
    BY <1>1, <1>2 DEF Shown

(* A call that begins touches its inventory only. *)
LEMMA BeginShows ==
    ASSUME InventoryInv, NEW t, t \notin DOMAIN pending, NEW c, IsCall(c), Begin(t, c),
           NEW m \in ItemMaps,
           UNCHANGED persistent \/ persistent' = Put(persistent, c.inv, m),
           UNCHANGED cache
    PROVE  /\ \A j : j # c.inv => Shown(j)' = Shown(j)
           /\ Callers(c.inv)' = Callers(c.inv) \cup {t}
           /\ pending'[t] = c /\ t \notin Callers(c.inv)
           /\ \A u \in Callers(c.inv) : pending'[u] = pending[u]
  <1>1. c.inv \in Inventories
    BY DEF IsCall
  <1>2. \A j : j # c.inv => /\ j \in DOMAIN persistent' <=> j \in DOMAIN persistent
                            /\ j \in DOMAIN persistent => persistent'[j] = persistent[j]
    BY <1>1, StoragePut DEF InventoryInv, StorageTypes
  <1>3. /\ Callers(c.inv)' = Callers(c.inv) \cup {t} /\ pending'[t] = c
        /\ \A u \in DOMAIN pending : u # t => pending'[u] = pending[u]
        /\ \A j : j # c.inv => /\ Callers(j)' = Callers(j)
                               /\ \A u \in Callers(j) : pending'[u] = pending[u]
    BY PendingPut DEF Begin, InventoryInv
  <1>4. \A j : j # c.inv => Shown(j)' = Shown(j)
    BY <1>2, <1>3, ShownStays
  <1>5. Callers(c.inv) \subseteq DOMAIN pending
    BY DEF Callers
  <1> QED
    BY <1>3, <1>4, <1>5

(* So does a call that goes on. *)
LEMMA ContinueShows ==
    ASSUME InventoryInv, NEW t \in DOMAIN pending, NEW i, i = pending[t].inv,
           NEW m \in ItemMaps,
           UNCHANGED cache \/ cache' = Put(cache, i, m),
           UNCHANGED persistent,
           Return(t) \/ \E c : IsCall(c) /\ c.inv = i /\ Then(t, c)
    PROVE  \A j : j # i => Shown(j)' = Shown(j)
  <1>1. i \in Inventories
    BY DEF InventoryInv, StorageTypes, IsCall
  <1>2. \A j : j # i => /\ j \in DOMAIN cache' <=> j \in DOMAIN cache
                        /\ j \in DOMAIN cache => cache'[j] = cache[j]
    BY <1>1, StoragePut DEF InventoryInv, StorageTypes
  <1>3. ASSUME NEW j, j # i
        PROVE  Callers(j)' = Callers(j) /\ \A u \in Callers(j) : pending'[u] = pending[u]
    <2>1. CASE Return(t)
      BY <1>3, <2>1, PendingReturn DEF InventoryInv
    <2>2. CASE \E c : IsCall(c) /\ c.inv = i /\ Then(t, c)
      BY <1>3, <2>2, PendingPut DEF InventoryInv
    <2> QED
      BY <2>1, <2>2
  <1> QED
    BY <1>2, <1>3, ShownStays

(* A cached inventory answers from the cache unless a call is copying it. *)
LEMMA ShownCached ==
    ASSUME NEW i
    PROVE  /\ (\A u \in Callers(i) : pending[u].step \notin {"read", "fill"}) =>
                Shown(i) = IF i \in DOMAIN cache THEN cache[i] ELSE Store!ItemsOf(persistent, i)
           /\ (\A u \in Callers(i)' : pending'[u].step \notin {"read", "fill"}) =>
                Shown(i)' = IF i \in DOMAIN cache' THEN cache'[i] ELSE Store!ItemsOf(persistent', i)
           /\ (\E u \in Callers(i) : pending[u].step \in {"read", "fill"}) =>
                Shown(i) = Store!ItemsOf(persistent, i)
           /\ (\E u \in Callers(i)' : pending'[u].step \in {"read", "fill"}) =>
                Shown(i)' = Store!ItemsOf(persistent', i)
  <1>1. /\ (\A u \in Callers(i) : pending[u].step \notin {"read", "fill"}) => i \notin Copying
        /\ (\A u \in Callers(i)' : pending'[u].step \notin {"read", "fill"}) => i \notin Copying'
        /\ (\E u \in Callers(i) : pending[u].step \in {"read", "fill"}) => i \in Copying
        /\ (\E u \in Callers(i)' : pending'[u].step \in {"read", "fill"}) => i \in Copying'
    BY CopyingCalls
  <1> QED
    BY <1>1 DEF Shown

(* addItem, removeItem and setItem begin: the store is seen to change at     *)
(* once if the inventory is not cached, and not yet if it is.                *)
LEMMA WriteBegins ==
    ASSUME InventoryInv, NEW t \in Threads, t \notin DOMAIN pending, NEW c, IsCall(c), Begin(t, c),
           NEW m \in ItemMaps, persistent' = Put(persistent, c.inv, m),
           UNCHANGED <<cache, transactions>>, c.inv \notin astray',
           c.step \in {"add", "remove", "set"},
           c \in Store!Calls, Effect(c, Store!ItemsOf(persistent, c.inv), m)
    PROVE  StoreStep
  <1> DEFINE i == c.inv
  <1>1. i \in Inventories
    BY DEF IsCall
  <1>10. Owed' = Put(Owed, t, Owes(t)')
    BY OwedBegins DEF Begin
  <1>2. /\ \A j : j # i => Shown(j)' = Shown(j)
        /\ Callers(i)' = Callers(i) \cup {t}
        /\ pending'[t] = c
        /\ \A u \in Callers(i) : pending'[u] = pending[u]
    BY BeginShows
  <1>3. \A u \in Callers(i) : pending[u].step = "add"
    BY BeginMeets
  <1>4. /\ \A u \in Callers(i) : pending[u].step \notin {"read", "fill"}
        /\ \A u \in Callers(i)' : pending'[u].step \notin {"read", "fill"}
    BY <1>2, <1>3
  <1>5. Shown(i) = IF i \in DOMAIN cache THEN cache[i] ELSE Store!ItemsOf(persistent, i)
    BY <1>4, ShownCached
  <1>6. Shown(i)' = IF i \in DOMAIN cache' THEN cache'[i] ELSE Store!ItemsOf(persistent', i)
    BY <1>4, ShownCached
  <1>7. Store!ItemsOf(persistent', i) = m
    BY <1>1, StoragePut DEF InventoryInv, StorageTypes
  <1>8. CASE i \in DOMAIN cache
    <2>1. Shown(i)' = Shown(i)
      BY <1>5, <1>6, <1>8
    <2>2. \A j \in Inventories : Shown(j)' = Shown(j)
      BY <1>2, <2>1
    <2>3. Owes(t)' = c
      BY <1>2, <1>8 DEF Owes
    <2> QED
      BY <1>10, <2>2, <2>3, AnswersStay, StoreCalls
  <1>9. CASE i \notin DOMAIN cache
    <2>1. Shown(i)' = m /\ Shown(i) = Store!ItemsOf(persistent, i)
      BY <1>5, <1>6, <1>7, <1>9
    <2>2. Store!TakeEffect(c)
      BY <1>1, <1>2, <2>1, EffectShows
    <2>3. Owes(t)' = Store!Done
      BY <1>2, <1>9 DEF Owes, Store!Done
    <2> QED
      BY <1>10, <2>2, <2>3, StoreCalls
  <1> QED
    BY <1>8, <1>9

LEMMA CallAddItemShows ==
    ASSUME InventoryInv, NEW t \in Threads, NEW i \in Inventories, NEW x \in Items,
           NEW n \in Store!Quantities, CallAddItem(t, i, x, n), i \notin astray'
    PROVE  StoreStep
  <1> DEFINE c == [step |-> "add", inv |-> i, item |-> x, n |-> n]
             m == Plus(Store!ItemsOf(persistent, i), x, n)
  <1>1. t \notin DOMAIN pending /\ Begin(t, c) /\ UNCHANGED <<cache, transactions>>
    BY DEF CallAddItem
  <1>2. IsCall(c) /\ c.inv = i /\ c.item = x /\ c.n = n /\ c.step = "add"
    BY DEF IsCall
  <1>3. persistent' = Put(persistent, i, m)
    BY StoreOps DEF CallAddItem
  <1>4. m \in ItemMaps
    BY StorageItems, ItemOps DEF InventoryInv, StorageTypes
  <1>5. c \in Store!Calls
    BY DEF Store!Calls
  <1>6. Effect(c, Store!ItemsOf(persistent, i), m)
    BY DEF Effect
  <1> HIDE DEF c, m
  <1> QED
    BY <1>1, <1>2, <1>3, <1>4, <1>5, <1>6, WriteBegins

LEMMA CallSetItemShows ==
    ASSUME InventoryInv, NEW t \in Threads, NEW i \in Inventories, NEW x \in Items,
           NEW n \in Store!Quantities \cup {0}, CallSetItem(t, i, x, n), i \notin astray'
    PROVE  StoreStep
  <1> DEFINE c == [step |-> "set", inv |-> i, item |-> x, n |-> n]
             m == SetTo(Store!ItemsOf(persistent, i), x, n)
  <1>1. t \notin DOMAIN pending /\ Begin(t, c) /\ UNCHANGED <<cache, transactions>>
    BY DEF CallSetItem
  <1>2. IsCall(c) /\ c.inv = i /\ c.item = x /\ c.n = n /\ c.step = "set"
    BY DEF IsCall
  <1>3. persistent' = Put(persistent, i, m)
    BY StoreOps DEF CallSetItem
  <1>4. m \in ItemMaps
    BY StorageItems, ItemOps DEF InventoryInv, StorageTypes
  <1>5. c \in Store!Calls
    BY DEF Store!Calls
  <1>6. Effect(c, Store!ItemsOf(persistent, i), m)
    BY DEF Effect
  <1> HIDE DEF c, m
  <1> QED
    BY <1>1, <1>2, <1>3, <1>4, <1>5, <1>6, WriteBegins

LEMMA CallRemoveItemShows ==
    ASSUME InventoryInv, NEW t \in Threads, NEW i \in Inventories, NEW x \in Items,
           NEW n \in Store!Quantities, CallRemoveItem(t, i, x, n), i \notin astray'
    PROVE  StoreStep
  <1> DEFINE c == [step |-> "remove", inv |-> i, item |-> x, n |-> n]
             old == Store!ItemsOf(persistent, i)
             m == Less(old, x, n)
  <1>1. CASE Store!CanRemove(persistent, i, x, n)
    <2>1. t \notin DOMAIN pending /\ Begin(t, c) /\ UNCHANGED <<cache, transactions>>
      BY <1>1 DEF CallRemoveItem
    <2>2. IsCall(c) /\ c.inv = i /\ c.item = x /\ c.n = n /\ c.step = "remove"
      BY DEF IsCall
    <2>3. persistent' = Put(persistent, i, m)
      BY <1>1, StoreOps DEF CallRemoveItem
    <2>4. Enough(old, x, n)
      BY <1>1, StoreOps
    <2>5. m \in ItemMaps
      BY <2>4, StorageItems, ItemOps DEF InventoryInv, StorageTypes
    <2>6. c \in Store!Calls
      BY DEF Store!Calls
    <2>7. Effect(c, old, m)
      BY <2>4 DEF Effect
    <2> HIDE DEF c, m
    <2> QED
      BY <2>1, <2>2, <2>3, <2>5, <2>6, <2>7, WriteBegins
  <1>2. CASE ~Store!CanRemove(persistent, i, x, n)
    <2>1. /\ persistent' = Put(persistent, i, old)
          /\ UNCHANGED <<cache, pending, transactions>>
      BY <1>2, RemoveFailsInv
    <2>2. \A j : Store!ItemsOf(persistent', j) = Store!ItemsOf(persistent, j)
      BY <2>1 DEF Put, Store!ItemsOf
    <2>3. Copying' = Copying
      BY <2>1 DEF Copying
    <2>4. \A j \in Inventories : Shown(j)' = Shown(j)
      BY <2>1, <2>2, <2>3 DEF Shown
    <2>5. Owed' = Owed
      BY <2>1 DEF Owed
    <2> QED
      BY <2>1, <2>4, <2>5, NothingShown
  <1> QED
    BY <1>1, <1>2

(* saveInventory is seen at once: its inventory is being copied. *)
LEMMA CallSaveInventoryShows ==
    ASSUME InventoryInv, NEW t \in Threads, NEW i \in Inventories, NEW x \in Items,
           NEW n \in Store!Quantities, CallSaveInventory(t, i, x, n)
    PROVE  StoreStep
  <1> DEFINE call == [step |-> "save", inv |-> i, item |-> x, n |-> n]
             m == Put(EmptyMap, x, n)
             c == [step |-> "fill", inv |-> i, items |-> m]
  <1>1. n # 0 /\ m = SetTo(EmptyMap, x, n)
    BY InventoryConstants DEF SetTo, Store!Quantities
  <1>2. m \in ItemMaps
    BY <1>1, EmptyIsItemMap, ItemOps
  <1>3. IsCall(c) /\ c.inv = i /\ c.step = "fill"
    BY <1>2 DEF IsCall
  <1>4. /\ t \notin DOMAIN pending /\ Begin(t, c)
        /\ persistent' = Put(persistent, i, m) /\ UNCHANGED <<cache, transactions>>
    BY DEF CallSaveInventory
  <1> HIDE DEF m, c
  <1>5. /\ \A j : j # i => Shown(j)' = Shown(j)
        /\ t \in Callers(i)' /\ pending'[t] = c
    BY <1>2, <1>3, <1>4, BeginShows
  <1>6. Shown(i)' = m
    <2>1. Store!ItemsOf(persistent', i) = m
      BY <1>2, <1>4, StoragePut DEF InventoryInv, StorageTypes
    <2> QED
      BY <1>3, <1>5, <2>1, ShownCached
  <1>7. call.inv = i /\ Effect(call, Shown(i), Shown(i)')
    BY <1>6 DEF Effect, m
  <1>8. call \in Store!Calls
    BY DEF Store!Calls
  <1> HIDE DEF call
  <1>9. Store!TakeEffect(call)
    BY <1>5, <1>7, EffectShows
  <1>10. Owes(t)' = Store!Done
    BY <1>3, <1>5 DEF Owes, Store!Done
  <1>11. Owed' = Put(Owed, t, Store!Done)
    BY <1>4, <1>10, OwedBegins DEF Begin
  <1> QED
    BY <1>4, <1>8, <1>9, <1>11, StoreCalls

LEMMA CallLoadInventoryShows ==
    ASSUME InventoryInv, NEW t \in Threads, NEW i \in Inventories, CallLoadInventory(t, i)
    PROVE  StoreStep
  <1> DEFINE call == [step |-> "load", inv |-> i]
             c == [step |-> "read", inv |-> i]
  <1>1. IsCall(c) /\ c.inv = i /\ c.step = "read"
    BY DEF IsCall
  <1>2. /\ t \notin DOMAIN pending /\ i \notin DOMAIN cache /\ Begin(t, c)
        /\ UNCHANGED <<persistent, cache, transactions>>
    BY DEF CallLoadInventory, storages
  <1> HIDE DEF c
  <1>3. \A j : j # i => Shown(j)' = Shown(j)
    BY <1>1, <1>2, BeginShows, EmptyIsItemMap
  <1>4. Shown(i)' = Shown(i)
    BY <1>2 DEF Shown
  <1>5. call \in Store!Calls
    BY DEF Store!Calls
  <1>6. call.inv = i /\ Effect(call, Shown(i), Shown(i)')
    BY <1>4 DEF Effect
  <1> HIDE DEF call
  <1>7. Store!TakeEffect(call)
    BY <1>3, <1>6, EffectShows
  <1>8. pending'[t] = c
    BY <1>2 DEF Begin, Then, Put
  <1>9. Owes(t)' = Store!Done
    BY <1>1, <1>8 DEF Owes, Store!Done
  <1>10. Owed' = Put(Owed, t, Store!Done)
    BY <1>2, <1>9, OwedBegins DEF Begin
  <1> QED
    BY <1>2, <1>5, <1>7, <1>10, StoreCalls

(* The calls that go on *)

(* A call that ends by giving its inventory m in the cache. *)
LEMMA CacheWritten ==
    ASSUME InventoryInv, NEW t \in Threads, t \in DOMAIN pending, NEW i, i = pending[t].inv,
           pending[t].step \in {"add", "set", "remove"}, i \notin astray,
           NEW m \in ItemMaps, cache' = Put(cache, i, m), Return(t),
           UNCHANGED <<persistent, transactions>>,
           i \in DOMAIN cache => Effect(pending[t], cache[i], m),
           i \notin DOMAIN cache => Store!ItemsOf(persistent, i) = m
    PROVE  StoreStep
  <1>1. /\ Coherent(i) /\ t \in Callers(i) /\ i \in Inventories
        /\ pending[t].step # "add" => Callers(i) = {t}
    BY AloneUnlessAdd
  <1>2. \A u \in Callers(i) : pending[u].step \notin {"read", "fill"}
    BY <1>1 DEF Coherent, Overlaps
  <1>3. \A u \in Callers(i)' : pending'[u].step \notin {"read", "fill"}
    BY <1>2, PendingReturn DEF InventoryInv
  <1>4. \A j : j # i => Shown(j)' = Shown(j)
    BY ContinueShows
  <1>5. i \in DOMAIN cache' /\ cache'[i] = m
    BY <1>1, StoragePut DEF InventoryInv, StorageTypes
  <1>6. Shown(i)' = m
    BY <1>3, <1>5, ShownCached
  <1>7. Shown(i) = IF i \in DOMAIN cache THEN cache[i] ELSE Store!ItemsOf(persistent, i)
    BY <1>2, ShownCached
  <1>8. i \in DOMAIN cache \/ Callers(i) = {t}
    BY <1>1 DEF Coherent, Overlaps
  <1>9. Owed' = Without(Owed, {t})
    BY <1>8, OwedReturns
  <1>10. CASE i \in DOMAIN cache
    <2>1. Effect(pending[t], Shown(i), Shown(i)')
      BY <1>6, <1>7, <1>10
    <2>2. Store!TakeEffect(pending[t])
      BY <1>1, <1>4, <2>1, EffectShows
    <2>3. Owes(t) = pending[t]
      BY <1>10 DEF Owes
    <2>4. pending[t] # Store!Done
      BY DEF Store!Done
    <2> QED
      BY <1>9, <2>2, <2>3, <2>4, StoreReturns
  <1>11. CASE i \notin DOMAIN cache
    <2>1. \A j \in Inventories : Shown(j)' = Shown(j)
      BY <1>4, <1>6, <1>7, <1>11
    <2>2. Owes(t) = Store!Done
      BY <1>11 DEF Owes
    <2> QED
      BY <1>9, <2>1, <2>2, AnswersStay, StoreReturns
  <1> QED
    BY <1>10, <1>11

LEMMA AddToCacheShows ==
    ASSUME InventoryInv, NEW t \in Threads, t \in DOMAIN pending, AddToCache(t), UNCHANGED transactions,
           pending[t].inv \notin astray
    PROVE  StoreStep
  <1>1. PICK i, x, n : i = pending[t].inv /\ x = pending[t].item /\ n = pending[t].n
    OBVIOUS
  <1> DEFINE old == Store!ItemsOf(cache, i)
             m == Plus(old, x, n)
  <1>2. /\ pending[t].step = "add" /\ Return(t) /\ UNCHANGED persistent
        /\ cache' = Put(cache, i, m)
    BY <1>1, StoreOps DEF AddToCache
  <1>3. x \in Items /\ n \in Store!Quantities /\ n # 0
    BY <1>1, <1>2, InventoryConstants DEF InventoryInv, StorageTypes, IsCall, Store!Quantities
  <1>4. m \in ItemMaps
    BY <1>3, StorageItems, ItemOps DEF InventoryInv, StorageTypes
  <1>5. ASSUME i \in DOMAIN cache
        PROVE  Effect(pending[t], cache[i], m)
    <2>1. old = cache[i]
      BY <1>5, StoreOps
    <2> QED
      BY <1>1, <1>2, <2>1 DEF Effect
  <1>6. ASSUME i \notin DOMAIN cache
        PROVE  Store!ItemsOf(persistent, i) = m
    <2>1. AddsLead(i) /\ Overlaps(i) /\ t \in Callers(i)
      BY <1>1, <1>2, AloneUnlessAdd DEF Behind, Coherent
    <2>2. Callers(i) = {t}
      BY <1>6, <2>1 DEF Overlaps
    <2>3. i \in DOMAIN persistent
          /\ \E F \in [SUBSET Callers(i) -> ItemMaps] :
                Leads(F, Callers(i), pending, old, persistent[i])
      BY <2>1 DEF AddsLead
    <2>4. persistent[i] = Plus(old, pending[t].item, pending[t].n)
      BY <2>2, <2>3, LeadsEnds
    <2> QED
      BY <1>1, <2>3, <2>4, StoreOps
  <1> HIDE DEF m
  <1> QED
    BY <1>1, <1>2, <1>3, <1>4, <1>5, <1>6, CacheWritten

LEMMA SetInCacheShows ==
    ASSUME InventoryInv, NEW t \in Threads, t \in DOMAIN pending, SetInCache(t), UNCHANGED transactions,
           pending[t].inv \notin astray
    PROVE  StoreStep
  <1>1. PICK i, x, n : i = pending[t].inv /\ x = pending[t].item /\ n = pending[t].n
    OBVIOUS
  <1> DEFINE old == Store!ItemsOf(cache, i)
             m == SetTo(old, x, n)
  <1>2. /\ pending[t].step = "set" /\ Return(t) /\ UNCHANGED persistent
        /\ cache' = Put(cache, i, m)
    BY <1>1, StoreOps DEF SetInCache
  <1>3. x \in Items /\ n \in Store!Quantities \cup {0}
    BY <1>1, <1>2 DEF InventoryInv, StorageTypes, IsCall
  <1>4. m \in ItemMaps
    BY <1>3, StorageItems, ItemOps DEF InventoryInv, StorageTypes
  <1>5. ASSUME i \in DOMAIN cache
        PROVE  Effect(pending[t], cache[i], m)
    <2>1. old = cache[i]
      BY <1>5, StoreOps
    <2> QED
      BY <1>1, <1>2, <2>1 DEF Effect
  <1>6. Store!ItemsOf(persistent, i) = m
    <2>1. i \in DOMAIN persistent /\ persistent[i] = m
      BY <1>1, <1>2, AloneUnlessAdd DEF Behind
    <2> QED
      BY <2>1, StoreOps
  <1> HIDE DEF m
  <1> QED
    BY <1>1, <1>2, <1>3, <1>4, <1>5, <1>6, CacheWritten

(* A removal the cache cannot follow goes on by copying, unseen. *)
LEMMA RemoveFromCacheShows ==
    ASSUME InventoryInv, NEW t \in Threads, t \in DOMAIN pending, RemoveFromCache(t), UNCHANGED transactions,
           pending[t].inv \notin astray
    PROVE  StoreStep
  <1>1. PICK i, x, n : i = pending[t].inv /\ x = pending[t].item /\ n = pending[t].n
    OBVIOUS
  <1> DEFINE old == Store!ItemsOf(cache, i)
  <1>2. pending[t].step = "remove" /\ UNCHANGED persistent
    BY DEF RemoveFromCache
  <1>3. i \in Inventories /\ x \in Items /\ n \in Store!Quantities /\ n # 0
    BY <1>1, <1>2, InventoryConstants DEF InventoryInv, StorageTypes, IsCall, Store!Quantities
  <1>4. Behind(i, t) /\ Callers(i) = {t}
    BY <1>1, <1>2, AloneUnlessAdd
  <1>5. i \in DOMAIN cache => Enough(cache[i], x, n)
    BY <1>1, <1>2, <1>4 DEF Behind
  <1>6. Store!CanRemove(cache, i, x, n) <=> i \in DOMAIN cache
    <2>1. i \notin DOMAIN cache => old = EmptyMap
      BY StoreOps
    <2>2. ~Enough(EmptyMap, x, n)
      BY DEF Enough, EmptyMap
    <2>3. i \in DOMAIN cache => old = cache[i]
      BY StoreOps
    <2>4. Store!CanRemove(cache, i, x, n) = Enough(old, x, n)
      BY StoreOps
    <2> QED
      BY <1>5, <2>1, <2>2, <2>3, <2>4
  <1>7. CASE i \in DOMAIN cache
    <2> DEFINE m == Less(cache[i], x, n)
    <2>1. old = cache[i]
      BY <1>7, StoreOps
    <2>2. Return(t) /\ cache' = Put(cache, i, m)
      BY <1>1, <1>6, <1>7, <2>1, StoreOps DEF RemoveFromCache
    <2>3. m \in ItemMaps
      BY <1>3, <1>5, <1>7, <2>1, StorageItems, ItemOps DEF InventoryInv, StorageTypes
    <2>4. Effect(pending[t], cache[i], m)
      BY <1>1, <1>2, <1>5, <1>7 DEF Effect
    <2> HIDE DEF m
    <2> QED
      BY <1>1, <1>2, <1>3, <1>7, <2>2, <2>3, <2>4, CacheWritten
  <1>8. CASE i \notin DOMAIN cache
    <2> DEFINE c == [step |-> "read", inv |-> i]
    <2>1. IsCall(c) /\ c.inv = i /\ c.step = "read"
      BY <1>3 DEF IsCall
    <2>2. Then(t, c) /\ cache' = Put(cache, i, old)
      BY <1>1, <1>6, <1>8, StoreOps DEF RemoveFromCache
    <2>3. old \in ItemMaps
      BY StorageItems DEF InventoryInv, StorageTypes
    <2> HIDE DEF c
    <2>4. \A j : j # i => Shown(j)' = Shown(j)
      BY <1>1, <1>2, <2>1, <2>2, <2>3, ContinueShows
    <2>5. t \in Callers(i)' /\ pending'[t] = c
      BY <1>1, <2>1, <2>2, PendingPut DEF InventoryInv
    <2>6. Shown(i)' = Store!ItemsOf(persistent', i)
      BY <2>1, <2>5, ShownCached
    <2>7. Shown(i) = Store!ItemsOf(persistent, i)
      BY <1>8 DEF Shown
    <2>8. \A j \in Inventories : Shown(j)' = Shown(j)
      BY <1>2, <2>4, <2>6, <2>7
    <2>9. Owes(t) = Store!Done
      BY <1>1, <1>8 DEF Owes
    <2>10. Owed' = Owed
      BY <1>1, <1>4, <2>1, <2>2, <2>3, <2>9, OwedGoesOn
    <2> QED
      BY <2>8, <2>10, NothingShown
  <1> QED
    BY <1>7, <1>8

(* Copying from the persistent storage is not seen. *)
LEMMA ReadPersistentShows ==
    ASSUME InventoryInv, NEW t \in Threads, t \in DOMAIN pending, ReadPersistent(t), UNCHANGED transactions,
           pending[t].inv \notin astray
    PROVE  StoreStep
  <1>1. PICK i : i = pending[t].inv
    OBVIOUS
  <1>2. pending[t].step = "read" /\ UNCHANGED <<persistent, cache>>
    BY DEF ReadPersistent, storages
  <1>3. Behind(i, t) /\ t \in Callers(i) /\ i \in Inventories
    BY <1>1, AloneUnlessAdd
  <1>4. Shown(i) = Store!ItemsOf(persistent, i)
    BY <1>2, <1>3, ShownCached
  <1>5. Owes(t) = Store!Done
    BY <1>2 DEF Owes
  <1>6. CASE i \in DOMAIN persistent
    <2> DEFINE c == [step |-> "fill", inv |-> i, items |-> persistent[i]]
    <2>1. persistent[i] \in ItemMaps
      BY <1>6 DEF InventoryInv, StorageTypes, IsStorage, IsMap
    <2>2. IsCall(c) /\ c.inv = i /\ c.step = "fill"
      BY <1>3, <2>1 DEF IsCall
    <2>3. Then(t, c)
      BY <1>1, <1>6 DEF ReadPersistent
    <2>4. PICK call : call = c
      OBVIOUS
    <2> HIDE DEF c
    <2>5. \A j : j # i => Shown(j)' = Shown(j)
      BY <1>1, <1>2, <2>1, <2>2, <2>3, <2>4, ContinueShows
    <2>6. t \in Callers(i)' /\ pending'[t] = call
      BY <1>1, <2>2, <2>3, <2>4, PendingPut DEF InventoryInv
    <2>7. Shown(i)' = Store!ItemsOf(persistent', i)
      BY <2>2, <2>4, <2>6, ShownCached
    <2>8. \A j \in Inventories : Shown(j)' = Shown(j)
      BY <1>2, <1>4, <2>5, <2>7
    <2>9. Owed' = Owed
      BY <1>1, <1>2, <1>5, <2>1, <2>2, <2>3, OwedGoesOn
    <2> QED
      BY <2>8, <2>9, NothingShown
  <1>7. CASE i \notin DOMAIN persistent
    <2>1. Return(t)
      BY <1>1, <1>7 DEF ReadPersistent
    <2>2. i \notin DOMAIN cache
      BY <1>1, <1>2, <1>3, <1>7 DEF Behind
    <2>3. \A j : j # i => Shown(j)' = Shown(j)
      BY <1>1, <1>2, <2>1, EmptyIsItemMap, ContinueShows
    <2>4. Shown(i)' = Shown(i)
      BY <1>2, <2>2 DEF Shown
    <2>5. \A j \in Inventories : Shown(j)' = Shown(j)
      BY <2>3, <2>4
    <2>6. Owed' = Without(Owed, {t})
      BY <1>1, <1>2, <2>1, EmptyIsItemMap, OwedReturns
    <2> QED
      BY <1>5, <2>5, <2>6, AnswersStay, StoreReturns
  <1> QED
    BY <1>6, <1>7

LEMMA FillCacheShows ==
    ASSUME InventoryInv, NEW t \in Threads, t \in DOMAIN pending, FillCache(t), UNCHANGED transactions,
           pending[t].inv \notin astray
    PROVE  StoreStep
  <1>1. PICK i, m : i = pending[t].inv /\ m = pending[t].items
    OBVIOUS
  <1>2. /\ pending[t].step = "fill" /\ Return(t) /\ UNCHANGED persistent
        /\ cache' = Put(cache, i, m)
    BY <1>1 DEF FillCache
  <1>3. m \in ItemMaps
    BY <1>1, <1>2 DEF InventoryInv, StorageTypes, IsCall
  <1>4. Behind(i, t) /\ t \in Callers(i) /\ i \in Inventories
    BY <1>1, AloneUnlessAdd
  <1>5. i \in DOMAIN persistent /\ persistent[i] = m
    BY <1>1, <1>2, <1>4 DEF Behind
  <1>6. Store!ItemsOf(persistent, i) = m /\ Store!ItemsOf(persistent', i) = m
    BY <1>2, <1>5, StoreOps
  <1>7. Shown(i) = m
    BY <1>2, <1>4, <1>6, ShownCached
  <1>8. i \in DOMAIN cache' /\ cache'[i] = m
    BY <1>2, <1>3, <1>4, StoragePut DEF InventoryInv, StorageTypes
  <1>9. Shown(i)' = m
    BY <1>6, <1>8 DEF Shown
  <1>10. \A j : j # i => Shown(j)' = Shown(j)
    BY <1>1, <1>2, <1>3, ContinueShows
  <1>11. \A j \in Inventories : Shown(j)' = Shown(j)
    BY <1>7, <1>9, <1>10
  <1>12. Owes(t) = Store!Done
    BY <1>2 DEF Owes
  <1>13. Callers(i) = {t}
    BY <1>1, <1>2, AloneUnlessAdd
  <1>14. Owed' = Without(Owed, {t})
    BY <1>1, <1>2, <1>3, <1>13, OwedReturns
  <1> QED
    BY <1>11, <1>12, <1>14, AnswersStay, StoreReturns

(* Transactions see the store as their callers do. *)
LEMMA QuietAnswers ==
    ASSUME pending = EmptyMap
    PROVE  Answers = Visible(persistent, cache, {})
  <1>1. Copying = {}
    BY DEF Copying, EmptyMap
  <1> QED
    BY <1>1 DEF Answers

LEMMA BeginTransactionShows ==
    ASSUME InventoryInv, BeginTransaction
    PROVE  StoreStep
  <1> DEFINE snapshot == [persistent |-> persistent, cache |-> cache]
  <1>1. PICK id : id = nextTransactionId
    OBVIOUS
  <1>2. /\ pending = EmptyMap /\ id <= MaxTransactions
        /\ transactions' = Put(transactions, id, snapshot)
        /\ UNCHANGED <<persistent, cache, pending>>
    BY <1>1 DEF BeginTransaction, storages
  <1>3. id \in 1 .. MaxTransactions /\ id \notin DOMAIN transactions
    BY <1>1, <1>2, InventoryConstants DEF InventoryInv, Snapshots
  <1>4. Answers' = Answers
    BY <1>2 DEF Answers, Copying
  <1>5. PICK shot : shot = snapshot
    OBVIOUS
  <1>6. Visible(shot.persistent, shot.cache, {}) = Answers
    BY <1>2, <1>5, QuietAnswers
  <1>7. /\ DOMAIN transactions' = DOMAIN transactions \cup {id}
        /\ transactions'[id] = shot
        /\ \A tx \in DOMAIN transactions : tx # id => transactions'[tx] = transactions[tx]
    BY <1>2, <1>5 DEF Put
  <1>8. /\ DOMAIN Saved = DOMAIN transactions
        /\ \A tx \in DOMAIN transactions :
            Saved[tx] = Visible(transactions[tx].persistent, transactions[tx].cache, {})
    BY DEF Saved
  <1>9. Saved' = [tx \in DOMAIN transactions' |->
                    Visible(transactions'[tx].persistent, transactions'[tx].cache, {})]
    BY DEF Saved
  <1> HIDE DEF snapshot
  <1>10. Saved' = Put(Saved, id, Answers)
    BY <1>3, <1>6, <1>7, <1>8, <1>9 DEF Put
  <1>11. id \notin DOMAIN Saved /\ Saved' = Store!Put(Saved, id, Answers)
    BY <1>3, <1>8, <1>10, SameMaps
  <1>12. Owed' = Owed
    BY <1>2 DEF Owed
  <1>13. Store!StoreBegin(id)
    BY <1>4, <1>11, <1>12 DEF Store!StoreBegin, Answers, Saved, Owed
  <1> QED
    BY <1>3, <1>13 DEF StoreStep, Store!StoreNext

LEMMA EndTransactionShows ==
    ASSUME InventoryInv, NEW tx \in DOMAIN transactions,
           CommitTransaction(tx) \/ RollbackTransaction(tx)
    PROVE  StoreStep
  <1>1. /\ pending = EmptyMap /\ transactions' = Without(transactions, {tx})
        /\ UNCHANGED pending
    BY DEF CommitTransaction, RollbackTransaction
  <1>2. /\ DOMAIN transactions' = DOMAIN transactions \ {tx}
        /\ \A o \in DOMAIN transactions' : transactions'[o] = transactions[o]
    BY <1>1 DEF Without, Restrict
  <1>3. /\ DOMAIN Saved = DOMAIN transactions
        /\ \A o \in DOMAIN transactions :
            Saved[o] = Visible(transactions[o].persistent, transactions[o].cache, {})
    BY DEF Saved
  <1>4. Saved' = [o \in DOMAIN transactions' |->
                    Visible(transactions'[o].persistent, transactions'[o].cache, {})]
    BY DEF Saved
  <1>5. Saved' = Without(Saved, {tx})
    BY <1>2, <1>3, <1>4 DEF Without, Restrict
  <1>6. Answers' = Visible(persistent', cache', {})
    <2>1. Copying' = {}
      BY <1>1 DEF Copying, EmptyMap
    <2> QED
      BY <2>1 DEF Answers
  <1>7. Answers' = Answers \/ Answers' = Saved[tx]
    <2>1. CASE CommitTransaction(tx)
      <3>1. UNCHANGED <<persistent, cache>>
        BY <2>1 DEF CommitTransaction, storages
      <3> QED
        BY <1>1, <1>6, <3>1, QuietAnswers
    <2>2. CASE RollbackTransaction(tx)
      <3>1. persistent' = transactions[tx].persistent /\ cache' = transactions[tx].cache
        BY <2>2 DEF RollbackTransaction
      <3> QED
        BY <1>3, <1>6, <3>1
    <2> QED
      BY <2>1, <2>2
  <1>8. tx \in DOMAIN Saved /\ Saved' = Store!Without(Saved, {tx})
    BY <1>3, <1>5, SameMaps
  <1>9. Owed = [t \in {} |-> Store!Done] /\ Owed' = [t \in {} |-> Store!Done]
    BY <1>1 DEF Owed, EmptyMap
  <1>10. Store!StoreEnd(tx)
    BY <1>7, <1>8, <1>9 DEF Store!StoreEnd, Answers, Saved, Owed
  <1>11. tx \in 1 .. MaxTransactions
    BY DEF InventoryInv, Snapshots
  <1> QED
    BY <1>10, <1>11 DEF StoreStep, Store!StoreNext

LEMMA InventoryStartsAsStore == InventoryInit => Store!StoreInit
  <1> SUFFICES ASSUME InventoryInit
               PROVE  Store!StoreInit
    OBVIOUS
  <1>1. /\ persistent = Store!StoredAtStart /\ cache = EmptyMap
        /\ transactions = EmptyMap /\ pending = EmptyMap
    BY DEF InventoryInit
  <1>2. Answers = [i \in Inventories |-> Store!ItemsOf(Store!StoredAtStart, i)]
    <2>1. \A i : Shown(i) = Store!ItemsOf(Store!StoredAtStart, i)
      BY <1>1 DEF Shown, EmptyMap
    <2> QED
      BY <2>1, AnswersShown
  <1>3. Saved = Store!EmptyMap
    BY <1>1, SameMaps DEF Saved, EmptyMap
  <1>4. Owed = Store!EmptyMap
    BY <1>1, SameMaps DEF Owed, EmptyMap
  <1> QED
    BY <1>2, <1>3, <1>4 DEF Store!StoreInit, Answers, Saved, Owed

(* While no inventory is astray, every step is one of the store's or unseen. *)
LEMMA InventoryStepsAsStore ==
    InventoryInv /\ [InventoryNext]_inventoryVars /\ astray' = {} => StoreStep
  <1> SUFFICES ASSUME InventoryInv, [InventoryNext]_inventoryVars, astray' = {}
               PROVE  StoreStep
    OBVIOUS
  <1>1. CASE UNCHANGED inventoryVars
    <2>1. UNCHANGED <<persistent, cache, pending, transactions>>
      BY <1>1 DEF inventoryVars, storages
    <2>2. Answers' = Answers /\ Saved' = Saved /\ Owed' = Owed
      BY <2>1 DEF Answers, Saved, Owed, Copying
    <2> QED
      BY <2>2 DEF StoreStep, Store!storeVars, Answers, Saved, Owed
  <1>2. ASSUME NEW t \in Threads, NEW i \in Inventories, NEW x \in Items,
               NEW n \in Store!Quantities,
               \/ CallAddItem(t, i, x, n) \/ CallRemoveItem(t, i, x, n)
               \/ CallSaveInventory(t, i, x, n)
        PROVE  StoreStep
    BY <1>2, CallAddItemShows, CallRemoveItemShows, CallSaveInventoryShows
  <1>3. ASSUME NEW t \in Threads, NEW i \in Inventories, NEW x \in Items,
               NEW n \in Store!Quantities \cup {0}, CallSetItem(t, i, x, n)
        PROVE  StoreStep
    BY <1>3, CallSetItemShows
  <1>4. ASSUME NEW t \in Threads, NEW i \in Inventories, CallLoadInventory(t, i)
        PROVE  StoreStep
    BY <1>4, CallLoadInventoryShows
  <1>5. ASSUME NEW t \in Threads, Continue(t)
        PROVE  StoreStep
    <2>1. t \in DOMAIN pending /\ UNCHANGED transactions /\ astray = {}
      BY <1>5 DEF Continue
    <2> QED
      BY <1>5, <2>1, AddToCacheShows, SetInCacheShows, RemoveFromCacheShows,
         ReadPersistentShows, FillCacheShows
         DEF Continue
  <1>6. CASE BeginTransaction
    BY <1>6, BeginTransactionShows
  <1>7. CASE \E tx \in DOMAIN transactions : CommitTransaction(tx) \/ RollbackTransaction(tx)
    BY <1>7, EndTransactionShows
  <1> QED
    BY <1>1, <1>2, <1>3, <1>4, <1>5, <1>6, <1>7 DEF InventoryNext

(* The cached storage implements the abstract store: with the mapping of     *)
(* CachedInventory, its initial states are the store's, and as long as no    *)
(* inventory is astray every step of any thread begins or returns one call   *)
(* of the store, with that call's own effect at one of the two, begins or    *)
(* ends a transaction, or is not seen.                                       *)
THEOREM InventoryRefines == InventorySpec => BehavesLikeOneStore
  <1>1. InventoryInv /\ [InventoryNext]_inventoryVars
            => [astray' = {} => Store!StoreNext]_(Store!storeVars)
    BY InventoryStepsAsStore DEF StoreStep
  <1> QED
    BY <1>1, InventoryStartsAsStore, InventoryInvariant, PTL DEF InventorySpec, BehavesLikeOneStore
=============================================================================
