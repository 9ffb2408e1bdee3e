---------------------------- MODULE RewardService ----------------------------
(***************************************************************************)
(* reward/reward_service.cpp and reward/inventory.cpp as the server uses   *)
(* them: grantRewardsDetailed on an inventory made for one request. A list *)
(* of rewards is the sequence of its quantities; item ids make no          *)
(* difference, the capacity counts all items together.                     *)
(***************************************************************************)
EXTENDS Integers, Functions

CONSTANT GrantCapacity      \* reward::Inventory capacity, 100 in the code

ASSUME RewardConstants == GrantCapacity \in Nat

(* totalQuantity once the first k items have been added *)
TotalQuantity(items, k) == FoldFunctionOnSet(+, 0, items, 1 .. k)

(* addItem refuses nothing and what would exceed the capacity. *)
AddsItem(items, k) == items[k] > 0 /\ TotalQuantity(items, k) <= GrantCapacity

(* One item that is refused takes the whole grant back. The inventory is     *)
(* new, so that a grant is never a duplicate.                                *)
GrantRewards(items) == \A k \in DOMAIN items : AddsItem(items, k)
=============================================================================
