---------------------------- MODULE RequestItems ----------------------------
(***************************************************************************)
(* The items of an inventory request: a list of [sku, quantity] in which a   *)
(* SKU may appear several times, summed per SKU before anything is locked.   *)
(***************************************************************************)
EXTENDS Integers, Sequences, Functions

\* Mutant: the last line of a SKU replaces the earlier ones.
KeepLastItem(items, skus) ==
  FoldFunction(LAMBDA item, total : [total EXCEPT ![item.sku] = item.quantity],
               [s \in skus |-> 0], items)

\* requested_by_uuid as a function on all SKUs, 0 for those not requested.
CollapseItems(items, skus) ==
  FoldFunction(LAMBDA item, total : [total EXCEPT ![item.sku] = @ + item.quantity],
               [s \in skus |-> 0], items)

RequestedSkus(items) == {items[i].sku : i \in DOMAIN items}
=============================================================================
