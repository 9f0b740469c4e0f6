------------------------------ MODULE Visibility ------------------------------
(***************************************************************************)
(* What B2C may see of the shop: the filter that the catalog and the public   *)
(* detail of a product share.                                                *)
(***************************************************************************)
EXTENDS ProductLifecycle

OnShelf(s) == sku[s].state = "live" /\ sku[s].active > 0
Sellable(p) == {s \in LiveSkus(p) : OnShelf(s)}

\* Mutant: the join with the SKUs on the shelf is dropped.
ModeratedOnly(p) == product[p].status = "MODERATED" /\ ~product[p].deleted

VisibleInCatalog(p) ==
  product[p].status = "MODERATED" /\ ~product[p].deleted /\ Sellable(p) # {}
=============================================================================
