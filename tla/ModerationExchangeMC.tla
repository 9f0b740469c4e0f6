------------------------ MODULE ModerationExchangeMC ------------------------
(***************************************************************************)
(* One product, still without SKUs, and two SKUs to give it.                 *)
(***************************************************************************)
EXTENDS ModerationExchange, TLC

CONSTANTS a, n, p, Whole

MCProductOf == [s \in SkuId |-> p]
NoRow     == [state |-> "unborn", active |-> 0, reserved |-> 0]
MCSku     == [s \in SkuId |-> NoRow]
MCProduct == [x \in ProductId |->
  [status |-> "CREATED", deleted |-> FALSE, reason |-> FALSE]]
=============================================================================
