--------------------------- MODULE OrderProtocolMC ---------------------------
(***************************************************************************)
(* Two orders, for which the stock of a is a unit short: one with two SKUs,  *)
(* one of them on two lines, and one with a single line.                     *)
(***************************************************************************)
EXTENDS OrderProtocol, TLC

CONSTANTS a, b, p, o1, o2

MCProductOf == [s \in SkuId |-> p]
NoRow == [state |-> "unborn", active |-> 0, reserved |-> 0]
MCSku == [s \in SkuId |-> [NoRow EXCEPT !.state = "live", !.active = 2]]
Line(s, quantity) == [sku |-> s, quantity |-> quantity]
MCLines == o1 :> <<Line(a, 1), Line(b, 1), Line(a, 1)>> @@ o2 :> <<Line(a, 1)>>
=============================================================================
