-------------------------- MODULE MCPricingOverlay --------------------------
(***************************************************************************)
(* Two orders, one on which the page and the server agree and one on which *)
(* they do not, with three different prices between them.                  *)
(***************************************************************************)
EXTENDS PricingOverlay

MCPagePrice == [o \in CardOrders |-> IF o = "agreed" THEN 1 ELSE 2]
MCServerPrice == [o \in CardOrders |-> IF o = "agreed" THEN 1 ELSE 3]
=============================================================================
