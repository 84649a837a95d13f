------------------------- MODULE MCCrossBorderTrade -------------------------
(* One trade and the requests on its escrow. *)
EXTENDS CrossBorderTrade
=============================================================================
