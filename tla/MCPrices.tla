------------------------------- MODULE MCPrices -------------------------------
(* Small instances of Catalogue for TLC, and the prices when one change ends  *)
(* before the next is submitted, which nothing in the code enforces.          *)
EXTENDS Catalogue, TLC

TurnsSpec == CatalogueInit /\ [][CatalogueNext /\ OneChangeAtATime']_catalogueVars

\* A price from this instant on, or one scheduled two instants ahead.
MCLeads == {0, 2}

PriceSymmetry ==
  Permutations(Creations) \cup Permutations(Changes \ Creations)
=============================================================================
