----------------------------- MODULE MCGateway -----------------------------
(* Instances of Gateway for TLC. *)
EXTENDS Gateway, TLC
CONSTANTS cloud, spare, local

\* A picker choice and its fallbacks, in two orders (Catalog.resolve).
PickerRoutes == {<<cloud, spare, local>>, <<local, cloud>>}
OneRoute == {<<cloud, local>>}

AnyCall == Permutations(GatewayCalls)
=============================================================================
