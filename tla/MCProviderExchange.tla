------------------------- MODULE MCProviderExchange -------------------------
(* An instance of ProviderExchange small enough for TLC.                   *)
EXTENDS ProviderExchange, TLC

CONSTANTS d1, d2

TwoDeliveries == {d1, d2}

Symmetry == Permutations(TwoDeliveries)

=============================================================================
