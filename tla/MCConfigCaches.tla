--------------------------- MODULE MCConfigCaches ---------------------------
(* ConfigCaches for TLC: two requests at one gateway; what other gateways  *)
(* and scripts write to Postgres is WriteElsewhere.                        *)
EXTENDS ConfigCaches, TLC

CONSTANTS r1, r2

TwoRequests == {r1, r2}
Interchangeable == Permutations(TwoRequests)

(* At first the tier covers the customer and there are no defaults: then   *)
(* its deletion and new defaults can reach a request in either order.      *)
TierCovers == {[defaults |-> FALSE, known |-> TRUE]}
=============================================================================
