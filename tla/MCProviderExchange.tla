------------------------- MODULE MCProviderExchange -------------------------
(* Instances of ProviderExchange: two versions, one of them installed.      *)
EXTENDS ProviderExchange
CONSTANTS v1, v2
=============================================================================
