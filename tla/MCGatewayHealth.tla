--------------------------- MODULE MCGatewayHealth ---------------------------
(* The worker and an API handler; a little ordinary traffic to seed.       *)
EXTENDS GatewayHealth

CONSTANTS worker, api

SomeTraffic == {<<"success", "timeout">>}
=============================================================================
