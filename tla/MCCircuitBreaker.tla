-------------------------- MODULE MCCircuitBreaker --------------------------
(* Two processes that evaluate one key, one of which also probes.          *)
EXTENDS CircuitBreaker

CONSTANTS worker, api
=============================================================================
