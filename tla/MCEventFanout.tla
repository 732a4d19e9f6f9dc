---------------------------- MODULE MCEventFanout ----------------------------
(* Dashboards, and events of a handler and of the worker.                  *)
EXTENDS EventFanout

CONSTANTS c1, c2, h1, w1
=============================================================================
