--------------------------- MODULE MCTracingService ---------------------------
(***************************************************************************)
(* Two kinds of session: one that a trigger or the consumer starts, with   *)
(* periodic flushes, and one that the consumer starts and a trigger or the *)
(* duration stops.                                                         *)
(***************************************************************************)
EXTENDS TracingService

SomeConfigs ==
  {[trigger |-> "START_TRACING", deferred_start |-> FALSE, timed |-> FALSE,
    periodic |-> TRUE],
   [trigger |-> "STOP_TRACING", deferred_start |-> TRUE, timed |-> FALSE,
    periodic |-> FALSE]}
=============================================================================
