------------------------------ MODULE MCTracer ------------------------------
(* Two functions, one of them __switch_to_asm, and two pids besides "Boot".  *)
EXTENDS Tracer

CONSTANTS MaxQueue,  \* events the queue may hold
          MaxDepth,  \* open calls of a track
          MaxSaved   \* events in the queue when the emulation ends

MCTgid == [p \in Pid |-> IF p = 0 THEN 0 ELSE 1]

WithinBounds ==
  /\ Len(queue') <= MaxQueue
  /\ \A t \in Track : Len(track_backtrace'[t]) <= MaxDepth
  /\ exited' => Len(queue) <= MaxSaved

MCNext == Next /\ WithinBounds
MCSpec == Init /\ [][MCNext]_vars
=============================================================================
