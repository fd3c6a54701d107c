----------------------------- MODULE TracingMuxer -----------------------------
(***************************************************************************)
(* The producer side of the client library: class                          *)
(* TracingMuxerImpl::ProducerImpl (tracing_muxer_impl.cc) and the data     *)
(* source instances that the muxer runs for it.  A producer is a record m: *)
(*   ds        the slots of the data source that are in use: the instance, *)
(*             the connection that set it up, whether it will notify its   *)
(*             stop, and async_stop_in_progress                            *)
(*   keys,     pending_flushes_: its keys, and the <<flush, instance>>     *)
(*   left      pairs that have not been reported done                      *)
(*   closures  the flushes that a data source handles asynchronously and   *)
(*             has not finished                                            *)
(*   acked     the highest flush acknowledged over this connection (not in *)
(*             the code: for the properties)                               *)
(* A producer has one data source.                                         *)
(***************************************************************************)
EXTENDS Integers, FiniteSets, FiniteSetsExt

CONSTANT MaxDataSourceInstances  \* kMaxDataSourceInstances, or 1

NewProducerImpl ==
  [ds |-> {}, keys |-> {}, left |-> {}, closures |-> {}, acked |-> 0]

FindDataSource(m, i) == {d \in m.ds : d.id = i}

(* SetupDataSourceImpl: without a free slot the instance is dropped.       *)
SetupDataSourceImpl(m, connection, i, notify) ==
  IF Cardinality(m.ds) >= MaxDataSourceInstances THEN m
  ELSE [m EXCEPT !.ds = @ \cup {[id |-> i, connection |-> connection,
                                 notify |-> notify, stopping |-> FALSE]}]

StopDataSource_AsyncBegin(m, i) ==
  [m EXCEPT !.ds = {IF d.id = i THEN [d EXCEPT !.stopping = TRUE] ELSE d : d \in @}]

(* A flush closure of a slot that is gone has no effect when it is called: *)
(* it is forgotten here.  The entry in pending_flushes_ is not.            *)
StopDataSource_AsyncEnd(m, d) ==
  [m EXCEPT !.ds = @ \ {d}, !.closures = {x \in @ : x[2] # d.id}]

(* OnDisconnect: every instance is stopped, and nothing it reports later   *)
(* goes to another connection.                                             *)
OnDisconnect(m) ==
  [m EXCEPT !.ds = {[d EXCEPT !.stopping = TRUE] : d \in @}, !.closures = {},
            !.acked = 0]

(* ProducerImpl::Flush, where the instances `async` answer later: the      *)
(* acknowledgement is sent here if there are none.                         *)
BeginFlush(m, f, async) ==
  [m |-> [m EXCEPT !.keys = IF async = {} THEN @ ELSE @ \cup {f},
                   !.left = @ \cup ({f} \X async),
                   !.closures = @ \cup ({f} \X async)],
   ack |-> IF async = {} THEN f ELSE 0]

(* The flushes at the front of pending_flushes_ that nobody is left to     *)
(* report are taken off, and the last of them is acknowledged.             *)
NotifyFlushForDataSourceDone(m, f, i) ==
  LET left == m.left \ {<<f, i>>}
      done == {g \in m.keys : \A x \in left : x[1] > g}
      m1 == [m EXCEPT !.closures = @ \ {<<f, i>>}]
  IN  IF f \notin m.keys THEN [m |-> m1, ack |-> 0]
      ELSE [m |-> [m1 EXCEPT !.left = left, !.keys = @ \ done],
            ack |-> Max(done \cup {0})]
=============================================================================
