---------------------------- MODULE TracingService ----------------------------
(***************************************************************************)
(* The tracing service (class TracingServiceImpl,                          *)
(* tracing_service_impl.cc) with its consumers and its producers: how a    *)
(* tracing session is set up, started, flushed, stopped and freed while    *)
(* producers come and go.  A session is a record `s`, its methods are      *)
(* operators from sessions to sessions:                                    *)
(*   state     "none" and "freed" before and after it is in                *)
(*             tracing_sessions_                                           *)
(*   consumer, detached    consumer_maybe_null, and detach_key is set      *)
(*   config, triggered     config, and received_triggers is not empty      *)
(*   inst      data_source_instances, at most one per producer             *)
(*   flushes   pending_flushes; `disable` is the callback of               *)
(*             FlushAndDisableTracing                                      *)
(*   notified  did_notify_all_data_source_started                          *)
(*   timers    the delayed tasks for the session, but for OnFlushTimeout   *)
(*             (one per pending flush) and PeriodicFlushTask               *)
(*   out       the calls to the producers, until the action has put them   *)
(*             in their inboxes                                            *)
(* and, for the properties, kept (its consumer never detached), flushed    *)
(* (the flushes that succeeded) and dcheck (no DCHECK has failed).         *)
(* The service is single-threaded: every call and every task is an action. *)
(* A producer handles a call, and the service its answer, in one step: the *)
(* delay of either is the time the call spends in the inbox.               *)
(***************************************************************************)
EXTENDS TracingMuxer, Sequences, SequencesExt

CONSTANTS
  Producer, Consumer,
  Notifies,         \* the producers whose data source notifies its start and stop
  NoConsumer,
  Config,           \* what EnableTracing may be called with: the trigger mode,
                    \* deferred_start, whether duration_ms and flush_period_ms
                    \* are set
  MaxSessions,      \* bound on EnableTracing
  MaxCalls,         \* bound on flushes, detaching, disconnecting, unregistering
  MaxPendingFlushes \* 1000

ConfigType == [trigger : {"UNSPECIFIED", "START_TRACING", "STOP_TRACING"},
               deferred_start : BOOLEAN, timed : BOOLEAN, periodic : BOOLEAN]

ASSUME ServiceAssumption ==
  /\ IsFiniteSet(Producer) /\ NoConsumer \notin Consumer
  /\ Config \subseteq ConfigType /\ MaxSessions \in Nat

Session == 1 .. MaxSessions

VARIABLES
  sessions,      \* tracing_sessions_, by id
  attached,      \* tracing_session_id_ of each ConsumerEndpointImpl
  producers,     \* the ProducerID of each producer, 0 if not connected
  data_sources,  \* the producers that have registered their data source
  last,          \* last_{tracing_session, producer, ..._instance, flush_request}_id_
  posted,        \* the CompleteFlush tasks
  inbox,         \* the calls on their way to each producer
  mux            \* the ProducerImpl of each producer

vars == <<sessions, attached, producers, data_sources, last, posted, inbox, mux>>

NoConfig == [trigger |-> "UNSPECIFIED", deferred_start |-> FALSE, timed |-> FALSE,
             periodic |-> FALSE]
NoInstance == [id |-> 0, notify |-> FALSE, state |-> "none"]
NoOut == [p \in Producer |-> <<>>]
NoSession ==
  [state |-> "none", consumer |-> NoConsumer, detached |-> FALSE, kept |-> TRUE,
   config |-> NoConfig, triggered |-> FALSE,
   inst |-> [p \in Producer |-> NoInstance], flushes |-> {}, notified |-> FALSE,
   timers |-> {}, out |-> NoOut, flushed |-> {}, dcheck |-> TRUE]

Instances(s) == {p \in Producer : s.inst[p].state # "none"}
AllDataSourceInstancesStarted(s) ==
  \A p \in Instances(s) : s.inst[p].state = "STARTED"
AllDataSourceInstancesStopped(s) ==
  \A p \in Instances(s) : s.inst[p].state = "STOPPED"
Exists(s) == s.state \notin {"none", "freed"}

Call(type, id, instances) == [type |-> type, id |-> id, ds |-> instances]

MaybeNotifyAllDataSourcesStarted(s) ==
  IF s.consumer = NoConsumer \/ ~AllDataSourceInstancesStarted(s) \/ s.notified
  THEN s
  ELSE [s EXCEPT !.notified = TRUE]

NewInstance(p, id) ==
  [id |-> id, notify |-> p \in Notifies, state |-> "CONFIGURED"]
SetupDataSource(s, p, id) ==
  [s EXCEPT !.inst[p] = NewInstance(p, id),
            !.out[p] = Append(@, Call("SetupDataSource", id, {}))]

Begun(inst) == [inst EXCEPT !.state = IF inst.notify THEN "STARTING" ELSE "STARTED"]

StartDataSourceInstance(s, p) ==
  MaybeNotifyAllDataSourcesStarted(
    [s EXCEPT !.dcheck = @ /\ s.inst[p].state = "CONFIGURED",
              !.inst[p] = Begun(@),
              !.out[p] = Append(@, Call("StartDataSource", s.inst[p].id, {}))])

(* Every instance is started; the consumer is told after the last one.     *)
StartTracing(s) ==
  IF s.state # "CONFIGURED" THEN s
  ELSE MaybeNotifyAllDataSourcesStarted(
         [s EXCEPT !.state = "STARTED",
                   !.timers = @ \cup (IF s.config.timed THEN {"duration"} ELSE {}),
                   !.dcheck = @ /\ \A p \in Instances(s) : s.inst[p].state = "CONFIGURED",
                   !.inst = [p \in Producer |->
                      IF p \in Instances(s) THEN Begun(@[p]) ELSE @[p]],
                   !.out = [p \in Producer |-> IF p \in Instances(s)
                      THEN Append(@[p], Call("StartDataSource", s.inst[p].id, {}))
                      ELSE @[p]]])

Ended(inst, immediately) ==
  [inst EXCEPT !.state = IF inst.notify /\ ~immediately THEN "STOPPING" ELSE "STOPPED"]

StopDataSourceInstance(s, p, immediately) ==
  [s EXCEPT !.inst[p] = Ended(@, immediately),
            !.out[p] = Append(@, Call("StopDataSource", s.inst[p].id, {}))]

DisableTracingNotifyConsumerAndFlushFile(s) ==
  [s EXCEPT !.dcheck = @ /\ s.state # "DISABLED",
            !.inst = [p \in Producer |-> IF p \in Instances(s)
                                         THEN [@[p] EXCEPT !.state = "STOPPED"] ELSE @[p]],
            !.state = "DISABLED"]

DisableTracing(s, immediately) ==
  LET now == immediately \/ s.state = "CONFIGURED"
      t == [s EXCEPT
              !.dcheck = @ /\ \A p \in Instances(s) :
                 s.inst[p].state \in {"CONFIGURED", "STARTING", "STARTED"},
              !.inst = [p \in Producer |->
                 IF p \in Instances(s) THEN Ended(@[p], now) ELSE @[p]],
              !.out = [p \in Producer |-> IF p \in Instances(s)
                 THEN Append(@[p], Call("StopDataSource", s.inst[p].id, {})) ELSE @[p]]]
      waiting == [s EXCEPT !.dcheck = @ /\ ~AllDataSourceInstancesStopped(s)]
  IN  CASE s.state = "DISABLED" ->
             [s EXCEPT !.dcheck = @ /\ AllDataSourceInstancesStopped(s)]
        [] s.state = "DISABLING_WAITING_STOP_ACKS" ->
             IF immediately THEN DisableTracingNotifyConsumerAndFlushFile(waiting)
             ELSE waiting
        [] s.state \in {"CONFIGURED", "STARTED"} ->
             IF AllDataSourceInstancesStopped(t)
             THEN DisableTracingNotifyConsumerAndFlushFile(t)
             ELSE [t EXCEPT !.state = "DISABLING_WAITING_STOP_ACKS",
                            !.timers = @ \cup {"stop_acks"}]
        [] OTHER -> s

(* The callbacks of the flushes that are pending are dropped.              *)
FreeBuffers(s) ==
  LET t == DisableTracing(s, TRUE)
  IN  IF ~Exists(s) THEN s
      ELSE [NoSession EXCEPT !.state = "freed", !.out = t.out,
                             !.dcheck = t.dcheck /\ AllDataSourceInstancesStopped(t)]

NotifyDataSourceStarted(s, p, id) ==
  IF s.state # "STARTED" \/ s.inst[p].id # id \/ s.inst[p].state # "STARTING" THEN s
  ELSE MaybeNotifyAllDataSourcesStarted([s EXCEPT !.inst[p].state = "STARTED"])

NotifyDataSourceStoppedOnly(s, p, id) ==
  IF s.inst[p].id # id \/ s.inst[p].state # "STOPPING" THEN s
  ELSE [s EXCEPT !.inst[p].state = "STOPPED"]
NotifyDataSourceStopped(s, p, id) ==
  LET t == [s EXCEPT !.inst[p].state = "STOPPED"]
  IN  IF s.inst[p].id # id \/ s.inst[p].state # "STOPPING" THEN s
      ELSE IF /\ AllDataSourceInstancesStopped(t)
              /\ t.state = "DISABLING_WAITING_STOP_ACKS"
      THEN DisableTracingNotifyConsumerAndFlushFile(t)
      ELSE t

UnregisterDataSourceSilently(s, p) ==
  [s EXCEPT !.inst[p] = NoInstance]
UnregisterDataSource(s, p) ==
  LET t == IF s.inst[p].state \in {"STOPPED", "STOPPING"} THEN s
           ELSE StopDataSourceInstance(s, p, FALSE)
      u == IF t.inst[p].state = "STOPPING"
           THEN NotifyDataSourceStopped(t, p, t.inst[p].id) ELSE t
  IN  IF p \notin Instances(s) THEN s
      ELSE MaybeNotifyAllDataSourcesStarted([u EXCEPT !.inst[p] = NoInstance])

RegisterDataSource(s, p, id) ==
  LET t == SetupDataSource(s, p, id)
  IN  CASE s.state = "STARTED" -> StartDataSourceInstance(t, p)
        [] s.state = "CONFIGURED" -> t
        [] OTHER -> s

(* Whether FlushDataSourceInstances sends a request to the producers.      *)
Flushes(s) == s.state = "STARTED" /\ Cardinality(s.flushes) <= MaxPendingFlushes

(* What is called when a flush is over: nothing is left to do, unless it   *)
(* is the one of FlushAndDisableTracing.                                   *)
RunCallback(s, f, disable, success) ==
  LET t == [s EXCEPT !.flushed = IF success THEN @ \cup {f} ELSE @]
  IN  IF ~Exists(s) THEN s
      ELSE IF ~disable THEN t
      ELSE IF s.consumer # NoConsumer THEN DisableTracing(t, FALSE)
      ELSE FreeBuffers(t)

(* Flush and FlushDataSourceInstances, `f` being the id of the request if  *)
(* there is one.  Every data source takes part.                            *)
Flush(s, f, disable) ==
  IF ~Flushes(s) THEN RunCallback(s, 0, disable, FALSE)
  ELSE [s EXCEPT
          !.flushes = @ \cup {[id |-> f, disable |-> disable,
                               producers |-> {producers[p] : p \in Instances(s)}]},
          !.out = [p \in Producer |->
             IF p \in Instances(s) THEN Append(@[p], Call("Flush", f, {s.inst[p].id}))
             ELSE @[p]]]

CompleteFlush(s, f, disable, success) ==
  RunCallback(s, f, disable, success)

Acknowledge(flush, id, f) ==
  IF flush.id > f THEN flush ELSE [flush EXCEPT !.producers = @ \ {id}]
CompletedAny(s, id, f) == {x \in s.flushes : x.producers \subseteq {id}}
Completed(s, id, f) ==
  {x \in s.flushes : x.id <= f /\ x.producers \subseteq {id}}

(* NotifyFlushDoneForProducer: what it does to a session, and the tasks it *)
(* posts for it.                                                           *)
FlushesLeft(s, id, f) ==
  [s EXCEPT !.flushes = {Acknowledge(x, id, f) : x \in @ \ Completed(s, id, f)}]
FlushTasks(id, f) ==
  UNION {{[session |-> k, id |-> x.id, disable |-> x.disable]
            : x \in Completed(sessions[k], id, f)} : k \in Session}

(* Tasks in the order in which they are posted.                            *)
Queued(tasks) ==
  {q \in [1 .. Cardinality(tasks) -> tasks] :
     /\ Range(q) = tasks
     /\ \A i, j \in DOMAIN q : i < j =>
          \/ q[i].session < q[j].session
          \/ q[i].session = q[j].session /\ q[i].id < q[j].id}

-----------------------------------------------------------------------------
(* The sessions become `ss`, and their calls go to the producers.          *)
Put(ss) ==
  /\ sessions' = [k \in Session |-> [ss[k] EXCEPT !.out = NoOut]]
  /\ inbox' = [p \in Producer |-> inbox[p] \o
                                  FlattenSeq([k \in Session |-> ss[k].out[p]])]
PutOne(k, s) == Put([sessions EXCEPT ![k] = s])

Count(s) == IF Flushes(s) THEN 1 ELSE 0

(* A call that is bounded, and `flushes` requests.                         *)
Counted(flushes) ==
  /\ last.calls < MaxCalls
  /\ last' = [last EXCEPT !.calls = @ + 1, !.flush = @ + flushes]

Init ==
  /\ sessions = [k \in Session |-> NoSession]
  /\ attached = [c \in Consumer |-> 0]
  /\ LET order == SetToSeq(Producer)
     IN  producers = [p \in Producer |-> CHOOSE i \in DOMAIN order : order[i] = p]
  /\ data_sources = Producer
  /\ last = [session |-> 0, producer |-> Cardinality(Producer), instance |-> 0, flush |-> 0, calls |-> 0]
  /\ posted = <<>>
  /\ inbox = NoOut
  /\ mux = [p \in Producer |-> NewProducerImpl]

ConnectProducer(p) ==
  /\ producers[p] = 0
  /\ last' = [last EXCEPT !.producer = @ + 1]
  /\ producers' = [producers EXCEPT ![p] = last.producer + 1]
  /\ UNCHANGED <<sessions, attached, data_sources, posted, inbox, mux>>

(* Scraping what the producer has left in shared memory is not modelled.   *)
DisconnectProducerOnly(p) ==
  /\ producers[p] # 0
  /\ Counted(0)
  /\ inbox' = [inbox EXCEPT ![p] = <<>>]
  /\ producers' = [producers EXCEPT ![p] = 0]
  /\ mux' = [mux EXCEPT ![p] = OnDisconnect(@)]
  /\ UNCHANGED <<sessions, attached, data_sources, posted>>
DisconnectProducer(p) ==
  /\ producers[p] # 0
  /\ Counted(0)
  /\ sessions' = [k \in Session |->
                    [UnregisterDataSource(sessions[k], p) EXCEPT !.out = NoOut]]
  /\ inbox' = [inbox EXCEPT ![p] = <<>>]
  /\ producers' = [producers EXCEPT ![p] = 0]
  /\ data_sources' = data_sources \ {p}
  /\ mux' = [mux EXCEPT ![p] = OnDisconnect(@)]
  /\ UNCHANGED <<attached, posted>>

Matching == {k \in Session : sessions[k].state \in {"CONFIGURED", "STARTED"}}

Register(p) ==
  /\ producers[p] # 0 /\ p \notin data_sources
  /\ data_sources' = data_sources \cup {p}
  /\ last' = [last EXCEPT !.instance = @ + Cardinality(Matching)]
  /\ Put([k \in Session |-> RegisterDataSource(sessions[k], p,
            last.instance + Cardinality({j \in Matching : j <= k}))])
  /\ UNCHANGED <<attached, producers, posted, mux>>

Unregister(p) ==
  /\ producers[p] # 0 /\ p \in data_sources
  /\ Counted(0)
  /\ data_sources' = data_sources \ {p}
  /\ Put([k \in Session |-> UnregisterDataSource(sessions[k], p)])
  /\ UNCHANGED <<attached, producers, posted, mux>>

EnableTracing(c, config) ==
  LET k == last.session + 1
      order == SetToSeq(data_sources)
      id(p) == last.instance + CHOOSE i \in DOMAIN order : order[i] = p
      new == [NoSession EXCEPT
                !.state = "CONFIGURED", !.consumer = c,
                !.config = [config EXCEPT !.timed = @ \/ config.trigger = "STOP_TRACING"],
                !.timers = IF config.trigger = "START_TRACING" THEN {"trigger"} ELSE {},
                !.inst = [p \in Producer |-> IF p \in data_sources
                   THEN NewInstance(p, id(p)) ELSE NoInstance],
                !.out = [p \in Producer |-> IF p \in data_sources
                   THEN <<Call("SetupDataSource", id(p), {})>> ELSE <<>>]]
  IN  /\ attached[c] = 0
      /\ k <= MaxSessions
      /\ attached' = [attached EXCEPT ![c] = k]
      /\ last' = [last EXCEPT !.session = k, !.instance = @ + Len(order)]
      /\ PutOne(k, IF config.deferred_start \/ config.trigger = "START_TRACING"
                   THEN new ELSE StartTracing(new))
      /\ UNCHANGED <<producers, data_sources, posted, mux>>

(* The calls of a consumer on its session.                                 *)
Mine(c) == sessions[attached[c]]
Others == <<producers, data_sources, posted, mux>>

ConsumerStartTracing(c) ==
  /\ attached[c] # 0 /\ Mine(c).state = "CONFIGURED"
  /\ PutOne(attached[c], StartTracing(Mine(c)))
  /\ UNCHANGED <<attached, last, Others>>

ConsumerDisableTracing(c) ==
  /\ attached[c] # 0
  /\ PutOne(attached[c], DisableTracing(Mine(c), FALSE))
  /\ UNCHANGED <<attached, last, Others>>

(* Also when the consumer disconnects.                                     *)
ConsumerFreeBuffersKeepsID(c) ==
  /\ attached[c] # 0
  /\ PutOne(attached[c], FreeBuffers(Mine(c)))
  /\ UNCHANGED <<attached, last, Others>>
ConsumerFreeBuffers(c) ==
  /\ attached[c] # 0
  /\ PutOne(attached[c], FreeBuffers(Mine(c)))
  /\ attached' = [attached EXCEPT ![c] = 0]
  /\ UNCHANGED <<last, Others>>

Request(k) ==
  /\ Counted(Count(sessions[k]))
  /\ PutOne(k, Flush(sessions[k], last.flush + 1, FALSE))
  /\ UNCHANGED <<attached, Others>>

ConsumerFlush(c) == attached[c] # 0 /\ Request(attached[c])

ObserveEvents(c) ==
  /\ attached[c] # 0
  /\ PutOne(attached[c], MaybeNotifyAllDataSourcesStarted(Mine(c)))
  /\ UNCHANGED <<attached, last, Others>>

(* There is one key.                                                       *)
DetachConsumer(c) ==
  /\ attached[c] # 0
  /\ \A k \in Session : ~sessions[k].detached
  /\ Counted(0)
  /\ PutOne(attached[c], [Mine(c) EXCEPT !.consumer = NoConsumer, !.detached = TRUE,
                                         !.kept = FALSE])
  /\ attached' = [attached EXCEPT ![c] = 0]
  /\ UNCHANGED Others

AttachConsumer(c, k) ==
  /\ attached[c] = 0
  /\ sessions[k].detached
  /\ PutOne(k, [sessions[k] EXCEPT !.consumer = c, !.detached = FALSE])
  /\ attached' = [attached EXCEPT ![c] = k]
  /\ UNCHANGED <<last, Others>>

(* What a trigger, the same for every session, does to one; its            *)
(* stop_delay_ms, which becomes the duration, is not zero.                 *)
ActivateTrigger(s) ==
  LET t == [s EXCEPT !.triggered = TRUE]
  IN  CASE Exists(s) /\ s.config.trigger = "START_TRACING" ->
             IF s.state = "CONFIGURED"
             THEN StartTracing([t EXCEPT !.config.timed = TRUE]) ELSE t
        [] Exists(s) /\ s.config.trigger = "STOP_TRACING" ->
             [t EXCEPT !.timers = IF s.triggered THEN @ ELSE @ \cup {"stop"}]
        [] OTHER -> s

ActivateTriggers(p) ==
  /\ producers[p] # 0
  /\ \E k \in Session : ActivateTrigger(sessions[k]) # sessions[k]
  /\ Put([k \in Session |-> ActivateTrigger(sessions[k])])
  /\ UNCHANGED <<attached, last, Others>>

-----------------------------------------------------------------------------
(* The tasks of the service.                                               *)
Fire(k, timer, s) ==
  /\ timer \in sessions[k].timers
  /\ PutOne(k, [s EXCEPT !.timers = @ \ {timer}])
  /\ UNCHANGED <<attached, Others>>

FlushAndDisableTracing(k, timer) ==
  /\ Fire(k, timer, Flush(sessions[k], last.flush + 1, TRUE))
  /\ last' = [last EXCEPT !.flush = @ + Count(sessions[k])]

OverriddenByMode(s) == s.config.trigger = "STOP_TRACING"
OverriddenByTrigger(s) == s.config.trigger = "STOP_TRACING" /\ s.triggered

StopOnDurationMsExpiry(k) ==
  \/ ~OverriddenByTrigger(sessions[k]) /\ FlushAndDisableTracing(k, "duration")
  \/ /\ OverriddenByTrigger(sessions[k])
     /\ Fire(k, "duration", sessions[k])
     /\ UNCHANGED last

StopTriggerExpiry(k) == FlushAndDisableTracing(k, "stop")

OnStartTriggersTimeout(k) ==
  /\ Fire(k, "trigger", IF sessions[k].state = "CONFIGURED"
                        THEN DisableTracing(sessions[k], FALSE) ELSE sessions[k])
  /\ UNCHANGED last

OnDisableTracingTimeoutAlways(k) ==
  /\ Fire(k, "stop_acks", DisableTracingNotifyConsumerAndFlushFile(sessions[k]))
  /\ UNCHANGED last
OnDisableTracingTimeout(k) ==
  LET s == sessions[k]
  IN  /\ Fire(k, "stop_acks",
              IF s.state # "DISABLING_WAITING_STOP_ACKS" THEN s
              ELSE DisableTracingNotifyConsumerAndFlushFile(
                     [s EXCEPT !.dcheck = @ /\ ~AllDataSourceInstancesStopped(s)]))
      /\ UNCHANGED last

(* The task posts itself again while the session is STARTED.               *)
PeriodicFlushTask(k) ==
  /\ sessions[k].config.periodic /\ sessions[k].state = "STARTED"
  /\ Request(k)

OnFlushTimeout(k) ==
  \E x \in sessions[k].flushes :
    /\ PutOne(k, CompleteFlush([sessions[k] EXCEPT !.flushes = @ \ {x}],
                               x.id, x.disable, x.producers = {}))
    /\ UNCHANGED <<attached, last, Others>>

RunPostedTask ==
  LET task == Head(posted)
  IN  /\ posted # <<>>
      /\ posted' = Tail(posted)
      /\ PutOne(task.session, CompleteFlush(sessions[task.session], task.id,
                                            task.disable, TRUE))
      /\ UNCHANGED <<attached, producers, data_sources, last, mux>>

-----------------------------------------------------------------------------
(* The producers.  NotifyFlushComplete(f) reaches the service with the     *)
(* commit request of the producer; f = 0 if there is nothing to tell.      *)
Acked(p, r) ==
  /\ mux' = [mux EXCEPT ![p] = [r.m EXCEPT !.acked = Max({@, r.ack})]]
  /\ sessions' = [k \in Session |-> FlushesLeft(sessions[k], producers[p], r.ack)]
  /\ \E tasks \in Queued(FlushTasks(producers[p], r.ack)) :
       posted' = posted \o tasks
  /\ UNCHANGED <<attached, producers, data_sources, last>>

Receive(p, type) ==
  /\ inbox[p] # <<>> /\ Head(inbox[p]).type = type
  /\ inbox' = [inbox EXCEPT ![p] = Tail(@)]

ProducerSetup(p) ==
  LET call == Head(inbox[p])
  IN  /\ Receive(p, "SetupDataSource")
      /\ mux' = [mux EXCEPT ![p] = SetupDataSourceImpl(@, producers[p], call.id,
                                                       p \in Notifies)]
      /\ UNCHANGED <<sessions, attached, producers, data_sources, last, posted>>

(* The start is notified whether or not the instance has been set up.      *)
ProducerStart(p) ==
  LET call == Head(inbox[p])
  IN  /\ Receive(p, "StartDataSource")
      /\ sessions' = [k \in Session |-> NotifyDataSourceStarted(sessions[k], p, call.id)]
      /\ UNCHANGED <<attached, last, Others>>

ProducerStop(p) ==
  LET call == Head(inbox[p])
  IN  /\ Receive(p, "StopDataSource")
      /\ mux' = [mux EXCEPT ![p] = StopDataSource_AsyncBegin(@, call.id)]
      /\ UNCHANGED <<sessions, attached, producers, data_sources, last, posted>>

ProducerFlush(p) ==
  LET call == Head(inbox[p])
  IN  /\ Receive(p, "Flush")
      /\ \E async \in SUBSET {i \in call.ds : FindDataSource(mux[p], i) # {}} :
           Acked(p, BeginFlush(mux[p], call.id, async))

FlushDataSource_AsyncEnd(p) ==
  \E x \in mux[p].closures :
    /\ Acked(p, NotifyFlushForDataSourceDone(mux[p], x[1], x[2]))
    /\ UNCHANGED inbox

StopEnd(p) ==
  \E d \in mux[p].ds :
    /\ d.stopping
    /\ mux' = [mux EXCEPT ![p] = StopDataSource_AsyncEnd(@, d)]
    /\ sessions' = [k \in Session |->
          IF d.notify /\ d.connection = producers[p]
          THEN NotifyDataSourceStopped(sessions[k], p, d.id) ELSE sessions[k]]
    /\ UNCHANGED <<attached, producers, data_sources, last, posted, inbox>>

-----------------------------------------------------------------------------
ProducerStep(p) ==
  \/ ConnectProducer(p) \/ DisconnectProducer(p) \/ Unregister(p)
  \/ Register(p) \/ ActivateTriggers(p)
  \/ ProducerSetup(p) \/ ProducerStart(p) \/ ProducerStop(p) \/ ProducerFlush(p)
  \/ FlushDataSource_AsyncEnd(p) \/ StopEnd(p)

ConsumerStep(c) ==
  \/ \E config \in Config : EnableTracing(c, config)
  \/ ConsumerStartTracing(c) \/ ConsumerDisableTracing(c) \/ ConsumerFreeBuffers(c)
  \/ ConsumerFlush(c) \/ ObserveEvents(c) \/ DetachConsumer(c)
  \/ \E k \in Session : AttachConsumer(c, k)

Task(k) ==
  \/ StopOnDurationMsExpiry(k) \/ StopTriggerExpiry(k) \/ OnStartTriggersTimeout(k)
  \/ OnDisableTracingTimeout(k) \/ OnFlushTimeout(k)

Next ==
  \/ \E p \in Producer : ProducerStep(p)
  \/ \E c \in Consumer : ConsumerStep(c)
  \/ \E k \in Session : Task(k) \/ PeriodicFlushTask(k)
  \/ RunPostedTask

Spec == Init /\ [][Next]_vars

-----------------------------------------------------------------------------
InstanceState == {"none", "CONFIGURED", "STARTING", "STARTED", "STOPPING", "STOPPED"}
SessionState == {"none", "CONFIGURED", "STARTED", "DISABLING_WAITING_STOP_ACKS",
                 "DISABLED", "freed"}

(* Every variable has its type: an instance has an id that was given out,  *)
(* and only an instance that acknowledges is ever STARTING or STOPPING.    *)
TypeOK ==
  /\ \A k \in Session :
       LET s == sessions[k]
       IN  /\ s.state \in SessionState /\ s.consumer \in Consumer \cup {NoConsumer}
           /\ s.out = NoOut
           /\ \A p \in Producer :
                /\ s.inst[p].state \in InstanceState
                /\ s.inst[p].id \in 0 .. last.instance
                /\ s.inst[p].state \in {"STARTING", "STOPPING"} => s.inst[p].notify
           /\ \A x \in s.flushes : x.id \in 1 .. last.flush
  /\ attached \in [Consumer -> 0 .. MaxSessions]
  /\ producers \in [Producer -> 0 .. last.producer]
  /\ data_sources \subseteq Producer
  /\ \A i \in DOMAIN posted : posted[i].session \in Session

(* The DCHECKs of DisableTracing, StartDataSourceInstance,                 *)
(* OnDisableTracingTimeout, DisableTracingNotifyConsumerAndFlushFile and   *)
(* FreeBuffers hold.                                                       *)
DchecksHold == \A k \in Session : sessions[k].dcheck

(* An instance belongs to a producer that is connected and has the data    *)
(* source registered (the DCHECK(producer)s): DisconnectProducer leaves    *)
(* none behind in any session, whatever the session is waiting for.        *)
NoOrphanInstance ==
  \A k \in Session : \A p \in Instances(sessions[k]) :
     producers[p] # 0 /\ p \in data_sources

(* The session of a consumer and the consumer of a session agree, through  *)
(* detaching, attaching, freeing and expiry (the DCHECK at the end of      *)
(* DisconnectConsumer).                                                    *)
ConsumersAgree ==
  \A c \in Consumer, k \in Session : attached[c] = k <=> sessions[k].consumer = c

(* While the session waits for stop acknowledgements, one is missing and   *)
(* the timeout is pending: nobody else will disable it.                    *)
WaitsForSomeone ==
  \A k \in Session : sessions[k].state = "DISABLING_WAITING_STOP_ACKS" =>
     /\ \E p \in Producer : sessions[k].inst[p].state = "STOPPING"
     /\ "stop_acks" \in sessions[k].timers

(* A session with a duration that has started has an end to come: a timer  *)
(* that will stop it, or the flush before it, pending or just completed    *)
(* (StopOnDurationMsExpiry leaves a triggered session to its trigger).     *)
EndIsDue ==
  \A k \in Session : sessions[k].state = "STARTED" /\ sessions[k].config.timed =>
     \/ sessions[k].timers \cap {"duration", "stop"} # {}
     \/ \E x \in sessions[k].flushes : x.disable
     \/ \E i \in DOMAIN posted : posted[i].session = k /\ posted[i].disable

(* A consumer that has stayed with its session is told that all its data   *)
(* sources have started as soon as they have, also when the last one to be *)
(* waited for goes away instead of starting.                               *)
StartIsAnnounced ==
  \A k \in Session :
     LET s == sessions[k]
     IN  s.state = "STARTED" /\ s.kept /\ AllDataSourceInstancesStarted(s) => s.notified

Succeeded(f) ==
  \/ \E k \in Session : f \in sessions[k].flushed
  \/ \E i \in DOMAIN posted : posted[i].id = f

(* The flushes that producer p has not finished: those on their way and    *)
(* those that a data source is still handling.                             *)
Unfinished(p) ==
  {inbox[p][i].id : i \in {j \in DOMAIN inbox[p] : inbox[p][j].type = "Flush"}}
    \cup {x[1] : x \in mux[p].closures}

(* A flush succeeds only when every producer has finished it, or has       *)
(* acknowledged a later one.                                               *)
SuccessIsAcknowledged ==
  \A p \in Producer : \A f \in Unfinished(p) : Succeeded(f) => mux[p].acked > f
=============================================================================
