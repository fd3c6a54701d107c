------------------------ MODULE TracingServiceLemmas ------------------------
(***************************************************************************)
(* The inductive invariant of TracingService, and that every method of a   *)
(* session keeps the part of it that speaks of one session.                *)
(***************************************************************************)
EXTENDS TracingService, FiniteSetTheorems, TLAPS

InstanceType == [id : Nat, notify : BOOLEAN, state : InstanceState]
FlushType == [id : Nat, disable : BOOLEAN, producers : SUBSET Nat]
TaskType == [session : Session, id : Nat, disable : BOOLEAN]
CallType == [type : {"SetupDataSource", "StartDataSource", "StopDataSource", "Flush"},
             id : Nat, ds : SUBSET Nat]
Timer == {"duration", "stop", "trigger", "stop_acks"}
SessionType ==
  [state : SessionState, consumer : Consumer \cup {NoConsumer}, detached : BOOLEAN,
   kept : BOOLEAN, config : ConfigType, triggered : BOOLEAN,
   inst : [Producer -> InstanceType], flushes : SUBSET FlushType,
   notified : BOOLEAN, timers : SUBSET Timer, out : [Producer -> Seq(CallType)],
   flushed : SUBSET Nat, dcheck : BOOLEAN]

(* The states of a session's instances go with its own.                    *)
Allowed(state) ==
  CASE state = "CONFIGURED" -> {"CONFIGURED"}
    [] state = "STARTED" -> {"STARTING", "STARTED"}
    [] state = "DISABLING_WAITING_STOP_ACKS" -> {"STOPPING", "STOPPED"}
    [] state = "DISABLED" -> {"STOPPED"}
    [] OTHER -> {}
InStep(s) == \A p \in Producer : s.inst[p].state \in Allowed(s.state) \cup {"none"}

(* Who waits for stop acknowledgements.                                    *)
Waits(s) ==
  s.state = "DISABLING_WAITING_STOP_ACKS" =>
    /\ \E p \in Producer : s.inst[p].state = "STOPPING"
    /\ "stop_acks" \in s.timers

(* Whose the session is, and what it has been told.                        *)
Owned(s) ==
  /\ s.detached \/ s.consumer # NoConsumer => Exists(s)
  /\ s.detached => s.consumer = NoConsumer
  /\ s.kept /\ Exists(s) => s.consumer # NoConsumer
Announced(s) ==
  s.state = "STARTED" /\ s.kept /\ AllDataSourceInstancesStarted(s) => s.notified

(* How a session ends that has a duration or whose trigger has come; `due` *)
(* says that a task which disables it is posted.                           *)
Disables(s) == \E x \in s.flushes : x.disable
Ends(s, due) ==
  /\ s.state = "STARTED" /\ s.config.timed =>
       s.timers \cap {"duration", "stop"} # {} \/ Disables(s) \/ due
  /\ /\ s.state \in {"CONFIGURED", "STARTED"}
     /\ s.config.trigger = "STOP_TRACING" /\ s.triggered
     => "stop" \in s.timers \/ Disables(s) \/ due

Consistent(s) ==
  /\ s \in SessionType /\ IsFiniteSet(s.flushes) /\ s.dcheck
  /\ InStep(s) /\ Waits(s) /\ Owned(s)
Sound(s) == Consistent(s) /\ Announced(s)

(* What most methods leave alone.                                          *)
Kin(s, t) ==
  /\ t.consumer = s.consumer /\ Instances(t) \subseteq Instances(s)
  /\ t.state = "none" <=> s.state = "none"
KeepsEnd(s, t) == \A due \in BOOLEAN : Ends(s, due) => Ends(t, due)

Due(k) == \E i \in DOMAIN posted : posted[i].session = k /\ posted[i].disable

LastType == [session : Nat, producer : Nat, instance : Nat, flush : Nat, calls : Nat]
ServiceType ==
  /\ sessions \in [Session -> SessionType]
  /\ attached \in [Consumer -> 0 .. MaxSessions]
  /\ producers \in [Producer -> Nat]
  /\ data_sources \subseteq Producer
  /\ last \in LastType
  /\ posted \in Seq(TaskType)

IInv ==
  /\ ServiceType
  /\ \A k \in Session : Sound(sessions[k]) /\ Ends(sessions[k], Due(k))
  /\ \A k \in Session : k > last.session => sessions[k].state = "none"
  /\ \A p \in data_sources : producers[p] # 0
  /\ \A k \in Session : Instances(sessions[k]) \subseteq data_sources
  /\ ConsumersAgree
-----------------------------------------------------------------------------
LEMMA KinIsTransitive ==
  ASSUME NEW s, NEW t, NEW u, Kin(s, t), Kin(t, u)
  PROVE  Kin(s, u)
BY Zenon DEF Kin

LEMMA KeepsEndIsTransitive ==
  ASSUME NEW s, NEW t, NEW u, KeepsEnd(s, t), KeepsEnd(t, u)
  PROVE  KeepsEnd(s, u)
BY Zenon DEF KeepsEnd

(* A method of a session does its work on a record that differs in a few   *)
(* fields.  MaybeNotifyAllDataSourcesStarted restores Announced.           *)
LEMMA MaybeNotifySound ==
  ASSUME NEW s, Consistent(s)
  PROVE  LET t == MaybeNotifyAllDataSourcesStarted(s)
         IN  Sound(t) /\ Kin(s, t) /\ KeepsEnd(s, t) /\ t.inst = s.inst
<1> DEFINE t == [s EXCEPT !.notified = TRUE]
<1>1. s \in SessionType
  BY Zenon DEF Consistent
<1>2. /\ t \in SessionType /\ t.notified
      /\ t.state = s.state /\ t.consumer = s.consumer /\ t.detached = s.detached
      /\ t.kept = s.kept /\ t.config = s.config /\ t.triggered = s.triggered
      /\ t.inst = s.inst /\ t.flushes = s.flushes /\ t.timers = s.timers
      /\ t.dcheck = s.dcheck
  BY <1>1, Zenon DEF SessionType
<1>3. Sound(t) /\ Kin(s, t) /\ KeepsEnd(s, t)
  BY <1>2, Zenon DEF Sound, Consistent, InStep, Waits, Owned, Ends, Announced, Disables, Exists,
              Kin, KeepsEnd, Instances
<1>4. s.consumer = NoConsumer \/ ~AllDataSourceInstancesStarted(s) \/ s.notified
      => Sound(s) /\ Kin(s, s) /\ KeepsEnd(s, s)
  BY <1>1, Zenon DEF Sound, Consistent, Owned, Announced, Kin, KeepsEnd, Exists
<1> QED
  BY <1>2, <1>3, <1>4, Zenon DEF MaybeNotifyAllDataSourcesStarted

LEMMA BegunType ==
  ASSUME NEW i \in InstanceType
  PROVE  /\ Begun(i) \in InstanceType /\ Begun(i).state \in {"STARTING", "STARTED"}
         /\ \A now \in BOOLEAN : /\ Ended(i, now) \in InstanceType
                                 /\ Ended(i, now).state \in {"STOPPING", "STOPPED"}
                                 /\ now => Ended(i, now).state = "STOPPED"
BY Zenon DEF InstanceType, Begun, Ended, InstanceState

LEMMA AppendType ==
  ASSUME NEW T, NEW q \in Seq(T), NEW x \in T
  PROVE  Append(q, x) \in Seq(T)
OBVIOUS

LEMMA AppendedCall ==
  ASSUME NEW s \in SessionType, NEW p \in Producer, NEW id \in Nat, NEW ds \in SUBSET Nat,
         NEW type \in {"SetupDataSource", "StartDataSource", "StopDataSource", "Flush"}
  PROVE  Append(s.out[p], Call(type, id, ds)) \in Seq(CallType)
<1>1. Call(type, id, ds) \in CallType
  BY Zenon DEF Call, CallType
<1>2. s.out[p] \in Seq(CallType)
  BY Zenon DEF SessionType
<1> QED
  BY <1>1, <1>2, AppendType, Zenon

LEMMA InstanceFacts ==
  ASSUME NEW s \in SessionType, NEW p \in Producer
  PROVE  /\ s.inst[p] \in InstanceType /\ s.inst[p].id \in Nat
         /\ p \in Instances(s) <=> s.inst[p].state # "none"
BY Zenon DEF SessionType, InstanceType, Instances

LEMMA StartTracingSound ==
  ASSUME NEW s, Sound(s)
  PROVE  LET t == StartTracing(s)
         IN  Sound(t) /\ Kin(s, t) /\ KeepsEnd(s, t)
<1>1. CASE s.state # "CONFIGURED"
  BY <1>1, Zenon DEF StartTracing, Kin, KeepsEnd
<1>2. CASE s.state = "CONFIGURED"
  <2> DEFINE t == [s EXCEPT !.state = "STARTED",
                   !.timers = @ \cup (IF s.config.timed THEN {"duration"} ELSE {}),
                   !.dcheck = @ /\ \A p \in Instances(s) : s.inst[p].state = "CONFIGURED",
                   !.inst = [p \in Producer |->
                      IF p \in Instances(s) THEN Begun(@[p]) ELSE @[p]],
                   !.out = [p \in Producer |-> IF p \in Instances(s)
                      THEN Append(@[p], Call("StartDataSource", s.inst[p].id, {}))
                      ELSE @[p]]]
  <2>1. s \in SessionType /\ s.dcheck /\ InStep(s)
    BY Zenon DEF Sound, Consistent
  <2>2. \A p \in Instances(s) : s.inst[p].state = "CONFIGURED"
    BY <2>1, <1>2, Zenon DEF InStep, Allowed, Instances
  <2>3. [p \in Producer |-> IF p \in Instances(s) THEN Begun(s.inst[p]) ELSE s.inst[p]]
        \in [Producer -> InstanceType]
    BY <2>1, BegunType, Zenon DEF SessionType
  <2>4. [p \in Producer |-> IF p \in Instances(s)
           THEN Append(s.out[p], Call("StartDataSource", s.inst[p].id, {}))
           ELSE s.out[p]] \in [Producer -> Seq(CallType)]
    BY <2>1, AppendedCall, InstanceFacts, Zenon DEF SessionType
  <2>5. /\ t \in SessionType /\ t.dcheck
        /\ t.state = "STARTED" /\ t.consumer = s.consumer /\ t.detached = s.detached
        /\ t.kept = s.kept /\ t.config = s.config /\ t.triggered = s.triggered
        /\ t.inst = [p \in Producer |->
                       IF p \in Instances(s) THEN Begun(s.inst[p]) ELSE s.inst[p]]
        /\ t.flushes = s.flushes
        /\ t.timers = s.timers \cup (IF s.config.timed THEN {"duration"} ELSE {})
    BY <2>1, <2>2, <2>3, <2>4, Zenon DEF SessionType, SessionState, Timer
  <2>6. Instances(t) = Instances(s) /\ InStep(t)
    <3> HIDE DEF t
    <3>1. \A p \in Producer :
            /\ p \in Instances(s) => t.inst[p].state \in {"STARTING", "STARTED"}
            /\ p \notin Instances(s) => t.inst[p].state = "none"
      BY <2>1, <2>5, BegunType, InstanceFacts, Zenon
    <3> QED
      BY <3>1, <2>5, Zenon DEF Instances, InStep, Allowed
  <2>7. Consistent(t) /\ Kin(s, t) /\ KeepsEnd(s, t)
    BY <2>5, <2>6, <1>2, Zenon DEF Sound, Consistent, Waits, Owned, Ends, Disables, Exists,
                            Kin, KeepsEnd
  <2>8. StartTracing(s) = MaybeNotifyAllDataSourcesStarted(t)
    BY <1>2, Zenon DEF StartTracing
  <2> HIDE DEF t
  <2> QED
    BY <2>7, <2>8, MaybeNotifySound, KinIsTransitive, KeepsEndIsTransitive, Zenon
<1> QED
  BY <1>1, <1>2, Zenon

LEMMA CheckedSame ==
  ASSUME NEW s \in SessionType, s.dcheck, NEW P \in BOOLEAN, P
  PROVE  [s EXCEPT !.dcheck = @ /\ P] = s
<1>1. (s.dcheck /\ P) = s.dcheck
  BY Zenon DEF SessionType
<1> QED
  BY <1>1, Zenon DEF SessionType

LEMMA DisabledSound ==
  ASSUME NEW s \in SessionType, IsFiniteSet(s.flushes), s.dcheck, Owned(s), Exists(s),
         s.state # "DISABLED"
  PROVE  LET t == DisableTracingNotifyConsumerAndFlushFile(s)
         IN  /\ Sound(t) /\ Kin(s, t) /\ t.state = "DISABLED"
             /\ AllDataSourceInstancesStopped(t)
<1> DEFINE t == DisableTracingNotifyConsumerAndFlushFile(s)
<1>1. [p \in Producer |-> IF p \in Instances(s)
                          THEN [s.inst[p] EXCEPT !.state = "STOPPED"] ELSE s.inst[p]]
      \in [Producer -> InstanceType]
  <2>1. \A x \in InstanceType : [x EXCEPT !.state = "STOPPED"] \in InstanceType
    BY Zenon DEF InstanceType, InstanceState
  <2>2. s.inst \in [Producer -> InstanceType]
    BY Zenon DEF SessionType
  <2> QED
    BY <2>1, <2>2, Zenon
<1>2. /\ t \in SessionType /\ t.dcheck
      /\ t.state = "DISABLED" /\ t.consumer = s.consumer /\ t.detached = s.detached
      /\ t.kept = s.kept /\ t.flushes = s.flushes
      /\ t.inst = [p \in Producer |-> IF p \in Instances(s)
                          THEN [s.inst[p] EXCEPT !.state = "STOPPED"] ELSE s.inst[p]]
  BY <1>1, Zenon DEF DisableTracingNotifyConsumerAndFlushFile, SessionType, SessionState
<1> HIDE DEF t
<1>3. \A p \in Producer : /\ p \in Instances(s) => t.inst[p].state = "STOPPED"
                          /\ p \notin Instances(s) => t.inst[p].state = "none"
  BY <1>2, InstanceFacts, Zenon DEF InstanceType
<1>4. Instances(t) = Instances(s) /\ InStep(t) /\ AllDataSourceInstancesStopped(t)
  BY <1>2, <1>3, Zenon DEF Instances, InStep, Allowed, AllDataSourceInstancesStopped
<1>5. Sound(t) /\ Kin(s, t)
  BY <1>2, <1>4, Zenon DEF Sound, Consistent, Waits, Owned, Announced, Exists, Kin
<1> QED
  BY <1>2, <1>4, <1>5, Zenon DEF t

LEMMA DisableTracingSound ==
  ASSUME NEW s, Sound(s), NEW immediately \in BOOLEAN
  PROVE  LET t == DisableTracing(s, immediately)
         IN  /\ Sound(t) /\ Kin(s, t)
             /\ t.state \notin {"CONFIGURED", "STARTED"}
             /\ immediately => AllDataSourceInstancesStopped(t)
             /\ Exists(s) <=> Exists(t)
<1> DEFINE now == immediately \/ s.state = "CONFIGURED"
           inst == [p \in Producer |->
                      IF p \in Instances(s) THEN Ended(s.inst[p], now) ELSE s.inst[p]]
           t == [s EXCEPT
              !.dcheck = @ /\ \A p \in Instances(s) :
                 s.inst[p].state \in {"CONFIGURED", "STARTING", "STARTED"},
              !.inst = [p \in Producer |->
                 IF p \in Instances(s) THEN Ended(@[p], now) ELSE @[p]],
              !.out = [p \in Producer |-> IF p \in Instances(s)
                 THEN Append(@[p], Call("StopDataSource", s.inst[p].id, {})) ELSE @[p]]]
           u == [t EXCEPT !.state = "DISABLING_WAITING_STOP_ACKS",
                          !.timers = @ \cup {"stop_acks"}]
           waiting == [s EXCEPT !.dcheck = @ /\ ~AllDataSourceInstancesStopped(s)]
           d == DisableTracing(s, immediately)
<1>1. /\ s \in SessionType /\ s.dcheck /\ InStep(s) /\ Waits(s) /\ Owned(s)
      /\ IsFiniteSet(s.flushes)
  BY Zenon DEF Sound, Consistent
<1>2. CASE s.state = "DISABLED"
  <2>1. AllDataSourceInstancesStopped(s)
    BY <1>1, <1>2, Zenon DEF AllDataSourceInstancesStopped, InStep, Allowed, Instances
  <2>2. d = s
    BY <1>1, <1>2, <2>1, CheckedSame, Zenon DEF DisableTracing
  <2> HIDE DEF d
  <2> QED
    BY <1>2, <2>1, <2>2, Zenon DEF Kin, d
<1>3. CASE s.state = "DISABLING_WAITING_STOP_ACKS"
  <2>1. ~AllDataSourceInstancesStopped(s)
    BY <1>1, <1>3, Zenon DEF AllDataSourceInstancesStopped, Waits, Instances
  <2>2. waiting = s
    BY <1>1, <2>1, CheckedSame, Zenon
  <2>3. d = IF immediately THEN DisableTracingNotifyConsumerAndFlushFile(s) ELSE s
    BY <1>3, <2>2, Zenon DEF DisableTracing
  <2> HIDE DEF d
  <2>4. Exists(s) /\ Kin(s, s)
    BY <1>3, Zenon DEF Exists, Kin
  <2> QED
    BY <1>1, <1>3, <2>3, <2>4, DisabledSound, Zenon DEF d, Exists
<1>4. CASE s.state \in {"CONFIGURED", "STARTED"}
  <2>1. \A p \in Instances(s) : s.inst[p].state \in {"CONFIGURED", "STARTING", "STARTED"}
    BY <1>1, <1>4, Zenon DEF InStep, Allowed, Instances
  <2>2. inst \in [Producer -> InstanceType]
    BY <1>1, BegunType, InstanceFacts, Zenon
  <2>3. [p \in Producer |-> IF p \in Instances(s)
           THEN Append(s.out[p], Call("StopDataSource", s.inst[p].id, {})) ELSE s.out[p]]
        \in [Producer -> Seq(CallType)]
    BY <1>1, AppendedCall, InstanceFacts, Zenon DEF SessionType
  <2>4. /\ t \in SessionType /\ t.dcheck
        /\ t.state = s.state /\ t.consumer = s.consumer /\ t.detached = s.detached
        /\ t.kept = s.kept /\ t.flushes = s.flushes /\ t.timers = s.timers
        /\ t.inst = inst
    <3> HIDE DEF now
    <3> QED BY <1>1, <2>1, <2>2, <2>3, Zenon DEF SessionType
  <2>5. d = IF AllDataSourceInstancesStopped(t)
            THEN DisableTracingNotifyConsumerAndFlushFile(t) ELSE u
    BY <1>4, Zenon DEF DisableTracing
  <2> HIDE DEF t, d
  <2>6. \A p \in Producer : /\ p \in Instances(s) => /\ t.inst[p] = Ended(s.inst[p], now)
                                                    /\ t.inst[p].state \in {"STOPPING", "STOPPED"}
                            /\ p \notin Instances(s) => t.inst[p].state = "none"
    <3>1. now \in BOOLEAN
      BY Zenon
    <3> HIDE DEF now
    <3> TAKE p \in Producer
    <3>2. t.inst[p] = IF p \in Instances(s) THEN Ended(s.inst[p], now) ELSE s.inst[p]
      BY <2>4, Zenon
    <3>3. s.inst[p] \in InstanceType /\ (p \in Instances(s) <=> s.inst[p].state # "none")
      BY <1>1, InstanceFacts, Zenon
    <3>4. Ended(s.inst[p], now).state \in {"STOPPING", "STOPPED"}
      BY <3>1, <3>3, BegunType, Zenon
    <3> QED
      BY <3>2, <3>3, <3>4, Zenon
  <2>7. Instances(t) = Instances(s)
    BY <2>6, Zenon DEF Instances
  <2>8. Owned(t) /\ Exists(t) /\ Exists(s)
    BY <1>1, <1>4, <2>4, Zenon DEF Owned, Exists
  <2>9. Kin(s, t)
    BY <2>4, <2>7, Zenon DEF Kin
  <2>10. CASE AllDataSourceInstancesStopped(t)
    <3> DEFINE v == DisableTracingNotifyConsumerAndFlushFile(t)
    <3>1. t.state # "DISABLED"
      BY <1>4, <2>4, Zenon
    <3>2. /\ Sound(v) /\ Kin(t, v) /\ v.state = "DISABLED"
          /\ AllDataSourceInstancesStopped(v)
      BY <1>1, <2>4, <2>8, <3>1, DisabledSound, Zenon
    <3>3. d = v
      BY <2>5, <2>10, Zenon
    <3> HIDE DEF v
    <3> QED
      BY <2>8, <2>9, <3>2, <3>3, KinIsTransitive, Zenon DEF Exists, d
  <2>11. CASE ~AllDataSourceInstancesStopped(t)
    <3>1. ~now
      <4> SUFFICES ASSUME now PROVE FALSE
        BY Zenon
      <4>1. \A p \in Producer : Ended(s.inst[p], now).state = "STOPPED"
        BY <1>1, InstanceFacts, Zenon DEF Ended, InstanceType
      <4> QED
        BY <4>1, <2>6, <2>7, <2>11, Zenon DEF AllDataSourceInstancesStopped, Instances
    <3>2. \E p \in Producer : t.inst[p].state = "STOPPING"
      BY <2>6, <2>7, <2>11, Zenon DEF AllDataSourceInstancesStopped, Instances
    <3>3. /\ u \in SessionType /\ u.dcheck
          /\ u.state = "DISABLING_WAITING_STOP_ACKS" /\ u.consumer = t.consumer
          /\ u.detached = t.detached /\ u.kept = t.kept /\ u.flushes = t.flushes
          /\ "stop_acks" \in u.timers /\ u.inst = t.inst
      BY <2>4, Zenon DEF SessionType, SessionState, Timer
    <3>4. d = u
      BY <2>5, <2>11, Zenon
    <3> HIDE DEF u, inst
    <3>5. InStep(u) /\ Instances(u) = Instances(t)
      BY <2>6, <3>3, Zenon DEF InStep, Allowed, Instances
    <3>6. Sound(u) /\ Kin(t, u)
      BY <1>1, <2>4, <2>8, <3>2, <3>3, <3>5, Zenon
         DEF Sound, Consistent, Waits, Owned, Announced, Exists, Kin
    <3> QED
      BY <2>8, <2>9, <3>1, <3>3, <3>4, <3>6, KinIsTransitive, Zenon DEF Exists, d
  <2> QED
    BY <2>10, <2>11, Zenon
<1>5. CASE s.state \in {"none", "freed"}
  <2>1. d = s
    BY <1>5, Zenon DEF DisableTracing
  <2>2. AllDataSourceInstancesStopped(s) /\ Kin(s, s)
    BY <1>1, <1>5, Zenon DEF AllDataSourceInstancesStopped, InStep, Allowed, Instances, Kin
  <2> HIDE DEF d
  <2> QED
    BY <1>5, <2>1, <2>2, Zenon DEF d
<1>6. s.state \in SessionState
  BY <1>1, Zenon DEF SessionType
<1> QED
  BY <1>2, <1>3, <1>4, <1>5, <1>6, Zenon DEF SessionState

LEMMA FreeBuffersSound ==
  ASSUME NEW s, Sound(s)
  PROVE  LET t == FreeBuffers(s)
         IN  /\ Sound(t) /\ t.consumer = NoConsumer /\ Instances(t) = {}
             /\ t.state = "none" <=> s.state = "none"
             /\ ~Exists(t)
<1> DEFINE d == DisableTracing(s, TRUE)
           t == [NoSession EXCEPT !.state = "freed", !.out = d.out,
                         !.dcheck = d.dcheck /\ AllDataSourceInstancesStopped(d)]
<1>1. CASE ~Exists(s)
  <2>1. FreeBuffers(s) = s
    BY <1>1, Zenon DEF FreeBuffers
  <2>2. s.consumer = NoConsumer /\ Instances(s) = {}
    BY <1>1, Zenon DEF Sound, Consistent, Owned, InStep, Allowed, Instances, Exists
  <2> QED
    BY <1>1, <2>1, <2>2, Zenon
<1>2. CASE Exists(s)
  <2>1. FreeBuffers(s) = t
    BY <1>2, Zenon DEF FreeBuffers
  <2>2. d \in SessionType /\ d.dcheck /\ AllDataSourceInstancesStopped(d)
    BY DisableTracingSound, Zenon DEF Sound, Consistent
  <2> HIDE DEF d
  <2>3. [p \in Producer |-> NoInstance] \in [Producer -> InstanceType]
    BY Zenon DEF NoInstance, InstanceType, InstanceState
  <2>4. NoConfig \in ConfigType
    BY Zenon DEF NoConfig, ConfigType
  <2>5. /\ t \in SessionType /\ t.dcheck
        /\ t.state = "freed" /\ t.consumer = NoConsumer /\ t.detached = FALSE
        /\ t.flushes = {} /\ t.inst = [p \in Producer |-> NoInstance]
    BY <2>2, <2>3, <2>4, Zenon DEF NoSession, SessionType, SessionState
  <2> HIDE DEF t
  <2>6. Instances(t) = {} /\ InStep(t) /\ ~Exists(t)
    BY <2>5 DEF Instances, InStep, NoInstance, Exists
  <2>7. IsFiniteSet(t.flushes)
    BY <2>5, FS_EmptySet, Zenon
  <2>8. Sound(t)
    BY <2>5, <2>6, <2>7, Zenon DEF Sound, Consistent, Waits, Owned, Announced, Exists
  <2> QED
    BY <1>2, <2>1, <2>5, <2>6, <2>8, Zenon DEF Exists
<1> QED
  BY <1>1, <1>2, Zenon

LEMMA NotifyStartedSound ==
  ASSUME NEW s, Sound(s), NEW p \in Producer, NEW id
  PROVE  LET t == NotifyDataSourceStarted(s, p, id)
         IN  Sound(t) /\ Kin(s, t) /\ KeepsEnd(s, t)
<1> DEFINE t == [s EXCEPT !.inst[p].state = "STARTED"]
<1>1. CASE s.state # "STARTED" \/ s.inst[p].id # id \/ s.inst[p].state # "STARTING"
  BY <1>1, Zenon DEF NotifyDataSourceStarted, Kin, KeepsEnd
<1>2. CASE s.state = "STARTED" /\ s.inst[p].id = id /\ s.inst[p].state = "STARTING"
  <2>1. /\ s \in SessionType /\ s.dcheck /\ InStep(s) /\ Owned(s)
        /\ IsFiniteSet(s.flushes)
    BY Zenon DEF Sound, Consistent
  <2>2. [s.inst EXCEPT ![p].state = "STARTED"] \in [Producer -> InstanceType]
    <3>1. s.inst \in [Producer -> InstanceType] /\ s.inst[p] \in InstanceType
      BY <2>1, InstanceFacts, Zenon DEF SessionType
    <3>2. [s.inst[p] EXCEPT !.state = "STARTED"] \in InstanceType
      BY <3>1, Zenon DEF InstanceType, InstanceState
    <3> QED
      BY <3>1, <3>2, Zenon
  <2>3. /\ t \in SessionType /\ t.dcheck
        /\ t.state = s.state /\ t.consumer = s.consumer /\ t.detached = s.detached
        /\ t.kept = s.kept /\ t.config = s.config /\ t.triggered = s.triggered
        /\ t.inst = [s.inst EXCEPT ![p].state = "STARTED"]
        /\ t.flushes = s.flushes /\ t.timers = s.timers
    BY <2>1, <2>2, Zenon DEF SessionType
  <2>4. NotifyDataSourceStarted(s, p, id) = MaybeNotifyAllDataSourcesStarted(t)
    BY <1>2, Zenon DEF NotifyDataSourceStarted
  <2> HIDE DEF t
  <2>5. \A q \in Producer : t.inst[q].state = IF q = p THEN "STARTED" ELSE s.inst[q].state
    BY <2>1, <2>3 DEF SessionType, InstanceType
  <2>6. InStep(t) /\ Instances(t) = Instances(s)
    BY <1>2, <2>1, <2>3, <2>5 DEF InStep, Allowed, Instances
  <2>7. Consistent(t) /\ Kin(s, t) /\ KeepsEnd(s, t)
    BY <1>2, <2>1, <2>3, <2>6, Zenon
       DEF Consistent, Waits, Owned, Ends, Disables, Exists, Kin, KeepsEnd
  <2> QED
    BY <2>4, <2>7, MaybeNotifySound, KinIsTransitive, KeepsEndIsTransitive, Zenon
<1> QED
  BY <1>1, <1>2, Zenon

LEMMA NotifyStoppedSound ==
  ASSUME NEW s, Sound(s), NEW p \in Producer, NEW id
  PROVE  LET t == NotifyDataSourceStopped(s, p, id)
         IN  /\ Sound(t) /\ Kin(s, t) /\ KeepsEnd(s, t)
             /\ s.inst[p].id = id /\ s.inst[p].state = "STOPPING" =>
                  /\ t.state \in {"DISABLING_WAITING_STOP_ACKS", "DISABLED"}
                  /\ t.inst[p].state = "STOPPED"
<1> DEFINE t == [s EXCEPT !.inst[p].state = "STOPPED"]
           n == NotifyDataSourceStopped(s, p, id)
<1>1. CASE s.inst[p].id # id \/ s.inst[p].state # "STOPPING"
  BY <1>1, Zenon DEF NotifyDataSourceStopped, Kin, KeepsEnd
<1>2. CASE s.inst[p].id = id /\ s.inst[p].state = "STOPPING"
  <2>1. /\ s \in SessionType /\ s.dcheck /\ InStep(s) /\ Owned(s) /\ Waits(s)
        /\ IsFiniteSet(s.flushes)
    BY Zenon DEF Sound, Consistent
  <2>2. s.state = "DISABLING_WAITING_STOP_ACKS"
    BY <1>2, <2>1, Zenon DEF InStep, Allowed
  <2>3. [s.inst EXCEPT ![p].state = "STOPPED"] \in [Producer -> InstanceType]
    <3>1. \A x \in InstanceType : [x EXCEPT !.state = "STOPPED"] \in InstanceType
      BY Zenon DEF InstanceType, InstanceState
    <3>2. s.inst \in [Producer -> InstanceType]
      BY <2>1, Zenon DEF SessionType
    <3> QED
      BY <3>1, <3>2, Zenon
  <2>4. /\ t \in SessionType /\ t.dcheck
        /\ t.state = s.state /\ t.consumer = s.consumer /\ t.detached = s.detached
        /\ t.kept = s.kept
        /\ t.inst = [s.inst EXCEPT ![p].state = "STOPPED"]
        /\ t.flushes = s.flushes /\ t.timers = s.timers
    BY <2>1, <2>3, Zenon DEF SessionType
  <2>5. n = IF AllDataSourceInstancesStopped(t)
            THEN DisableTracingNotifyConsumerAndFlushFile(t) ELSE t
    BY <1>2, <2>2, <2>4, Zenon DEF NotifyDataSourceStopped
  <2> HIDE DEF t, n
  <2>6. \A q \in Producer : t.inst[q].state = IF q = p THEN "STOPPED" ELSE s.inst[q].state
    BY <2>1, <2>4 DEF SessionType, InstanceType
  <2>7. InStep(t) /\ Instances(t) = Instances(s)
    BY <1>2, <2>1, <2>2, <2>4, <2>6 DEF InStep, Allowed, Instances
  <2>8. Owned(t) /\ Exists(t) /\ Kin(s, t)
    BY <2>1, <2>2, <2>4, <2>7, Zenon DEF Owned, Exists, Kin
  <2>9. CASE AllDataSourceInstancesStopped(t)
    <3> DEFINE v == DisableTracingNotifyConsumerAndFlushFile(t)
    <3>1. Sound(v) /\ Kin(t, v) /\ v.state = "DISABLED" /\ AllDataSourceInstancesStopped(v)
      BY <2>1, <2>2, <2>4, <2>8, DisabledSound, Zenon
    <3>2. n = v
      BY <2>5, <2>9, Zenon
    <3>3. v.inst[p].state = "STOPPED"
      <4>1. v.inst = [q \in Producer |-> IF q \in Instances(t)
                          THEN [t.inst[q] EXCEPT !.state = "STOPPED"] ELSE t.inst[q]]
        BY <2>4, Zenon DEF DisableTracingNotifyConsumerAndFlushFile, SessionType
      <4> QED
        BY <4>1, <2>4, <2>6, InstanceFacts DEF InstanceType
    <3> HIDE DEF v
    <3>4. KeepsEnd(s, v)
      BY <3>1, Zenon DEF KeepsEnd, Ends
    <3> QED
      BY <2>8, <3>1, <3>2, <3>3, <3>4, KinIsTransitive, Zenon DEF n
  <2>10. CASE ~AllDataSourceInstancesStopped(t)
    <3>1. \E q \in Producer : t.inst[q].state = "STOPPING"
      BY <2>2, <2>4, <2>7, <2>10, Zenon
      DEF AllDataSourceInstancesStopped, Instances, InStep, Allowed
    <3>2. Sound(t)
      BY <2>1, <2>2, <2>4, <2>7, <2>8, <3>1, Zenon DEF Sound, Consistent, Waits, Announced
    <3>3. KeepsEnd(s, t) /\ t.inst[p].state = "STOPPED"
      BY <2>2, <2>4, <2>6, Zenon DEF KeepsEnd, Ends
    <3> QED
      BY <2>2, <2>4, <2>5, <2>8, <2>10, <3>2, <3>3, Zenon DEF n
  <2> QED
    BY <2>9, <2>10, Zenon
<1> QED
  BY <1>1, <1>2, Zenon

(* The instance is stopped, and acknowledged if that is waited for, before *)
(* it is erased.                                                           *)
LEMMA UnregisterSound ==
  ASSUME NEW s, Sound(s), NEW p \in Producer
  PROVE  LET t == UnregisterDataSource(s, p)
         IN  Sound(t) /\ Kin(s, t) /\ KeepsEnd(s, t) /\ p \notin Instances(t)
<1> DEFINE t == IF s.inst[p].state \in {"STOPPED", "STOPPING"} THEN s
                ELSE StopDataSourceInstance(s, p, FALSE)
           u == IF t.inst[p].state = "STOPPING"
                THEN NotifyDataSourceStopped(t, p, t.inst[p].id) ELSE t
           v == [u EXCEPT !.inst[p] = NoInstance]
           d == UnregisterDataSource(s, p)
<1>1. /\ s \in SessionType /\ s.dcheck /\ InStep(s) /\ Owned(s) /\ Waits(s)
      /\ IsFiniteSet(s.flushes)
  BY Zenon DEF Sound, Consistent
<1>2. CASE p \notin Instances(s)
  BY <1>2, Zenon DEF UnregisterDataSource, Kin, KeepsEnd
<1>3. CASE p \in Instances(s)
  <2>1. d = MaybeNotifyAllDataSourcesStarted(v)
    BY <1>3, Zenon DEF UnregisterDataSource
  <2>2. SUFFICES Consistent(v) /\ Kin(s, v) /\ KeepsEnd(s, v) /\ p \notin Instances(v)
    <3> HIDE DEF v, d
    <3>1. Instances(MaybeNotifyAllDataSourcesStarted(v)) \subseteq Instances(v)
      BY <2>2, MaybeNotifySound, Zenon DEF Kin
    <3> QED
      BY <2>1, <2>2, <3>1, MaybeNotifySound, KinIsTransitive, KeepsEndIsTransitive, Zenon DEF d
  <2>3. \A w \in SessionType : LET x == [w EXCEPT !.inst[p] = NoInstance] IN
          /\ x \in SessionType /\ x.dcheck = w.dcheck
          /\ x.state = w.state /\ x.consumer = w.consumer /\ x.detached = w.detached
          /\ x.kept = w.kept /\ x.config = w.config /\ x.triggered = w.triggered
          /\ x.flushes = w.flushes /\ x.timers = w.timers
          /\ x.inst[p] = NoInstance /\ \A q \in Producer : q # p => x.inst[q] = w.inst[q]
    BY Zenon DEF SessionType, NoInstance, InstanceType, InstanceState
  <2>4. CASE s.state \in {"CONFIGURED", "STARTED"}
    <3>1. s.inst[p].state \notin {"STOPPED", "STOPPING"}
      BY <1>1, <2>4, Zenon DEF InStep, Allowed
    <3>2. t = StopDataSourceInstance(s, p, FALSE)
      BY <3>1, Zenon
    <3>3. Append(s.out[p], Call("StopDataSource", s.inst[p].id, {})) \in Seq(CallType)
      BY <1>1, AppendedCall, InstanceFacts, Zenon
    <3>4. Ended(s.inst[p], FALSE) \in InstanceType
      BY <1>1, BegunType, InstanceFacts, Zenon
    <3> HIDE DEF t
    <3>5. /\ t \in SessionType /\ t.dcheck = s.dcheck
          /\ t.state = s.state /\ t.consumer = s.consumer /\ t.detached = s.detached
          /\ t.kept = s.kept /\ t.config = s.config /\ t.triggered = s.triggered
          /\ t.flushes = s.flushes /\ t.timers = s.timers
          /\ \A q \in Producer : q # p => t.inst[q] = s.inst[q]
      BY <1>1, <3>2, <3>3, <3>4, Zenon DEF StopDataSourceInstance, SessionType
    <3>6. u = t \/ u = [t EXCEPT !.inst[p].state = "STOPPED"]
      BY <2>4, <3>5, Zenon DEF NotifyDataSourceStopped, SessionType
    <3>7. /\ u \in SessionType /\ u.dcheck = s.dcheck
          /\ u.state = s.state /\ u.consumer = s.consumer /\ u.detached = s.detached
          /\ u.kept = s.kept /\ u.config = s.config /\ u.triggered = s.triggered
          /\ u.flushes = s.flushes /\ u.timers = s.timers
          /\ \A q \in Producer : q # p => u.inst[q] = s.inst[q]
      <4> DEFINE x == [t EXCEPT !.inst[p].state = "STOPPED"]
      <4>1. [t.inst EXCEPT ![p].state = "STOPPED"] \in [Producer -> InstanceType]
        <5>1. t.inst \in [Producer -> InstanceType]
          BY <3>5, Zenon DEF SessionType
        <5> QED
          BY <5>1, Zenon DEF InstanceType, InstanceState
      <4>2. /\ x \in SessionType /\ x.dcheck = t.dcheck
            /\ x.state = t.state /\ x.consumer = t.consumer /\ x.detached = t.detached
            /\ x.kept = t.kept /\ x.config = t.config /\ x.triggered = t.triggered
            /\ x.flushes = t.flushes /\ x.timers = t.timers
            /\ \A q \in Producer : q # p => x.inst[q] = t.inst[q]
        BY <3>5, <4>1, Zenon DEF SessionType
      <4>3. u = t \/ u = x
        BY <3>6, Zenon
      <4> HIDE DEF u, x
      <4> QED BY <3>5, <4>2, <4>3, Zenon
    <3> HIDE DEF u
    <3>8. /\ v \in SessionType /\ v.dcheck
          /\ v.state = s.state /\ v.consumer = s.consumer /\ v.detached = s.detached
          /\ v.kept = s.kept /\ v.config = s.config /\ v.triggered = s.triggered
          /\ v.flushes = s.flushes /\ v.timers = s.timers
          /\ v.inst[p] = NoInstance /\ \A q \in Producer : q # p => v.inst[q] = s.inst[q]
      BY <1>1, <2>3, <3>7
    <3> HIDE DEF v
    <3>9. InStep(v) /\ Instances(v) \subseteq Instances(s) /\ p \notin Instances(v)
      BY <1>1, <3>8 DEF InStep, Instances, NoInstance
    <3> QED
      BY <1>1, <2>4, <3>8, <3>9, Zenon
         DEF Consistent, Waits, Owned, Exists, Kin, KeepsEnd, Ends, Disables
  <2>5. CASE s.state \in {"DISABLING_WAITING_STOP_ACKS", "DISABLED"}
    <3>1. s.inst[p].state \in {"STOPPED", "STOPPING"}
      BY <1>1, <1>3, <2>5, Zenon DEF InStep, Allowed, Instances
    <3>2. t = s
      BY <3>1, Zenon
    <3>3. u = IF s.inst[p].state = "STOPPING"
              THEN NotifyDataSourceStopped(s, p, s.inst[p].id) ELSE s
      BY <3>2, Zenon
    <3> HIDE DEF u, t
    <3>4. Sound(u) /\ Kin(s, u) /\ KeepsEnd(s, u) /\ u.inst[p].state = "STOPPED"
          /\ u.state \in {"DISABLING_WAITING_STOP_ACKS", "DISABLED"}
      <4>1. CASE s.inst[p].state = "STOPPED"
        BY <2>5, <3>3, <4>1, Zenon DEF Kin, KeepsEnd
      <4>2. CASE s.inst[p].state = "STOPPING"
        BY <3>3, <4>2, NotifyStoppedSound, Zenon
      <4> QED BY <3>1, <4>1, <4>2, Zenon
    <3>5. u \in SessionType /\ u.dcheck /\ InStep(u) /\ Waits(u) /\ Owned(u)
          /\ IsFiniteSet(u.flushes)
      BY <3>4, Zenon DEF Sound, Consistent
    <3>6. /\ v \in SessionType /\ v.dcheck
          /\ v.state = u.state /\ v.consumer = u.consumer /\ v.detached = u.detached
          /\ v.kept = u.kept /\ v.flushes = u.flushes /\ v.timers = u.timers
          /\ v.inst[p] = NoInstance /\ \A q \in Producer : q # p => v.inst[q] = u.inst[q]
      BY <2>3, <3>5, Zenon
    <3> HIDE DEF v
    <3>7. InStep(v) /\ Instances(v) \subseteq Instances(u) /\ p \notin Instances(v)
      BY <3>5, <3>6 DEF InStep, Instances, NoInstance
    <3>8. Waits(v) /\ KeepsEnd(s, v)
      BY <3>4, <3>5, <3>6, Zenon DEF Waits, KeepsEnd, Ends
    <3>9. Consistent(v) /\ Kin(u, v)
      BY <3>5, <3>6, <3>7, <3>8, Zenon DEF Consistent, Owned, Exists, Kin
    <3> QED
      BY <3>4, <3>7, <3>8, <3>9, KinIsTransitive, Zenon
  <2>6. s.state \in {"CONFIGURED", "STARTED", "DISABLING_WAITING_STOP_ACKS", "DISABLED"}
    BY <1>1, <1>3, Zenon DEF InStep, Allowed, Instances
  <2> QED
    BY <2>4, <2>5, <2>6, Zenon
<1> QED
  BY <1>2, <1>3, Zenon

LEMMA RegisterSound ==
  ASSUME NEW s, Sound(s), NEW p \in Producer, NEW id \in Nat
  PROVE  LET t == RegisterDataSource(s, p, id)
         IN  /\ Sound(t) /\ KeepsEnd(s, t) /\ t.consumer = s.consumer
             /\ Instances(t) \subseteq Instances(s) \cup {p}
             /\ t.state = "none" <=> s.state = "none"
<1> DEFINE t == SetupDataSource(s, p, id)
           u == [t EXCEPT !.dcheck = @ /\ t.inst[p].state = "CONFIGURED",
                     !.inst[p] = Begun(@),
                     !.out[p] = Append(@, Call("StartDataSource", t.inst[p].id, {}))]
<1>1. /\ s \in SessionType /\ s.dcheck /\ InStep(s) /\ Owned(s) /\ Waits(s)
      /\ IsFiniteSet(s.flushes)
  BY Zenon DEF Sound, Consistent
<1>2. NewInstance(p, id) \in InstanceType /\ NewInstance(p, id).state = "CONFIGURED"
  BY DEF NewInstance, InstanceType, InstanceState
<1>3. Append(s.out[p], Call("SetupDataSource", id, {})) \in Seq(CallType)
  BY <1>1, AppendedCall, Zenon
<1>4. /\ t \in SessionType /\ t.dcheck
      /\ t.state = s.state /\ t.consumer = s.consumer /\ t.detached = s.detached
      /\ t.kept = s.kept /\ t.config = s.config /\ t.triggered = s.triggered
      /\ t.flushes = s.flushes /\ t.timers = s.timers
      /\ t.inst = [s.inst EXCEPT ![p] = NewInstance(p, id)]
  BY <1>1, <1>2, <1>3, Zenon DEF SetupDataSource, SessionType
<1>5. t.inst[p] = NewInstance(p, id) /\ \A q \in Producer : q # p => t.inst[q] = s.inst[q]
  BY <1>1, <1>4, Zenon DEF SessionType
<1> HIDE DEF t
<1>6. CASE s.state = "STARTED"
  <2>1. Append(t.out[p], Call("StartDataSource", t.inst[p].id, {})) \in Seq(CallType)
    BY <1>4, AppendedCall, InstanceFacts, Zenon
  <2>2. Begun(t.inst[p]) \in InstanceType /\ Begun(t.inst[p]).state \in {"STARTING", "STARTED"}
    BY <1>2, <1>5, BegunType, Zenon
  <2>3. /\ u \in SessionType /\ u.dcheck
        /\ u.state = t.state /\ u.consumer = t.consumer /\ u.detached = t.detached
        /\ u.kept = t.kept /\ u.config = t.config /\ u.triggered = t.triggered
        /\ u.flushes = t.flushes /\ u.timers = t.timers
        /\ u.inst = [t.inst EXCEPT ![p] = Begun(t.inst[p])]
    BY <1>2, <1>4, <1>5, <2>1, <2>2, Zenon DEF SessionType
  <2>4. u.inst[p] = Begun(t.inst[p]) /\ \A q \in Producer : q # p => u.inst[q] = s.inst[q]
    <3> HIDE DEF u
    <3>1. t.inst \in [Producer -> InstanceType]
      BY <1>4, Zenon DEF SessionType
    <3> QED BY <1>5, <2>3, <3>1, Zenon
  <2>5. RegisterDataSource(s, p, id) = MaybeNotifyAllDataSourcesStarted(u)
    BY <1>6, Zenon DEF RegisterDataSource, StartDataSourceInstance, t
  <2> HIDE DEF u
  <2>6. InStep(u) /\ Instances(u) \subseteq Instances(s) \cup {p}
    BY <1>1, <1>4, <1>6, <2>2, <2>3, <2>4, Zenon DEF InStep, Allowed, Instances
  <2>7. Consistent(u) /\ KeepsEnd(s, u)
    BY <1>1, <1>4, <1>6, <2>3, <2>6
       DEF Consistent, Waits, Owned, Exists, KeepsEnd, Ends, Disables
  <2>8. LET v == MaybeNotifyAllDataSourcesStarted(u)
        IN  Sound(v) /\ Kin(u, v) /\ KeepsEnd(u, v)
    BY <2>7, MaybeNotifySound, Zenon
  <2> QED
    BY <1>4, <2>3, <2>5, <2>6, <2>7, <2>8, KeepsEndIsTransitive, Zenon DEF Kin
<1>7. CASE s.state = "CONFIGURED"
  <2>1. RegisterDataSource(s, p, id) = t
    BY <1>7, Zenon DEF RegisterDataSource, t
  <2>2. InStep(t) /\ Instances(t) \subseteq Instances(s) \cup {p}
    BY <1>1, <1>2, <1>4, <1>5, <1>7 DEF InStep, Allowed, Instances
  <2> QED
    BY <1>1, <1>4, <1>7, <2>1, <2>2, Zenon
       DEF Sound, Consistent, Waits, Owned, Announced, Exists, KeepsEnd, Ends, Disables
<1>8. CASE s.state \notin {"STARTED", "CONFIGURED"}
  BY <1>8, Zenon DEF RegisterDataSource, KeepsEnd
<1> QED
  BY <1>6, <1>7, <1>8, Zenon

LEMMA RunCallbackSound ==
  ASSUME NEW s, Sound(s), NEW f \in Nat, NEW disable \in BOOLEAN, NEW success \in BOOLEAN
  PROVE  LET t == RunCallback(s, f, disable, success)
         IN  /\ Sound(t) /\ Kin(s, t)
             /\ ~disable => KeepsEnd(s, t)
             /\ disable => t.state \notin {"CONFIGURED", "STARTED"}
<1> DEFINE t == [s EXCEPT !.flushed = IF success THEN @ \cup {f} ELSE @]
           r == RunCallback(s, f, disable, success)
<1>1. s \in SessionType
  BY Zenon DEF Sound, Consistent
<1>2. /\ t \in SessionType /\ t.dcheck = s.dcheck /\ t.notified = s.notified
      /\ t.state = s.state /\ t.consumer = s.consumer /\ t.detached = s.detached
      /\ t.kept = s.kept /\ t.config = s.config /\ t.triggered = s.triggered
      /\ t.flushes = s.flushes /\ t.timers = s.timers /\ t.inst = s.inst
  BY <1>1, Zenon DEF SessionType
<1>3. r = IF ~Exists(s) THEN s
          ELSE IF ~disable THEN t
          ELSE IF s.consumer # NoConsumer THEN DisableTracing(t, FALSE)
          ELSE FreeBuffers(t)
  BY Zenon DEF RunCallback
<1> HIDE DEF t, r
<1>4. Sound(t) /\ Kin(s, t) /\ KeepsEnd(s, t)
  BY <1>2 DEF Sound, Consistent, InStep, Waits, Owned, Announced, Exists, Instances,
              AllDataSourceInstancesStarted, Kin, KeepsEnd, Ends, Disables
<1>5. CASE ~Exists(s)
  BY <1>3, <1>5, Zenon DEF Kin, KeepsEnd, Exists, r
<1>6. CASE Exists(s) /\ ~disable
  BY <1>3, <1>4, <1>6, Zenon DEF r
<1>7. CASE Exists(s) /\ disable /\ s.consumer # NoConsumer
  <2>1. r = DisableTracing(t, FALSE)
    BY <1>3, <1>7, Zenon
  <2>2. Sound(r) /\ Kin(t, r) /\ r.state \notin {"CONFIGURED", "STARTED"}
    BY <1>4, <2>1, DisableTracingSound, Zenon
  <2> QED
    BY <1>4, <1>7, <2>2, KinIsTransitive, Zenon DEF r
<1>8. CASE Exists(s) /\ disable /\ s.consumer = NoConsumer
  <2>1. r = FreeBuffers(t)
    BY <1>3, <1>8, Zenon
  <2>2. /\ Sound(r) /\ r.consumer = NoConsumer /\ Instances(r) = {} /\ ~Exists(r)
        /\ r.state = "none" <=> t.state = "none"
    BY <1>4, <2>1, FreeBuffersSound, Zenon
  <2> QED
    BY <1>2, <1>8, <2>2, Zenon DEF Kin, Exists, r
<1> QED
  BY <1>5, <1>6, <1>7, <1>8, Zenon

(* Flush either leaves a request that will disable tracing, if it is to,   *)
(* or has disabled it at once.                                             *)
LEMMA FlushSound ==
  ASSUME NEW s, Sound(s), NEW f \in Nat, NEW disable \in BOOLEAN,
         producers \in [Producer -> Nat]
  PROVE  LET t == Flush(s, f, disable)
         IN  /\ Sound(t) /\ Kin(s, t) /\ KeepsEnd(s, t)
             /\ disable => Disables(t) \/ t.state \notin {"CONFIGURED", "STARTED"}
<1> DEFINE x == [id |-> f, disable |-> disable,
                 producers |-> {producers[p] : p \in Instances(s)}]
           t == [s EXCEPT !.flushes = @ \cup {x},
                          !.out = [p \in Producer |->
                             IF p \in Instances(s)
                             THEN Append(@[p], Call("Flush", f, {s.inst[p].id})) ELSE @[p]]]
<1>1. s \in SessionType /\ IsFiniteSet(s.flushes)
  BY Zenon DEF Sound, Consistent
<1>2. CASE ~Flushes(s)
  <2> DEFINE r == RunCallback(s, 0, disable, FALSE)
  <2>1. /\ Sound(r) /\ Kin(s, r)
        /\ ~disable => KeepsEnd(s, r)
        /\ disable => r.state \notin {"CONFIGURED", "STARTED"}
    BY RunCallbackSound, Zenon
  <2>2. Flush(s, f, disable) = r
    BY <1>2, Zenon DEF Flush
  <2> HIDE DEF r
  <2>3. KeepsEnd(s, r)
    BY <2>1, Zenon DEF KeepsEnd, Ends
  <2> QED
    BY <2>1, <2>2, <2>3, Zenon
<1>3. CASE Flushes(s)
  <2>1. x \in FlushType
    <3>1. {producers[p] : p \in Instances(s)} \in SUBSET Nat
      BY Zenon DEF Instances
    <3> QED
      BY <3>1, Zenon DEF FlushType
  <2>2. [p \in Producer |-> IF p \in Instances(s)
           THEN Append(s.out[p], Call("Flush", f, {s.inst[p].id})) ELSE s.out[p]]
        \in [Producer -> Seq(CallType)]
    BY <1>1, AppendedCall, InstanceFacts, Zenon DEF SessionType
  <2>3. Flush(s, f, disable) = t
    BY <1>3, Zenon DEF Flush
  <2> HIDE DEF x
  <2>4. /\ t \in SessionType /\ t.dcheck = s.dcheck /\ t.notified = s.notified
        /\ t.state = s.state /\ t.consumer = s.consumer /\ t.detached = s.detached
        /\ t.kept = s.kept /\ t.config = s.config /\ t.triggered = s.triggered
        /\ t.flushes = s.flushes \cup {x} /\ t.timers = s.timers /\ t.inst = s.inst
    BY <1>1, <2>1, <2>2, Zenon DEF SessionType
  <2>5. IsFiniteSet(t.flushes)
    BY <1>1, <2>4, FS_AddElement
  <2>6. x.disable = disable
    BY Zenon DEF x
  <2> HIDE DEF t
  <2>7. Sound(t) /\ Kin(s, t) /\ KeepsEnd(s, t)
    BY <2>4, <2>5 DEF Sound, Consistent, InStep, Waits, Owned, Announced, Exists,
          Instances, AllDataSourceInstancesStarted, Kin, KeepsEnd, Ends, Disables
  <2>8. disable => Disables(t)
    BY <2>4, <2>6, Zenon DEF Disables
  <2> QED
    BY <2>3, <2>7, <2>8, Zenon
<1> QED
  BY <1>2, <1>3, Zenon

(* Timers that have fired.  The duration of a triggered session may pass,  *)
(* as its trigger has a timer of its own.                                  *)
LEMMA FiredSound ==
  ASSUME NEW s, Sound(s), NEW timer \in Timer,
         timer = "stop_acks" => s.state # "DISABLING_WAITING_STOP_ACKS",
         timer \in {"duration", "stop"} =>
           \/ Disables(s) \/ s.state \notin {"CONFIGURED", "STARTED"}
           \/ timer = "duration" /\ s.config.trigger = "STOP_TRACING" /\ s.triggered
  PROVE  LET t == [s EXCEPT !.timers = @ \ {timer}]
         IN  Sound(t) /\ Kin(s, t) /\ KeepsEnd(s, t)
<1> DEFINE t == [s EXCEPT !.timers = @ \ {timer}]
<1>1. s \in SessionType
  BY Zenon DEF Sound, Consistent
<1>2. /\ t \in SessionType /\ t.dcheck = s.dcheck /\ t.notified = s.notified
      /\ t.state = s.state /\ t.consumer = s.consumer /\ t.detached = s.detached
      /\ t.kept = s.kept /\ t.config = s.config /\ t.triggered = s.triggered
      /\ t.flushes = s.flushes /\ t.timers = s.timers \ {timer} /\ t.inst = s.inst
  BY <1>1, Zenon DEF SessionType
<1> HIDE DEF t
<1>3. Sound(t) /\ Kin(s, t)
  BY <1>2 DEF Sound, Consistent, InStep, Waits, Owned, Announced, Exists, Instances,
              AllDataSourceInstancesStarted, Kin
<1>4. KeepsEnd(s, t)
  BY <1>2, Zenon DEF KeepsEnd, Ends, Disables, Timer
<1> QED
  BY <1>3, <1>4, Zenon DEF t

LEMMA ActivateTriggerSound ==
  ASSUME NEW s, Sound(s)
  PROVE  LET t == ActivateTrigger(s)
         IN  Sound(t) /\ Kin(s, t) /\ KeepsEnd(s, t)
<1> DEFINE t == [s EXCEPT !.triggered = TRUE]
           u == [t EXCEPT !.config.timed = TRUE]
           v == [t EXCEPT !.timers = IF s.triggered THEN @ ELSE @ \cup {"stop"}]
           a == ActivateTrigger(s)
<1>1. s \in SessionType
  BY Zenon DEF Sound, Consistent
<1>2. /\ t \in SessionType /\ t.dcheck = s.dcheck /\ t.notified = s.notified
      /\ t.state = s.state /\ t.consumer = s.consumer /\ t.detached = s.detached
      /\ t.kept = s.kept /\ t.config = s.config /\ t.triggered = TRUE
      /\ t.flushes = s.flushes /\ t.timers = s.timers /\ t.inst = s.inst
  BY <1>1, Zenon DEF SessionType
<1>3. a = IF Exists(s) /\ s.config.trigger = "START_TRACING"
          THEN IF s.state = "CONFIGURED" THEN StartTracing(u) ELSE t
          ELSE IF Exists(s) /\ s.config.trigger = "STOP_TRACING" THEN v ELSE s
  BY DEF ActivateTrigger
<1> HIDE DEF a
<1>4. CASE Exists(s) /\ s.config.trigger = "START_TRACING" /\ s.state = "CONFIGURED"
  <2>1. s.config \in ConfigType
    BY <1>1, Zenon DEF SessionType
  <2>2. [s.config EXCEPT !.timed = TRUE] \in ConfigType
        /\ [s.config EXCEPT !.timed = TRUE].trigger = s.config.trigger
    BY <2>1, Zenon DEF ConfigType
  <2> HIDE DEF t
  <2>3. /\ u \in SessionType /\ u.dcheck = s.dcheck /\ u.notified = s.notified
        /\ u.state = s.state /\ u.consumer = s.consumer /\ u.detached = s.detached
        /\ u.kept = s.kept /\ u.config = [s.config EXCEPT !.timed = TRUE]
        /\ u.flushes = s.flushes /\ u.timers = s.timers /\ u.inst = s.inst
    BY <1>2, <2>2, Zenon DEF SessionType
  <2> HIDE DEF u
  <2>4. Sound(u) /\ Kin(s, u) /\ KeepsEnd(s, u)
    BY <1>4, <2>2, <2>3, Zenon DEF Sound, Consistent, InStep, Waits, Owned, Announced, Exists,
         Instances, AllDataSourceInstancesStarted, Kin, KeepsEnd, Ends, Disables
  <2> QED
    BY <1>3, <1>4, <2>4, StartTracingSound, KinIsTransitive, KeepsEndIsTransitive DEF a
<1>5. CASE Exists(s) /\ s.config.trigger = "START_TRACING" /\ s.state # "CONFIGURED"
  <2> HIDE DEF t
  <2>1. Sound(t) /\ Kin(s, t) /\ KeepsEnd(s, t)
    BY <1>2, <1>5 DEF Sound, Consistent, InStep, Waits, Owned, Announced, Exists,
         Instances, AllDataSourceInstancesStarted, Kin, KeepsEnd, Ends, Disables
  <2> QED
    BY <1>3, <1>5, <2>1, Zenon DEF a
<1>6. CASE Exists(s) /\ s.config.trigger = "STOP_TRACING"
  <2> HIDE DEF t
  <2>1. /\ v \in SessionType /\ v.dcheck = s.dcheck /\ v.notified = s.notified
        /\ v.state = s.state /\ v.consumer = s.consumer /\ v.detached = s.detached
        /\ v.kept = s.kept /\ v.config = s.config /\ v.triggered = TRUE
        /\ v.timers = IF s.triggered THEN s.timers ELSE s.timers \cup {"stop"}
        /\ v.flushes = s.flushes /\ v.inst = s.inst
    BY <1>2, Zenon DEF SessionType, Timer
  <2> HIDE DEF v
  <2>2. Sound(v) /\ Kin(s, v)
    BY <2>1 DEF Sound, Consistent, InStep, Waits, Owned, Announced, Exists,
         Instances, AllDataSourceInstancesStarted, Kin
  <2>3. KeepsEnd(s, v)
    BY <1>6, <2>1, Zenon DEF KeepsEnd, Ends, Disables
  <2> QED
    BY <1>3, <1>6, <2>2, <2>3, Zenon DEF a
<1>7. CASE ~Exists(s) \/ s.config.trigger \notin {"START_TRACING", "STOP_TRACING"}
  BY <1>3, <1>7, Zenon DEF Kin, KeepsEnd, a
<1> QED
  BY <1>4, <1>5, <1>6, <1>7, Zenon

(* A flush that is acknowledged moves to the posted tasks.                 *)
LEMMA FlushesLeftSound ==
  ASSUME NEW s, Sound(s), NEW id, NEW f
  PROVE  LET t == FlushesLeft(s, id, f)
         IN  /\ Sound(t) /\ Kin(s, t)
             /\ \A due \in BOOLEAN :
                  Ends(s, due) => Ends(t, due \/ \E x \in Completed(s, id, f) : x.disable)
<1> DEFINE rest == s.flushes \ Completed(s, id, f)
           left == {Acknowledge(x, id, f) : x \in rest}
           t == FlushesLeft(s, id, f)
<1>1. s \in SessionType /\ IsFiniteSet(s.flushes)
  BY Zenon DEF Sound, Consistent
<1>2. \A x \in FlushType : /\ Acknowledge(x, id, f) \in FlushType
                           /\ Acknowledge(x, id, f).disable = x.disable
  BY Zenon DEF FlushType, Acknowledge
<1>3. rest \subseteq s.flushes /\ s.flushes \subseteq FlushType
  BY <1>1, Zenon DEF SessionType
<1>4. IsFiniteSet(left)
  <2> DEFINE g == [x \in rest |-> Acknowledge(x, id, f)]
  <2>1. IsFiniteSet(rest)
    BY <1>1, FS_Difference, Zenon
  <2>2. g \in Surjection(rest, left)
    BY Zenon DEF Surjection
  <2> QED
    BY <2>1, <2>2, FS_Surjection
<1>5. left \subseteq FlushType
  BY <1>2, <1>3, Zenon
<1>6. t = [s EXCEPT !.flushes = left]
  BY Zenon DEF FlushesLeft
<1>7. (\E x \in s.flushes : x.disable) =>
        (\E x \in left : x.disable) \/ \E x \in Completed(s, id, f) : x.disable
  BY <1>2, <1>3, Zenon
<1> HIDE DEF t, left
<1>8. /\ t \in SessionType /\ t.dcheck = s.dcheck /\ t.notified = s.notified
      /\ t.state = s.state /\ t.consumer = s.consumer /\ t.detached = s.detached
      /\ t.kept = s.kept /\ t.config = s.config /\ t.triggered = s.triggered
      /\ t.flushes = left /\ t.timers = s.timers /\ t.inst = s.inst
  BY <1>1, <1>5, <1>6, Zenon DEF SessionType
<1>9. Sound(t) /\ Kin(s, t)
  BY <1>4, <1>8 DEF Sound, Consistent, InStep, Waits, Owned, Announced, Exists, Instances,
              AllDataSourceInstancesStarted, Kin
<1>10. Disables(s) => Disables(t) \/ \E x \in Completed(s, id, f) : x.disable
  BY <1>7, <1>8, Zenon DEF Disables
<1>11. ASSUME NEW due \in BOOLEAN, Ends(s, due)
       PROVE  Ends(t, due \/ \E x \in Completed(s, id, f) : x.disable)
  BY <1>8, <1>10, <1>11, Zenon DEF Ends
<1> QED
  BY <1>9, <1>11, Zenon DEF t
=============================================================================
