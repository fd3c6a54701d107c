------------------------ MODULE TracingServiceProofs ------------------------
(***************************************************************************)
(* What a step that keeps the inductive invariant of TracingService does;  *)
(* the timed tasks, the tasks that are posted, the calls of the consumers  *)
(* and those of the producers keep it.  It always holds, and with it the   *)
(* properties of the sessions, for any finite set of producers and any     *)
(* number of consumers, sessions and calls.                                *)
(***************************************************************************)
EXTENDS TracingServiceLemmas

LEMMA FlushTasksType ==
  ASSUME ServiceType, \A k \in Session : Sound(sessions[k]), NEW id, NEW f
  PROVE  FlushTasks(id, f) \subseteq TaskType /\ IsFiniteSet(FlushTasks(id, f))
<1> DEFINE Of(k) == {[session |-> k, id |-> x.id, disable |-> x.disable]
                       : x \in Completed(sessions[k], id, f)}
           of == [k \in Session |-> Of(k)]
           all == {Of(k) : k \in Session}
<1>1. ASSUME NEW k \in Session PROVE Of(k) \subseteq TaskType /\ IsFiniteSet(Of(k))
  <2> DEFINE done == Completed(sessions[k], id, f)
             g == [x \in done |-> [session |-> k, id |-> x.id, disable |-> x.disable]]
  <2>1. sessions[k] \in SessionType /\ IsFiniteSet(sessions[k].flushes)
    BY Zenon DEF Sound, Consistent
  <2>2. done \in SUBSET sessions[k].flushes /\ sessions[k].flushes \subseteq FlushType
    BY <2>1, Zenon DEF Completed, SessionType
  <2>3. IsFiniteSet(done)
    BY <2>1, <2>2, FS_Subset, Zenon
  <2> HIDE DEF done
  <2>4. g \in Surjection(done, Of(k))
    BY Zenon DEF Surjection, done
  <2>5. IsFiniteSet(Of(k))
    <3> HIDE DEF Of, g
    <3> QED BY <2>3, <2>4, FS_Surjection, Zenon
  <2>6. Of(k) \subseteq TaskType
    BY <2>2 DEF TaskType, FlushType, done
  <2> QED
    BY <2>5, <2>6, Zenon
<1>2. IsFiniteSet(Session)
  BY ServiceAssumption, FS_Interval DEF Session
<1> HIDE DEF Of
<1>3. of \in Surjection(Session, all)
  BY Zenon DEF Surjection
<1>4. IsFiniteSet(all)
  BY <1>2, <1>3, FS_Surjection, Zenon
<1>5. IsFiniteSet(UNION all)
  BY <1>1, <1>4, FS_UNION, Zenon
<1>6. FlushTasks(id, f) = UNION all
  BY Zenon DEF FlushTasks, Of
<1> QED
  BY <1>1, <1>5, <1>6, Zenon

LEMMA QueuedTasks ==
  ASSUME NEW S, S \subseteq TaskType, IsFiniteSet(S), NEW tasks \in Queued(S),
         NEW q \in Seq(TaskType)
  PROVE  /\ q \o tasks \in Seq(TaskType)
         /\ \A i \in DOMAIN q : i \in DOMAIN (q \o tasks) /\ (q \o tasks)[i] = q[i]
         /\ \A x \in S : \E i \in DOMAIN (q \o tasks) : (q \o tasks)[i] = x
<1>1. Cardinality(S) \in Nat
  BY FS_CardinalityType, Zenon
<1>2. tasks \in [1 .. Cardinality(S) -> S] /\ Range(tasks) = S
  BY Zenon DEF Queued
<1>3. tasks \in Seq(TaskType) /\ Len(tasks) = Cardinality(S)
  BY <1>1, <1>2
<1>4. \A x \in S : \E i \in 1 .. Cardinality(S) : tasks[i] = x
  BY <1>2, Zenon DEF Range
<1>5. ASSUME NEW x \in S PROVE \E i \in DOMAIN (q \o tasks) : (q \o tasks)[i] = x
  <2>1. PICK i \in 1 .. Cardinality(S) : tasks[i] = x
    BY <1>4, Zenon
  <2>2. /\ Len(q) + i \in DOMAIN (q \o tasks)
        /\ (q \o tasks)[Len(q) + i] = tasks[i]
    BY <1>1, <1>3, <2>1
  <2> QED
    BY <2>1, <2>2, Zenon
<1> QED
  BY <1>3, <1>5

(* Numbering the elements of a set as EnableTracing and Init do.           *)
LEMMA NumberType ==
  ASSUME NEW S \in SUBSET Producer
  PROVE  /\ Len(SetToSeq(S)) \in Nat
         /\ \A p \in S : (CHOOSE i \in DOMAIN SetToSeq(S) : SetToSeq(S)[i] = p)
                        \in Nat \ {0}
<1> DEFINE n == Cardinality(S)
           q == SetToSeq(S)
<1>1. IsFiniteSet(S)
  BY ServiceAssumption, FS_Subset, Zenon
<1>2. n \in Nat /\ ExistsBijection(1 .. n, S)
  BY <1>1, FS_CardinalityType, Zenon
<1>3. \E f \in [1 .. n -> S] : IsInjective(f)
  <2>1. PICK f : f \in Bijection(1 .. n, S)
    BY <1>2, Zenon DEF ExistsBijection
  <2>2. f \in [1 .. n -> S] /\ IsInjective(f)
    BY <2>1, Zenon DEF Bijection, Injection, IsInjective
  <2> QED
    BY <2>2, Zenon
<1>4. q \in [1 .. n -> S] /\ IsInjective(q)
  BY <1>3, Zenon DEF SetToSeq
<1> HIDE DEF q
<1>5. q \in Injection(1 .. n, S)
  BY <1>4, Zenon DEF Injection, IsInjective
<1>6. IsFiniteSet(1 .. n) /\ Cardinality(1 .. n) = n
  BY <1>2, FS_Interval
<1>7. q \in Surjection(1 .. n, S)
  BY <1>1, <1>5, <1>6, FS_Injection, Zenon
<1>8. \A p \in S : \E i \in DOMAIN q : q[i] = p
  BY <1>4, <1>7, Zenon DEF Surjection
<1>9. DOMAIN q = 1 .. n /\ Len(q) = n
  BY <1>2, <1>4
<1>10. \A p \in S : (CHOOSE i \in DOMAIN q : q[i] = p) \in Nat \ {0}
  BY <1>2, <1>8, <1>9
<1> QED
  BY <1>2, <1>9, <1>10, Zenon DEF q

(* The calls of the sessions go to the inboxes.                            *)
LEMMA SentSound ==
  ASSUME NEW s, Sound(s)
  PROVE  LET t == [s EXCEPT !.out = NoOut]
         IN  Sound(t) /\ Kin(s, t) /\ KeepsEnd(s, t) /\ t.state = s.state
<1> DEFINE t == [s EXCEPT !.out = NoOut]
<1>1. s \in SessionType
  BY Zenon DEF Sound, Consistent
<1>2. NoOut \in [Producer -> Seq(CallType)]
  BY DEF NoOut
<1>3. /\ t \in SessionType /\ t.dcheck = s.dcheck /\ t.notified = s.notified
      /\ t.state = s.state /\ t.consumer = s.consumer /\ t.detached = s.detached
      /\ t.kept = s.kept /\ t.config = s.config /\ t.triggered = s.triggered
      /\ t.flushes = s.flushes /\ t.timers = s.timers /\ t.inst = s.inst
  BY <1>1, <1>2, Zenon DEF SessionType
<1> HIDE DEF t
<1>4. Sound(t) /\ Kin(s, t) /\ KeepsEnd(s, t)
  BY <1>3 DEF Sound, Consistent, InStep, Waits, Owned, Announced, Exists, Instances,
              AllDataSourceInstancesStarted, Kin, KeepsEnd, Ends, Disables
<1> QED
  BY <1>3, <1>4, Zenon DEF t

Becomes(s, t) == Sound(t) /\ Kin(s, t) /\ KeepsEnd(s, t)

LEMMA PutSound ==
  ASSUME NEW ss, \A k \in Session : Sound(ss[k]), Put(ss)
  PROVE  /\ sessions' \in [Session -> SessionType]
         /\ \A k \in Session : Becomes(ss[k], sessions'[k])
<1>1. \A k \in Session : sessions'[k] = [ss[k] EXCEPT !.out = NoOut]
  BY Zenon DEF Put
<1>2. \A k \in Session : Becomes(ss[k], sessions'[k])
  BY <1>1, SentSound, Zenon DEF Becomes
<1>3. sessions' = [k \in Session |-> sessions'[k]]
  BY Zenon DEF Put
<1>4. \A k \in Session : sessions'[k] \in SessionType
  BY <1>2, Zenon DEF Becomes, Sound, Consistent
<1> QED
  BY <1>2, <1>3, <1>4, Zenon

(* The other sessions stay what they were.                                 *)
LEMMA PutOneSound ==
  ASSUME IInv, NEW k \in Session, NEW s, Sound(s), PutOne(k, s)
  PROVE  /\ sessions' \in [Session -> SessionType]
         /\ Becomes(s, sessions'[k])
         /\ \A j \in Session \ {k} : Becomes(sessions[j], sessions'[j])
<1> DEFINE ss == [sessions EXCEPT ![k] = s]
<1>1. ss[k] = s /\ \A j \in Session \ {k} : ss[j] = sessions[j]
  BY Zenon DEF IInv, ServiceType
<1>2. \A j \in Session : Sound(ss[j])
  BY <1>1, Zenon DEF IInv
<1>3. Put(ss)
  BY Zenon DEF PutOne
<1> HIDE DEF ss
<1> QED
  BY <1>1, <1>2, <1>3, PutSound, Zenon

(* A step that changes the sessions only as their methods do.              *)
LEMMA OrdinaryStep ==
  ASSUME IInv, sessions' \in [Session -> SessionType], posted' \in Seq(TaskType),
         \A k \in Session :
            /\ Sound(sessions'[k]) /\ Ends(sessions'[k], Due(k)')
            /\ sessions'[k].consumer = sessions[k].consumer
            /\ sessions'[k].state = "none" <=> sessions[k].state = "none"
            /\ Instances(sessions'[k]) \subseteq data_sources',
         UNCHANGED attached, producers' \in [Producer -> Nat], data_sources' \subseteq Producer,
         \A p \in data_sources' : producers'[p] # 0,
         last' \in LastType, last'.session = last.session
  PROVE  IInv'
<1>1. ServiceType'
  BY Zenon DEF IInv, ServiceType
<1>2. \A k \in Session : k > last'.session => sessions'[k].state = "none"
  BY Zenon DEF IInv
<1>3. ConsumersAgree'
  BY DEF IInv, ConsumersAgree
<1> QED
  BY <1>1, <1>2, <1>3, Zenon DEF IInv, Instances

LEMMA SessionsStep ==
  ASSUME IInv, sessions' \in [Session -> SessionType],
         \A k \in Session : Becomes(sessions[k], sessions'[k]),
         UNCHANGED <<attached, producers, data_sources, posted>>,
         last' \in LastType, last'.session = last.session
  PROVE  IInv'
<1>1. \A k \in Session : Due(k)' = Due(k) /\ Due(k) \in BOOLEAN
  BY Zenon DEF Due
<1>2. \A k \in Session : /\ Sound(sessions'[k]) /\ Ends(sessions'[k], Due(k)')
                         /\ Kin(sessions[k], sessions'[k])
  BY <1>1, Zenon DEF Becomes, KeepsEnd, IInv
<1>3. /\ posted' \in Seq(TaskType) /\ producers' \in [Producer -> Nat]
      /\ data_sources' \subseteq Producer /\ \A p \in data_sources' : producers'[p] # 0
  BY Zenon DEF IInv, ServiceType
<1>4. \A k \in Session : Instances(sessions'[k]) \subseteq data_sources'
  BY <1>2, Zenon DEF IInv, Kin
<1> QED
  BY <1>2, <1>3, <1>4, OrdinaryStep, Zenon DEF Kin

LEMMA OneSessionStep ==
  ASSUME IInv, NEW k \in Session, NEW s, Becomes(sessions[k], s), PutOne(k, s),
         UNCHANGED <<attached, producers, data_sources, posted>>,
         last' \in LastType, last'.session = last.session
  PROVE  IInv'
<1>1. Sound(s)
  BY Zenon DEF Becomes
<1>2. /\ sessions' \in [Session -> SessionType]
      /\ Becomes(s, sessions'[k])
      /\ \A j \in Session \ {k} : Becomes(sessions[j], sessions'[j])
  BY <1>1, PutOneSound, Zenon
<1>3. Becomes(sessions[k], sessions'[k])
  BY <1>2, KinIsTransitive, KeepsEndIsTransitive, Zenon DEF Becomes
<1> QED
  BY <1>2, <1>3, SessionsStep, Zenon

LEMMA CountedLast ==
  ASSUME IInv, NEW n \in Nat, Counted(n)
  PROVE  last' \in LastType /\ last'.session = last.session
<1>1. last \in LastType
  BY Zenon DEF IInv, ServiceType
<1>2. last.calls + 1 \in Nat /\ last.flush + n \in Nat
  BY <1>1 DEF LastType
<1>3. last' = [last EXCEPT !.calls = last.calls + 1, !.flush = last.flush + n]
  BY <1>1, Zenon DEF Counted, LastType
<1> QED
  BY <1>1, <1>2, <1>3, Zenon DEF LastType

LEMMA RequestKeeps ==
  ASSUME IInv, NEW k \in Session, Request(k)
  PROVE  IInv'
<1> DEFINE t == Flush(sessions[k], last.flush + 1, FALSE)
<1>1. last.flush + 1 \in Nat /\ producers \in [Producer -> Nat]
  BY DEF IInv, ServiceType, LastType
<1>2. Sound(sessions[k])
  BY Zenon DEF IInv
<1>3. Becomes(sessions[k], t)
  BY <1>1, <1>2, FlushSound, Zenon DEF Becomes
<1>4. Count(sessions[k]) \in Nat
  BY Zenon DEF Count
<1>5. last' \in LastType /\ last'.session = last.session
  BY <1>4, CountedLast, Zenon DEF Request
<1>6. PutOne(k, t) /\ UNCHANGED <<attached, producers, data_sources, posted>>
  BY Zenon DEF Request, Others
<1> HIDE DEF t
<1> QED
  BY <1>3, <1>5, <1>6, OneSessionStep, Zenon

(* The tasks that are delayed.                                             *)
LEMMA FireKeeps ==
  ASSUME IInv, NEW k \in Session, NEW timer \in Timer, NEW s,
         Becomes(sessions[k], s), Fire(k, timer, s),
         timer = "stop_acks" => s.state # "DISABLING_WAITING_STOP_ACKS",
         timer \in {"duration", "stop"} =>
           \/ Disables(s) \/ s.state \notin {"CONFIGURED", "STARTED"}
           \/ timer = "duration" /\ s.config.trigger = "STOP_TRACING" /\ s.triggered,
         last' \in LastType, last'.session = last.session
  PROVE  IInv'
<1> DEFINE t == [s EXCEPT !.timers = @ \ {timer}]
<1>1. Becomes(s, t)
  BY FiredSound, Zenon DEF Becomes
<1>2. PutOne(k, t) /\ UNCHANGED <<attached, producers, data_sources, posted>>
  BY Zenon DEF Fire, Others
<1> HIDE DEF t
<1>3. Becomes(sessions[k], t)
  BY <1>1, KinIsTransitive, KeepsEndIsTransitive, Zenon DEF Becomes
<1> QED
  BY <1>2, <1>3, OneSessionStep, Zenon

LEMMA FlushAndDisableKeeps ==
  ASSUME IInv, NEW k \in Session, NEW timer \in {"duration", "stop"},
         FlushAndDisableTracing(k, timer)
  PROVE  IInv'
<1> DEFINE t == Flush(sessions[k], last.flush + 1, TRUE)
<1>1. last.flush + 1 \in Nat /\ producers \in [Producer -> Nat] /\ last \in LastType
  BY DEF IInv, ServiceType, LastType
<1>2. /\ Becomes(sessions[k], t)
      /\ Disables(t) \/ t.state \notin {"CONFIGURED", "STARTED"}
  BY <1>1, FlushSound, Zenon DEF Becomes, IInv
<1>3. last' \in LastType /\ last'.session = last.session
  BY <1>1 DEF FlushAndDisableTracing, Count, LastType
<1>4. Fire(k, timer, t)
  BY Zenon DEF FlushAndDisableTracing
<1> HIDE DEF t
<1> QED
  BY <1>2, <1>3, <1>4, FireKeeps, Zenon DEF Timer

LEMMA TaskKeeps ==
  ASSUME IInv, NEW k \in Session, Task(k) \/ PeriodicFlushTask(k)
  PROVE  IInv'
<1> DEFINE s == sessions[k]
<1>1. Sound(s) /\ s \in SessionType /\ s.dcheck /\ InStep(s) /\ Waits(s) /\ Owned(s)
      /\ IsFiniteSet(s.flushes) /\ Becomes(s, s)
  BY Zenon DEF IInv, Sound, Consistent, Becomes, Kin, KeepsEnd
<1>2. last \in LastType
  BY Zenon DEF IInv, ServiceType
<1>3. CASE StopOnDurationMsExpiry(k)
  <2>1. CASE FlushAndDisableTracing(k, "duration")
    BY <2>1, FlushAndDisableKeeps, Zenon
  <2>2. CASE OverriddenByTrigger(s) /\ Fire(k, "duration", s) /\ UNCHANGED last
    BY <1>1, <1>2, <2>2, FireKeeps, Zenon DEF OverriddenByTrigger, Timer
  <2> QED
    BY <1>3, <2>1, <2>2, Zenon DEF StopOnDurationMsExpiry
<1>4. CASE StopTriggerExpiry(k)
  BY <1>4, FlushAndDisableKeeps, Zenon DEF StopTriggerExpiry
<1>5. CASE OnStartTriggersTimeout(k)
  <2> DEFINE t == IF s.state = "CONFIGURED" THEN DisableTracing(s, FALSE) ELSE s
  <2>1. Becomes(s, t)
    <3>1. LET d == DisableTracing(s, FALSE)
          IN  Sound(d) /\ Kin(s, d) /\ d.state \notin {"CONFIGURED", "STARTED"}
      BY <1>1, DisableTracingSound, Zenon
    <3>2. Becomes(s, DisableTracing(s, FALSE))
      BY <3>1, Zenon DEF Becomes, KeepsEnd, Ends
    <3> QED
      BY <1>1, <3>2, Zenon
  <2>2. Fire(k, "trigger", t) /\ UNCHANGED last
    BY <1>5, Zenon DEF OnStartTriggersTimeout
  <2> HIDE DEF t
  <2> QED
    BY <1>2, <2>1, <2>2, FireKeeps, Zenon DEF Timer
<1>6. CASE OnDisableTracingTimeout(k)
  <2> DEFINE w == [s EXCEPT !.dcheck = @ /\ ~AllDataSourceInstancesStopped(s)]
             t == IF s.state # "DISABLING_WAITING_STOP_ACKS" THEN s
                  ELSE DisableTracingNotifyConsumerAndFlushFile(w)
  <2>1. Becomes(s, t) /\ t.state # "DISABLING_WAITING_STOP_ACKS"
    <3>1. CASE s.state # "DISABLING_WAITING_STOP_ACKS"
      BY <1>1, <3>1, Zenon
    <3>2. CASE s.state = "DISABLING_WAITING_STOP_ACKS"
      <4> DEFINE d == DisableTracingNotifyConsumerAndFlushFile(s)
      <4>1. ~AllDataSourceInstancesStopped(s)
        BY <1>1, <3>2, Zenon DEF AllDataSourceInstancesStopped, Waits, Instances
      <4>2. w = s
        BY <1>1, <4>1, CheckedSame, Zenon
      <4>3. t = d
        BY <3>2, <4>2, Zenon
      <4>4. Exists(s) /\ s.state # "DISABLED"
        BY <3>2, Zenon DEF Exists
      <4>5. Sound(d) /\ Kin(s, d) /\ d.state = "DISABLED"
        BY <1>1, <4>4, DisabledSound, Zenon
      <4> HIDE DEF d, t
      <4> QED
        BY <4>3, <4>5, Zenon DEF Becomes, KeepsEnd, Ends
    <3> QED
      BY <3>1, <3>2, Zenon
  <2>2. Fire(k, "stop_acks", t) /\ UNCHANGED last
    BY <1>6, Zenon DEF OnDisableTracingTimeout
  <2> HIDE DEF t
  <2> QED
    BY <1>2, <2>1, <2>2, FireKeeps, Zenon DEF Timer
<1>7. CASE OnFlushTimeout(k)
  <2>1. PICK x \in s.flushes :
          /\ PutOne(k, CompleteFlush([s EXCEPT !.flushes = @ \ {x}],
                                      x.id, x.disable, x.producers = {}))
          /\ UNCHANGED <<attached, last, Others>>
    BY <1>7, Zenon DEF OnFlushTimeout
  <2> DEFINE t == [s EXCEPT !.flushes = @ \ {x}]
             r == RunCallback(t, x.id, x.disable, x.producers = {})
  <2>2. x \in FlushType
    BY <1>1, Zenon DEF SessionType
  <2>3. /\ t \in SessionType /\ t.dcheck = s.dcheck /\ t.notified = s.notified
        /\ t.state = s.state /\ t.consumer = s.consumer /\ t.detached = s.detached
        /\ t.kept = s.kept /\ t.config = s.config /\ t.triggered = s.triggered
        /\ t.flushes = s.flushes \ {x} /\ t.timers = s.timers /\ t.inst = s.inst
    BY <1>1, Zenon DEF SessionType
  <2>4. IsFiniteSet(t.flushes)
    BY <1>1, <2>3, FS_RemoveElement, Zenon
  <2> HIDE DEF t, s
  <2>5. Sound(t) /\ Kin(s, t)
    <3>1. /\ t.inst = s.inst /\ t.state = s.state /\ t.timers = s.timers
          /\ t.consumer = s.consumer /\ t.detached = s.detached /\ t.kept = s.kept
          /\ InStep(s) /\ Waits(s) /\ Owned(s)
      BY <1>1, <2>3, Zenon
    <3>2. Instances(t) = Instances(s) /\ InStep(t)
      BY <3>1, Zenon DEF InStep, Instances
    <3>3. Waits(t) /\ Owned(t)
      BY <3>1, Zenon DEF Waits, Owned, Exists
    <3>4. Announced(t)
      BY <1>1, <2>3, <3>2, Zenon DEF Sound, Announced, AllDataSourceInstancesStarted
    <3> QED
      BY <1>1, <2>3, <2>4, <3>2, <3>3, <3>4, Zenon DEF Sound, Consistent, Kin
  <2>6. ~x.disable => KeepsEnd(s, t)
    BY <2>3, Zenon DEF KeepsEnd, Ends, Disables
  <2>7. /\ Sound(r) /\ Kin(t, r)
        /\ ~x.disable => KeepsEnd(t, r)
        /\ x.disable => r.state \notin {"CONFIGURED", "STARTED"}
    BY <2>2, <2>5, RunCallbackSound, Zenon DEF FlushType
  <2>8. PutOne(k, r) /\ UNCHANGED <<attached, producers, data_sources, posted, last>>
    BY <2>1, Zenon DEF CompleteFlush, Others, t
  <2> HIDE DEF r
  <2>9. KeepsEnd(s, r)
    <3>1. CASE x.disable
      BY <2>7, <3>1, Zenon DEF KeepsEnd, Ends
    <3>2. CASE ~x.disable
      BY <2>6, <2>7, <3>2, KeepsEndIsTransitive, Zenon
    <3> QED
      BY <3>1, <3>2, Zenon
  <2>10. Becomes(s, r)
    BY <2>5, <2>7, <2>9, KinIsTransitive, Zenon DEF Becomes
  <2> QED
    BY <1>2, <2>8, <2>10, OneSessionStep, Zenon DEF s
<1>8. CASE PeriodicFlushTask(k)
  BY <1>8, RequestKeeps, Zenon DEF PeriodicFlushTask
<1> QED
  BY <1>3, <1>4, <1>5, <1>6, <1>7, <1>8, Zenon DEF Task

LEMMA RunPostedTaskKeeps ==
  ASSUME IInv, RunPostedTask
  PROVE  IInv'
<1> DEFINE task == Head(posted)
           k == task.session
           r == RunCallback(sessions[k], task.id, task.disable, TRUE)
<1>1. /\ posted \in Seq(TaskType) /\ posted # <<>> /\ posted' = Tail(posted)
      /\ UNCHANGED <<attached, producers, data_sources, last>>
  BY Zenon DEF RunPostedTask, IInv, ServiceType
<1>2. task \in TaskType /\ posted' \in Seq(TaskType) /\ task = posted[1]
  BY <1>1
<1>3. k \in Session /\ task.id \in Nat /\ task.disable \in BOOLEAN
  BY <1>2, Zenon DEF TaskType
<1>4. Sound(sessions[k]) /\ PutOne(k, r)
  BY <1>3, Zenon DEF IInv, RunPostedTask, CompleteFlush
<1>5. /\ Sound(r) /\ Kin(sessions[k], r)
      /\ ~task.disable => KeepsEnd(sessions[k], r)
      /\ task.disable => r.state \notin {"CONFIGURED", "STARTED"}
  BY <1>3, <1>4, RunCallbackSound, Zenon
<1> HIDE DEF r
<1>6. /\ sessions' \in [Session -> SessionType] /\ Becomes(r, sessions'[k])
      /\ \A j \in Session \ {k} : Becomes(sessions[j], sessions'[j])
  BY <1>3, <1>4, <1>5, PutOneSound, Zenon
<1>7. \A j \in Session : Sound(sessions'[j]) /\ Kin(sessions[j], sessions'[j])
  BY <1>5, <1>6, KinIsTransitive, Zenon DEF Becomes
<1>8. ASSUME NEW j \in Session, Due(j), j # k \/ ~task.disable PROVE Due(j)'
  <2>1. PICK i \in DOMAIN posted : posted[i].session = j /\ posted[i].disable
    BY <1>8, Zenon DEF Due
  <2>2. i # 1
    BY <1>2, <1>8, <2>1, Zenon
  <2>3. i - 1 \in DOMAIN posted' /\ posted'[i - 1] = posted[i]
    BY <1>1, <2>1, <2>2
  <2> QED
    BY <2>1, <2>3, Zenon DEF Due
<1>9. ASSUME NEW j \in Session PROVE Ends(sessions'[j], Due(j)')
  <2>1. Ends(sessions[j], Due(j)) /\ Due(j) \in BOOLEAN /\ Due(j)' \in BOOLEAN
    BY Zenon DEF IInv, Due
  <2>2. CASE j = k /\ task.disable
    BY <1>5, <1>6, <2>1, <2>2, Zenon DEF Becomes, KeepsEnd, Ends
  <2>3. CASE j # k \/ ~task.disable
    <3>1. Ends(sessions[j], Due(j)')
      BY <1>8, <2>1, <2>3, Zenon DEF Ends
    <3>2. KeepsEnd(sessions[j], sessions'[j])
      BY <1>5, <1>6, <2>3, KeepsEndIsTransitive, Zenon DEF Becomes
    <3> QED
      BY <2>1, <3>1, <3>2, Zenon DEF KeepsEnd
  <2> QED
    BY <2>2, <2>3, Zenon
<1>10. /\ producers' \in [Producer -> Nat] /\ data_sources' \subseteq Producer
       /\ last' \in LastType /\ \A p \in data_sources' : producers'[p] # 0
  BY <1>1, Zenon DEF IInv, ServiceType
<1>11. \A j \in Session : Instances(sessions'[j]) \subseteq data_sources'
  BY <1>1, <1>7, Zenon DEF IInv, Kin
<1> QED
  BY <1>1, <1>2, <1>6, <1>7, <1>9, <1>10, <1>11, OrdinaryStep, Zenon DEF Kin

LEMMA AckedKeeps ==
  ASSUME IInv, NEW p \in Producer, NEW r, Acked(p, r)
  PROVE  IInv'
<1> DEFINE id == producers[p]
           f == r.ack
<1>1. PICK tasks \in Queued(FlushTasks(id, f)) : posted' = posted \o tasks
  BY Zenon DEF Acked
<1>2. /\ \A k \in Session : sessions'[k] = FlushesLeft(sessions[k], id, f)
      /\ sessions' = [k \in Session |-> sessions'[k]]
      /\ UNCHANGED <<attached, producers, data_sources, last>>
  BY Zenon DEF Acked
<1>3. FlushTasks(id, f) \subseteq TaskType /\ IsFiniteSet(FlushTasks(id, f))
  BY FlushTasksType, Zenon DEF IInv
<1>4. posted \in Seq(TaskType)
  BY Zenon DEF IInv, ServiceType
<1> DEFINE q == posted \o tasks
           S == FlushTasks(id, f)
<1> HIDE DEF S
<1>5. /\ posted' = q /\ q \in Seq(TaskType)
      /\ \A i \in DOMAIN posted : i \in DOMAIN q /\ q[i] = posted[i]
      /\ \A x \in S : \E i \in DOMAIN q : q[i] = x
  <2>1. S \subseteq TaskType /\ IsFiniteSet(S) /\ tasks \in Queued(S)
    BY <1>1, <1>3, Zenon DEF S
  <2>2. /\ q \in Seq(TaskType)
        /\ \A i \in DOMAIN posted : i \in DOMAIN q /\ q[i] = posted[i]
        /\ \A x \in S : \E i \in DOMAIN q : q[i] = x
    BY <1>4, <2>1, QueuedTasks
  <2> QED
    BY <1>1, <2>2, Zenon
<1> HIDE DEF q
<1>6. \A k \in Session :
        /\ Sound(sessions'[k]) /\ Kin(sessions[k], sessions'[k])
        /\ \A due \in BOOLEAN : Ends(sessions[k], due) =>
             Ends(sessions'[k], due \/ \E x \in Completed(sessions[k], id, f) : x.disable)
  BY <1>2, FlushesLeftSound DEF IInv
<1>7. ASSUME NEW k \in Session PROVE Ends(sessions'[k], Due(k)')
  <2> DEFINE done == \E x \in Completed(sessions[k], id, f) : x.disable
  <2>1. Ends(sessions[k], Due(k)) /\ Due(k) \in BOOLEAN
    BY Zenon DEF IInv, Due
  <2>2. Ends(sessions'[k], Due(k) \/ done)
    BY <1>6, <2>1, Zenon
  <2>3. ASSUME Due(k) PROVE Due(k)'
    <3>1. PICK i \in DOMAIN posted : posted[i].session = k /\ posted[i].disable
      BY <2>3, Zenon DEF Due
    <3>2. i \in DOMAIN posted' /\ posted'[i] = posted[i]
      BY <1>5, Zenon
    <3> QED
      BY <3>1, <3>2, Zenon DEF Due
  <2>4. ASSUME done PROVE Due(k)'
    <3>1. PICK x \in Completed(sessions[k], id, f) : x.disable
      BY <2>4, Zenon
    <3>2. [session |-> k, id |-> x.id, disable |-> x.disable] \in S
      <4> DEFINE Of(j) == {[session |-> j, id |-> y.id, disable |-> y.disable]
                             : y \in Completed(sessions[j], id, f)}
      <4>1. [session |-> k, id |-> x.id, disable |-> x.disable] \in Of(k)
        BY <3>1, Zenon
      <4>2. S = UNION {Of(j) : j \in Session}
        BY Zenon DEF FlushTasks, S
      <4> HIDE DEF Of
      <4> QED
        BY <4>1, <4>2, Zenon
    <3>3. PICK i \in DOMAIN posted' :
            posted'[i] = [session |-> k, id |-> x.id, disable |-> x.disable]
      BY <1>5, <3>2, Zenon
    <3> QED
      BY <3>1, <3>3 DEF Due
  <2> HIDE DEF done
  <2> QED
    BY <2>2, <2>3, <2>4, Zenon DEF Ends
<1>8. sessions' \in [Session -> SessionType]
  BY <1>2, <1>6, Zenon DEF Sound, Consistent
<1>9. /\ producers' \in [Producer -> Nat] /\ data_sources' \subseteq Producer
      /\ last' \in LastType /\ \A d \in data_sources' : producers'[d] # 0
  BY <1>2, Zenon DEF IInv, ServiceType
<1>10. \A k \in Session : Instances(sessions'[k]) \subseteq data_sources'
  BY <1>2, <1>6, Zenon DEF IInv, Kin
<1> QED
  BY <1>2, <1>5, <1>6, <1>7, <1>8, <1>9, <1>10, OrdinaryStep, Zenon DEF Kin

(* A data source comes or goes.                                            *)
LEMMA DataSourcesStep ==
  ASSUME IInv, sessions' \in [Session -> SessionType], UNCHANGED <<attached, posted>>,
         \A k \in Session :
            /\ Sound(sessions'[k]) /\ KeepsEnd(sessions[k], sessions'[k])
            /\ sessions'[k].consumer = sessions[k].consumer
            /\ sessions'[k].state = "none" <=> sessions[k].state = "none"
            /\ Instances(sessions'[k]) \subseteq data_sources',
         producers' \in [Producer -> Nat], data_sources' \subseteq Producer,
         \A p \in data_sources' : producers'[p] # 0,
         last' \in LastType, last'.session = last.session
  PROVE  IInv'
<1>1. \A k \in Session : Due(k)' = Due(k) /\ Due(k) \in BOOLEAN
  BY Zenon DEF Due
<1>2. \A k \in Session : Ends(sessions'[k], Due(k)')
  BY <1>1, Zenon DEF KeepsEnd, IInv
<1>3. posted' \in Seq(TaskType)
  BY Zenon DEF IInv, ServiceType
<1> QED
  BY <1>2, <1>3, OrdinaryStep, Zenon

LEMMA RegisterKeeps ==
  ASSUME IInv, NEW p \in Producer, Register(p)
  PROVE  IInv'
<1> DEFINE n(k) == last.instance + Cardinality({j \in Matching : j <= k})
           ss == [k \in Session |-> RegisterDataSource(sessions[k], p, n(k))]
<1>1. last \in LastType
  BY Zenon DEF IInv, ServiceType
<1>2. IsFiniteSet(Session)
  BY ServiceAssumption, FS_Interval DEF Session
<1>3. /\ Cardinality(Matching) \in Nat
      /\ \A k \in Session : Cardinality({j \in Matching : j <= k}) \in Nat
  <2>1. \A S \in SUBSET Session : Cardinality(S) \in Nat
    BY <1>2, FS_Subset, FS_CardinalityType, Zenon
  <2>2. /\ Matching \in SUBSET Session
        /\ \A k \in Session : {j \in Matching : j <= k} \in SUBSET Session
    BY Zenon DEF Matching
  <2> QED
    BY <2>1, <2>2, Zenon
<1>4. \A k \in Session : n(k) \in Nat
  BY <1>1, <1>3 DEF LastType
<1>5. \A k \in Session :
        /\ Sound(ss[k]) /\ KeepsEnd(sessions[k], ss[k])
        /\ ss[k].consumer = sessions[k].consumer
        /\ Instances(ss[k]) \subseteq Instances(sessions[k]) \cup {p}
        /\ ss[k].state = "none" <=> sessions[k].state = "none"
  <2> SUFFICES ASSUME NEW k \in Session
               PROVE  /\ Sound(ss[k]) /\ KeepsEnd(sessions[k], ss[k])
                      /\ ss[k].consumer = sessions[k].consumer
                      /\ Instances(ss[k]) \subseteq Instances(sessions[k]) \cup {p}
                      /\ ss[k].state = "none" <=> sessions[k].state = "none"
    BY Zenon
  <2>1. Sound(sessions[k]) /\ n(k) \in Nat
    BY <1>4, Zenon DEF IInv
  <2> HIDE DEF n
  <2> QED
    BY <2>1, RegisterSound
<1>6. /\ Put(ss) /\ UNCHANGED <<attached, producers, posted>> /\ producers[p] # 0
      /\ data_sources' = data_sources \cup {p}
  BY Zenon DEF Register
<1> HIDE DEF ss
<1>7. /\ sessions' \in [Session -> SessionType]
      /\ \A k \in Session : Becomes(ss[k], sessions'[k])
  BY <1>5, <1>6, PutSound, Zenon
<1>8. \A k \in Session :
        /\ Sound(sessions'[k]) /\ KeepsEnd(sessions[k], sessions'[k])
        /\ sessions'[k].consumer = sessions[k].consumer
        /\ sessions'[k].state = "none" <=> sessions[k].state = "none"
        /\ Instances(sessions'[k]) \subseteq data_sources'
  BY <1>5, <1>6, <1>7, KeepsEndIsTransitive, Zenon DEF Becomes, Kin, IInv
<1>9. last' \in LastType /\ last'.session = last.session
  BY <1>1, <1>3 DEF Register, LastType
<1>10. /\ producers' \in [Producer -> Nat] /\ data_sources' \subseteq Producer
       /\ \A q \in data_sources' : producers'[q] # 0
  BY <1>6, Zenon DEF IInv, ServiceType
<1> QED
  BY <1>6, <1>7, <1>8, <1>9, <1>10, DataSourcesStep, Zenon

LEMMA UnregisterKeeps ==
  ASSUME IInv, NEW p \in Producer, Unregister(p) \/ DisconnectProducer(p)
  PROVE  IInv'
<1> DEFINE ss == [k \in Session |-> UnregisterDataSource(sessions[k], p)]
<1>1. /\ UNCHANGED <<attached, posted>> /\ data_sources' = data_sources \ {p}
      /\ Counted(0)
      /\ producers' = producers \/ producers' = [producers EXCEPT ![p] = 0]
  BY Zenon DEF Unregister, DisconnectProducer
<1>2. /\ \A k \in Session : sessions'[k] = [ss[k] EXCEPT !.out = NoOut]
      /\ sessions' = [k \in Session |-> sessions'[k]]
  BY Zenon DEF Unregister, DisconnectProducer, Put
<1>3. \A k \in Session : Becomes(sessions[k], ss[k]) /\ p \notin Instances(ss[k])
  BY UnregisterSound, Zenon DEF IInv, Becomes
<1> HIDE DEF ss
<1>4. \A k \in Session : Becomes(ss[k], sessions'[k])
  BY <1>2, <1>3, SentSound DEF Becomes
<1>5. \A k \in Session :
        /\ Sound(sessions'[k]) /\ KeepsEnd(sessions[k], sessions'[k])
        /\ sessions'[k].consumer = sessions[k].consumer
        /\ sessions'[k].state = "none" <=> sessions[k].state = "none"
        /\ Instances(sessions'[k]) \subseteq data_sources'
  BY <1>1, <1>3, <1>4, KeepsEndIsTransitive, Zenon DEF Becomes, Kin, IInv
<1>6. sessions' \in [Session -> SessionType]
  BY <1>2, <1>5, Zenon DEF Sound, Consistent
<1>7. last' \in LastType /\ last'.session = last.session
  BY <1>1, CountedLast, Zenon
<1>8. /\ producers' \in [Producer -> Nat] /\ data_sources' \subseteq Producer
      /\ \A q \in data_sources' : producers'[q] # 0
  BY <1>1 DEF IInv, ServiceType
<1> QED
  BY <1>1, <1>5, <1>6, <1>7, <1>8, DataSourcesStep, Zenon

(* A session gets a consumer or loses it.                                  *)
LEMMA OwnerStep ==
  ASSUME IInv, NEW k \in Session, NEW s, NEW c \in Consumer, NEW n \in 0 .. MaxSessions,
         Sound(s), Ends(s, Due(k)), PutOne(k, s), Instances(s) \subseteq data_sources,
         s.state = "none" \/ k <= last'.session,
         attached' = [attached EXCEPT ![c] = n],
         UNCHANGED <<producers, data_sources, posted>>,
         last' \in LastType, last'.session >= last.session,
         \/ /\ n = k /\ s.consumer = c
            /\ attached[c] = 0 /\ sessions[k].consumer = NoConsumer
         \/ n = 0 /\ s.consumer = NoConsumer /\ attached[c] = k
  PROVE  IInv'
<1>1. /\ sessions' \in [Session -> SessionType] /\ Becomes(s, sessions'[k])
      /\ \A j \in Session \ {k} : Becomes(sessions[j], sessions'[j])
  BY PutOneSound, Zenon
<1>2. \A j \in Session : Due(j)' = Due(j) /\ Due(j) \in BOOLEAN
  BY Zenon DEF Due
<1>3. \A j \in Session : Sound(sessions'[j]) /\ Ends(sessions'[j], Due(j)')
  BY <1>1, <1>2, Zenon DEF IInv, Becomes, KeepsEnd
<1>4. \A j \in Session : Instances(sessions'[j]) \subseteq data_sources'
  BY <1>1, Zenon DEF IInv, Becomes, Kin
<1>5. ServiceType'
  BY <1>1, Zenon DEF IInv, ServiceType
<1>6. \A j \in Session : j > last'.session => sessions'[j].state = "none"
  <2>1. last.session \in Int /\ last'.session \in Int /\ \A j \in Session : j \in Int
    BY DEF IInv, ServiceType, LastType, Session
  <2> QED
    BY <1>1, <2>1 DEF IInv, Becomes, Kin
<1>7. ConsumersAgree'
  <2> SUFFICES ASSUME NEW d \in Consumer, NEW j \in Session
               PROVE  attached'[d] = j <=> sessions'[j].consumer = d
    BY Zenon DEF ConsumersAgree
  <2>1. /\ attached'[d] = IF d = c THEN n ELSE attached[d]
        /\ sessions'[j].consumer = IF j = k THEN s.consumer ELSE sessions[j].consumer
    BY <1>1, Zenon DEF IInv, ServiceType, Becomes, Kin
  <2>2. /\ attached[d] = j <=> sessions[j].consumer = d
        /\ attached[c] = j <=> sessions[j].consumer = c
        /\ attached[d] = k <=> sessions[k].consumer = d
    BY Zenon DEF IInv, ConsumersAgree
  <2>3. j # 0 /\ k # 0 /\ NoConsumer # d /\ NoConsumer # c
    BY ServiceAssumption DEF Session
  <2> QED
    BY <2>1, <2>2, <2>3, Zenon
<1> QED
  BY <1>2, <1>3, <1>4, <1>5, <1>6, <1>7, Zenon DEF IInv, Instances

LEMMA EnableTracingKeeps ==
  ASSUME IInv, NEW c \in Consumer, NEW config \in Config, EnableTracing(c, config)
  PROVE  IInv'
<1> DEFINE k == last.session + 1
           order == SetToSeq(data_sources)
           id(p) == last.instance + CHOOSE i \in DOMAIN order : order[i] = p
           cfg == [config EXCEPT !.timed = @ \/ config.trigger = "STOP_TRACING"]
           timers == IF config.trigger = "START_TRACING" THEN {"trigger"} ELSE {}
           inst == [p \in Producer |-> IF p \in data_sources
                      THEN NewInstance(p, id(p)) ELSE NoInstance]
           out == [p \in Producer |-> IF p \in data_sources
                     THEN <<Call("SetupDataSource", id(p), {})>> ELSE <<>>]
           new == [NoSession EXCEPT !.state = "CONFIGURED", !.consumer = c, !.config = cfg,
                                    !.timers = timers, !.inst = inst, !.out = out]
           s == IF config.deferred_start \/ config.trigger = "START_TRACING"
                THEN new ELSE StartTracing(new)
<1>1. last \in LastType /\ data_sources \in SUBSET Producer /\ config \in ConfigType
  BY ServiceAssumption, Zenon DEF IInv, ServiceType
<1>2. Len(order) \in Nat /\ \A p \in data_sources : id(p) \in Nat
  BY <1>1, NumberType DEF LastType
<1>3. /\ attached[c] = 0 /\ k <= MaxSessions
      /\ attached' = [attached EXCEPT ![c] = k]
      /\ last' = [last EXCEPT !.session = k, !.instance = @ + Len(order)]
      /\ PutOne(k, s) /\ UNCHANGED <<producers, data_sources, posted>>
  BY Zenon DEF EnableTracing
<1> HIDE DEF id, order, s
<1>4. k \in Session /\ k \in 0 .. MaxSessions /\ k > last.session /\ k \in Nat
  BY <1>1, <1>3, ServiceAssumption DEF LastType, Session
<1>5. inst \in [Producer -> InstanceType] /\ out \in [Producer -> Seq(CallType)]
  <2>1. /\ \A p \in data_sources : NewInstance(p, id(p)) \in InstanceType
        /\ NoInstance \in InstanceType
    BY <1>2 DEF NewInstance, NoInstance, InstanceType, InstanceState
  <2>2. \A p \in data_sources : Call("SetupDataSource", id(p), {}) \in CallType
    BY <1>2, Zenon DEF Call, CallType
  <2> QED
    BY <2>1, <2>2
<1>6. \A p \in Producer : inst[p].state = IF p \in data_sources THEN "CONFIGURED" ELSE "none"
  BY Zenon DEF NewInstance, NoInstance
<1>7. cfg \in ConfigType /\ timers \in SUBSET Timer
  BY <1>1, Zenon DEF ConfigType, Timer
<1> HIDE DEF inst, out, cfg, timers
<1>8. /\ new \in SessionType /\ new.dcheck /\ new.state = "CONFIGURED" /\ new.consumer = c
      /\ ~new.detached /\ ~new.triggered /\ new.inst = inst /\ new.flushes = {}
  BY <1>5, <1>7, Zenon DEF NoSession, SessionType, SessionState
<1> HIDE DEF new
<1>9. Sound(new) /\ Instances(new) = data_sources
  BY <1>1, <1>6, <1>8, FS_EmptySet, ServiceAssumption, Zenon DEF Sound, Consistent, InStep,
     Allowed, Waits, Owned, Announced, Exists, Instances
<1>10. \A due \in BOOLEAN : Ends(new, due)
  BY <1>8, Zenon DEF Ends
<1>11. Becomes(new, StartTracing(new)) /\ Becomes(new, new)
  BY <1>9, StartTracingSound, Zenon DEF Becomes, Kin, KeepsEnd
<1>12. Becomes(new, s)
  BY <1>11, Zenon DEF s
<1>13. Sound(s) /\ Ends(s, Due(k)) /\ Instances(s) \subseteq data_sources /\ s.consumer = c
  <2>1. Due(k) \in BOOLEAN
    BY Zenon DEF Due
  <2> QED
    BY <1>8, <1>9, <1>10, <1>12, <2>1, Zenon DEF Becomes, Kin, KeepsEnd
<1>14. sessions[k].consumer = NoConsumer
  BY <1>1, <1>4, Zenon DEF IInv, Sound, Consistent, Owned, Exists, LastType
<1>15. last' \in LastType /\ last'.session = k
  <2> DEFINE m == last.instance + Len(order)
  <2>1. m \in Nat
    BY <1>1, <1>2 DEF LastType
  <2>2. last' = [last EXCEPT !.session = k, !.instance = m]
    BY <1>1, <1>3, Zenon DEF LastType
  <2> HIDE DEF m, k
  <2> QED
    BY <1>1, <1>4, <2>1, <2>2, Zenon DEF LastType
<1> HIDE DEF k
<1>16. k <= last'.session /\ last'.session >= last.session
  BY <1>1, <1>4, <1>15 DEF LastType
<1> QED
  BY <1>3, <1>4, <1>13, <1>14, <1>15, <1>16, OwnerStep, Zenon

LEMMA ConsumerStepKeeps ==
  ASSUME IInv, NEW c \in Consumer, ConsumerStep(c)
  PROVE  IInv'
<1> DEFINE k == attached[c]
           s == sessions[k]
<1>1. last \in LastType /\ (k # 0 => k \in Session)
  BY DEF IInv, ServiceType, Session
<1>2. k # 0 => /\ Sound(s) /\ s.consumer = c /\ Exists(s)
               /\ Instances(s) \subseteq data_sources /\ Ends(s, Due(k))
  <2> SUFFICES ASSUME k \in Session
               PROVE  /\ Sound(s) /\ s.consumer = c /\ Exists(s)
                      /\ Instances(s) \subseteq data_sources /\ Ends(s, Due(k))
    BY <1>1, Zenon
  <2>1. /\ Sound(s) /\ Ends(s, Due(k)) /\ Instances(s) \subseteq data_sources
        /\ s.consumer = c
    BY Zenon DEF IInv, ConsumersAgree
  <2>2. Exists(s)
    BY <2>1, ServiceAssumption, Zenon DEF Sound, Consistent, Owned
  <2> QED
    BY <2>1, <2>2, Zenon
<1>0. /\ 0 \in 0 .. MaxSessions /\ last.session >= last.session
      /\ \A j \in Session : sessions[j].state # "none" => j <= last.session
  <2>1. last.session \in Int /\ \A j \in Session : j \in Int
    BY <1>1 DEF Session, LastType
  <2> QED
    BY <2>1, ServiceAssumption DEF IInv
<1>3. ASSUME NEW config \in Config, EnableTracing(c, config) PROVE IInv'
  BY <1>3, EnableTracingKeeps, Zenon
<1>4. CASE ConsumerStartTracing(c)
  <2>1. Becomes(s, StartTracing(s))
    BY <1>2, <1>4, StartTracingSound, Zenon DEF ConsumerStartTracing, Becomes
  <2> QED
    BY <1>1, <1>4, <2>1, OneSessionStep, Zenon DEF ConsumerStartTracing, Others, Mine
<1>5. CASE ConsumerDisableTracing(c)
  <2> DEFINE d == DisableTracing(s, FALSE)
  <2>1. Sound(d) /\ Kin(s, d) /\ d.state \notin {"CONFIGURED", "STARTED"}
    BY <1>2, <1>5, DisableTracingSound, Zenon DEF ConsumerDisableTracing
  <2>2. PutOne(k, d) /\ UNCHANGED <<attached, producers, data_sources, posted, last>> /\ k # 0
    BY <1>5, Zenon DEF ConsumerDisableTracing, Others, Mine
  <2> HIDE DEF d
  <2>3. Becomes(s, d)
    BY <2>1, Zenon DEF Becomes, KeepsEnd, Ends
  <2> QED
    BY <1>1, <2>2, <2>3, OneSessionStep, Zenon
<1>6. CASE ConsumerFlush(c)
  BY <1>1, <1>6, RequestKeeps, Zenon DEF ConsumerFlush
<1>7. CASE ObserveEvents(c)
  <2>1. Becomes(s, MaybeNotifyAllDataSourcesStarted(s))
    BY <1>2, <1>7, MaybeNotifySound, Zenon DEF ObserveEvents, Becomes, Sound
  <2> QED
    BY <1>1, <1>7, <2>1, OneSessionStep, Zenon DEF ObserveEvents, Others, Mine
<1>8. CASE ConsumerFreeBuffers(c)
  <2> DEFINE t == FreeBuffers(s)
  <2>1. /\ k \in Session /\ PutOne(k, t) /\ attached' = [attached EXCEPT ![c] = 0]
        /\ UNCHANGED <<producers, data_sources, posted, last>>
    BY <1>1, <1>8, Zenon DEF ConsumerFreeBuffers, Others, Mine
  <2>2. /\ Sound(t) /\ t.consumer = NoConsumer /\ Instances(t) = {} /\ ~Exists(t)
    <3>1. Sound(s)
      BY <2>1, Zenon DEF IInv
    <3> QED
      BY <3>1, FreeBuffersSound, Zenon
  <2> HIDE DEF t
  <2>3. Ends(t, Due(k))
    BY <2>2, Zenon DEF Ends, Exists
  <2>4. s.state # "none" /\ k # 0
    BY <1>2, <2>1 DEF Exists, Session
  <2>5. last' \in LastType /\ last'.session >= last.session /\ k <= last'.session
    BY <1>0, <1>1, <2>1, <2>4, Zenon
  <2> QED
    BY <1>0, <2>1, <2>2, <2>3, <2>5, OwnerStep, Zenon
<1>9. CASE DetachConsumer(c)
  <2> DEFINE t == [s EXCEPT !.consumer = NoConsumer, !.detached = TRUE, !.kept = FALSE]
  <2>1. /\ k \in Session /\ PutOne(k, t) /\ attached' = [attached EXCEPT ![c] = 0]
        /\ UNCHANGED <<producers, data_sources, posted>> /\ Counted(0)
    BY <1>1, <1>9, Zenon DEF DetachConsumer, Others, Mine
  <2>2. /\ s \in SessionType /\ s.dcheck /\ InStep(s) /\ Waits(s) /\ Owned(s)
        /\ IsFiniteSet(s.flushes) /\ Exists(s) /\ s.state # "none"
        /\ Instances(s) \subseteq data_sources /\ Ends(s, Due(k))
    <3>1. k # 0
      BY <2>1 DEF Session
    <3> QED
      BY <1>2, <3>1, Zenon DEF Sound, Consistent, Exists
  <2>3. /\ t \in SessionType /\ t.dcheck = s.dcheck /\ t.notified = s.notified
        /\ t.state = s.state /\ t.consumer = NoConsumer /\ t.detached /\ ~t.kept
        /\ t.config = s.config /\ t.triggered = s.triggered
        /\ t.flushes = s.flushes /\ t.timers = s.timers /\ t.inst = s.inst
    BY <2>2, Zenon DEF SessionType
  <2> HIDE DEF t
  <2>4. Sound(t) /\ Ends(t, Due(k)) /\ Instances(t) \subseteq data_sources
    BY <2>2, <2>3, Zenon DEF Sound, Consistent, InStep, Waits, Owned, Announced, Exists,
          Instances, Ends, Disables
  <2>5. last' \in LastType /\ last'.session = last.session
    BY <2>1, CountedLast, Zenon
  <2>6. last'.session >= last.session /\ k <= last'.session
    BY <1>0, <2>1, <2>2, <2>5, Zenon
  <2> QED
    BY <1>0, <2>1, <2>3, <2>4, <2>5, <2>6, OwnerStep, Zenon
<1>10. ASSUME NEW j \in Session, AttachConsumer(c, j) PROVE IInv'
  <2> DEFINE d == sessions[j]
             t == [d EXCEPT !.consumer = c, !.detached = FALSE]
  <2>1. /\ attached[c] = 0 /\ d.detached /\ PutOne(j, t)
        /\ attached' = [attached EXCEPT ![c] = j]
        /\ UNCHANGED <<producers, data_sources, posted, last>>
    BY <1>10, Zenon DEF AttachConsumer, Others
  <2>2. /\ d \in SessionType /\ d.dcheck /\ InStep(d) /\ Waits(d) /\ Owned(d)
        /\ IsFiniteSet(d.flushes) /\ Ends(d, Due(j)) /\ Instances(d) \subseteq data_sources
    BY Zenon DEF IInv, Sound, Consistent
  <2>3. d.consumer = NoConsumer /\ Exists(d) /\ ~d.kept
    BY <2>1, <2>2, Zenon DEF Owned
  <2>4. /\ t \in SessionType /\ t.dcheck = d.dcheck /\ t.notified = d.notified
        /\ t.state = d.state /\ t.consumer = c /\ ~t.detached /\ t.kept = d.kept
        /\ t.config = d.config /\ t.triggered = d.triggered
        /\ t.flushes = d.flushes /\ t.timers = d.timers /\ t.inst = d.inst
    BY <2>2, Zenon DEF SessionType
  <2> HIDE DEF t
  <2>5. Sound(t) /\ Ends(t, Due(j)) /\ Instances(t) \subseteq data_sources
    BY <2>2, <2>3, <2>4, ServiceAssumption, Zenon DEF Sound, Consistent, InStep, Waits, Owned,
          Announced, Exists, Instances, Ends, Disables
  <2>6. /\ j \in 0 .. MaxSessions /\ last' \in LastType /\ last'.session >= last.session
        /\ j <= last'.session
    <3>1. d.state # "none" /\ last' = last
      BY <2>1, <2>3, Zenon DEF Exists
    <3>2. j \in 0 .. MaxSessions
      BY ServiceAssumption DEF Session
    <3> QED
      BY <1>0, <1>1, <3>1, <3>2, Zenon
  <2> QED
    BY <2>1, <2>3, <2>4, <2>5, <2>6, OwnerStep, Zenon
<1> QED
  BY <1>3, <1>4, <1>5, <1>6, <1>7, <1>8, <1>9, <1>10, Zenon DEF ConsumerStep

LEMMA ProducerStepKeeps ==
  ASSUME IInv, NEW p \in Producer, ProducerStep(p)
  PROVE  IInv'
<1>1. /\ last \in LastType /\ sessions \in [Session -> SessionType]
      /\ \A k \in Session : Sound(sessions[k]) /\ Becomes(sessions[k], sessions[k])
  BY Zenon DEF IInv, ServiceType, Becomes, Kin, KeepsEnd
<1>2. CASE ConnectProducer(p)
  <2>1. last.producer + 1 \in Nat
    BY <1>1 DEF LastType
  <2>2. last' \in LastType /\ last'.session = last.session
    BY <1>1, <1>2, <2>1, Zenon DEF ConnectProducer, LastType
  <2>3. /\ UNCHANGED <<sessions, attached, data_sources, posted>>
        /\ producers' = [producers EXCEPT ![p] = last.producer + 1]
    BY <1>2, Zenon DEF ConnectProducer
  <2>4. /\ producers' \in [Producer -> Nat] /\ data_sources' \subseteq Producer
        /\ \A q \in data_sources' : producers'[q] # 0
    BY <1>1, <2>1, <2>3 DEF IInv, ServiceType, LastType
  <2>5. \A k \in Session : Instances(sessions[k]) \subseteq data_sources
    BY Zenon DEF IInv
  <2> QED
    BY <1>1, <2>2, <2>3, <2>4, <2>5, DataSourcesStep, Zenon DEF Becomes
<1>3. CASE DisconnectProducer(p) \/ Unregister(p)
  BY <1>3, UnregisterKeeps, Zenon
<1>4. CASE Register(p)
  BY <1>4, RegisterKeeps, Zenon
<1>5. CASE ActivateTriggers(p)
  <2> DEFINE ss == [k \in Session |-> ActivateTrigger(sessions[k])]
  <2>1. Put(ss) /\ UNCHANGED <<attached, producers, data_sources, posted, last>>
    BY <1>5, Zenon DEF ActivateTriggers, Others
  <2>2. \A k \in Session : Becomes(sessions[k], ss[k])
    BY <1>1, ActivateTriggerSound, Zenon DEF Becomes
  <2> HIDE DEF ss
  <2>3. /\ sessions' \in [Session -> SessionType]
        /\ \A k \in Session : Becomes(ss[k], sessions'[k])
    BY <2>1, <2>2, PutSound, Zenon DEF Becomes
  <2>4. \A k \in Session : Becomes(sessions[k], sessions'[k])
    BY <2>2, <2>3, KinIsTransitive, KeepsEndIsTransitive, Zenon DEF Becomes
  <2> QED
    BY <1>1, <2>1, <2>3, <2>4, SessionsStep, Zenon
<1>6. CASE ProducerSetup(p) \/ ProducerStop(p)
  BY <1>1, <1>6, SessionsStep, Zenon DEF ProducerSetup, ProducerStop
<1>7. CASE ProducerStart(p)
  <2>1. /\ UNCHANGED <<attached, producers, data_sources, posted, last>>
        /\ sessions' = [k \in Session |->
                          NotifyDataSourceStarted(sessions[k], p, Head(inbox[p]).id)]
    BY <1>7, Zenon DEF ProducerStart, Others
  <2>2. \A k \in Session : Becomes(sessions[k], sessions'[k])
    BY <1>1, <2>1, NotifyStartedSound, Zenon DEF Becomes
  <2>3. sessions' \in [Session -> SessionType]
    BY <2>1, <2>2, Zenon DEF Becomes, Sound, Consistent
  <2> QED
    BY <1>1, <2>1, <2>2, <2>3, SessionsStep, Zenon
<1>8. CASE ProducerFlush(p) \/ FlushDataSource_AsyncEnd(p)
  BY <1>8, AckedKeeps, Zenon DEF ProducerFlush, FlushDataSource_AsyncEnd
<1>9. CASE StopEnd(p)
  <2>1. PICK d \in mux[p].ds :
          sessions' = [k \in Session |->
             IF d.notify /\ d.connection = producers[p]
             THEN NotifyDataSourceStopped(sessions[k], p, d.id) ELSE sessions[k]]
    BY <1>9, Zenon DEF StopEnd
  <2>2. UNCHANGED <<attached, producers, data_sources, last, posted>>
    BY <1>9, Zenon DEF StopEnd
  <2>3. \A k \in Session : Becomes(sessions[k], NotifyDataSourceStopped(sessions[k], p, d.id))
    BY <1>1, NotifyStoppedSound, Zenon DEF Becomes
  <2>4. \A k \in Session : Becomes(sessions[k], sessions'[k])
    BY <1>1, <2>1, <2>3, Zenon
  <2>5. sessions' \in [Session -> SessionType]
    BY <2>1, <2>4, Zenon DEF Becomes, Sound, Consistent
  <2> QED
    BY <1>1, <2>2, <2>4, <2>5, SessionsStep, Zenon
<1> QED
  BY <1>2, <1>3, <1>4, <1>5, <1>6, <1>7, <1>8, <1>9, Zenon DEF ProducerStep

LEMMA InitKeeps ==
  ASSUME Init
  PROVE  IInv
<1>1. NoSession \in SessionType
  BY DEF NoSession, SessionType, NoConfig, ConfigType, NoInstance, InstanceType, NoOut,
         InstanceState, SessionState
<1>2. Sound(NoSession) /\ Instances(NoSession) = {} /\ NoSession.consumer = NoConsumer
      /\ NoSession.state = "none" /\ \A due \in BOOLEAN : Ends(NoSession, due)
  <2>1. /\ NoSession.dcheck /\ NoSession.state = "none" /\ NoSession.flushes = {}
        /\ NoSession.consumer = NoConsumer /\ ~NoSession.detached
        /\ \A p \in Producer : NoSession.inst[p].state = "none"
    BY Zenon DEF NoSession, NoInstance
  <2> QED
    BY <1>1, <2>1, FS_EmptySet, Zenon DEF Sound, Consistent, InStep, Waits, Owned, Announced,
       Exists, Instances, Ends
<1>3. /\ sessions = [k \in Session |-> NoSession] /\ attached = [c \in Consumer |-> 0]
      /\ data_sources = Producer /\ posted = <<>>
      /\ last = [session |-> 0, producer |-> Cardinality(Producer), instance |-> 0,
                 flush |-> 0, calls |-> 0]
      /\ producers = [p \in Producer |-> CHOOSE i \in DOMAIN SetToSeq(Producer) :
                                           SetToSeq(Producer)[i] = p]
  BY Zenon DEF Init
<1>4. producers \in [Producer -> Nat] /\ \A p \in Producer : producers[p] # 0
  BY <1>3, NumberType, Zenon
<1>5. last \in LastType
  BY <1>3, ServiceAssumption, FS_CardinalityType, Zenon DEF LastType
<1>6. \A k \in Session : Due(k) \in BOOLEAN
  BY Zenon DEF Due
<1>7. ServiceType
  BY <1>1, <1>3, <1>4, <1>5, ServiceAssumption DEF ServiceType
<1>8. ConsumersAgree
  BY <1>2, <1>3, ServiceAssumption DEF ConsumersAgree, Session
<1> QED
  BY <1>2, <1>3, <1>4, <1>6, <1>7, <1>8, Zenon DEF IInv

(* Every call and every task of the service, in any order, with any number *)
(* of sessions, producers and consumers, keeps the invariant.              *)
THEOREM ServiceIsSound == Spec => []IInv
<1>1. IInv /\ [Next]_vars => IInv'
  <2> SUFFICES ASSUME IInv, [Next]_vars PROVE IInv'
    BY Zenon
  <2>1. ASSUME NEW p \in Producer, ProducerStep(p) PROVE IInv'
    BY <2>1, ProducerStepKeeps, Zenon
  <2>2. ASSUME NEW c \in Consumer, ConsumerStep(c) PROVE IInv'
    BY <2>2, ConsumerStepKeeps, Zenon
  <2>3. ASSUME NEW k \in Session, Task(k) \/ PeriodicFlushTask(k) PROVE IInv'
    BY <2>3, TaskKeeps, Zenon
  <2>4. CASE RunPostedTask
    BY <2>4, RunPostedTaskKeeps, Zenon
  <2>5. CASE UNCHANGED vars
    <3>1. /\ UNCHANGED <<sessions, attached, producers, data_sources, posted, last>>
          /\ last \in LastType /\ sessions \in [Session -> SessionType]
          /\ \A k \in Session : Becomes(sessions[k], sessions[k])
      BY <2>5, Zenon DEF vars, IInv, ServiceType, Becomes, Kin, KeepsEnd
    <3> QED
      BY <3>1, SessionsStep, Zenon
  <2> QED
    BY <2>1, <2>2, <2>3, <2>4, <2>5, Zenon DEF Next
<1> QED
  BY <1>1, InitKeeps, PTL DEF Spec

(* No DCHECK of DisableTracing, StartDataSourceInstance,                   *)
(* OnDisableTracingTimeout, DisableTracingNotifyConsumerAndFlushFile or    *)
(* FreeBuffers ever fails.                                                 *)
THEOREM ServiceDchecksHold == Spec => []DchecksHold
<1>1. IInv => DchecksHold
  BY Zenon DEF IInv, Sound, Consistent, DchecksHold
<1> QED
  BY <1>1, ServiceIsSound, PTL

(* DisconnectProducer and UnregisterDataSource leave no instance of the    *)
(* producer in any session.                                                *)
THEOREM ServiceHasNoOrphan == Spec => []NoOrphanInstance
<1>1. IInv => NoOrphanInstance
  BY Zenon DEF IInv, NoOrphanInstance
<1> QED
  BY <1>1, ServiceIsSound, PTL

(* Through EnableTracing, DetachConsumer, AttachConsumer, FreeBuffers and  *)
(* the expiry of a detached session, tracing_session_id_ of a consumer and *)
(* consumer_maybe_null of a session name each other.                       *)
THEOREM ServiceConsumersAgree == Spec => []ConsumersAgree
<1>1. IInv => ConsumersAgree
  BY Zenon DEF IInv
<1> QED
  BY <1>1, ServiceIsSound, PTL

(* A session in DISABLING_WAITING_STOP_ACKS has an instance that has not   *)
(* acknowledged, and OnDisableTracingTimeout pending.                      *)
THEOREM ServiceWaitsForSomeone == Spec => []WaitsForSomeone
<1>1. IInv => WaitsForSomeone
  BY Zenon DEF IInv, Sound, Consistent, Waits, WaitsForSomeone
<1> QED
  BY <1>1, ServiceIsSound, PTL

(* A session with a duration that has started always has the task, the     *)
(* pending flush or the posted callback that will disable it.              *)
THEOREM ServiceEndIsDue == Spec => []EndIsDue
<1>1. IInv => EndIsDue
  BY Zenon DEF IInv, Ends, Disables, Due, EndIsDue
<1> QED
  BY <1>1, ServiceIsSound, PTL

(* The consumer hears that all data sources have started, also when the    *)
(* last one to be waited for is unregistered instead of starting.          *)
THEOREM ServiceStartIsAnnounced == Spec => []StartIsAnnounced
<1>1. IInv => StartIsAnnounced
  BY Zenon DEF IInv, Sound, Announced, StartIsAnnounced
<1> QED
  BY <1>1, ServiceIsSound, PTL
=============================================================================
