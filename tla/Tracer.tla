------------------------------- MODULE Tracer -------------------------------
(***************************************************************************)
(* The recorder of the QEMU plugin: class Tracer (src/qemu_plugin/         *)
(* tracer.h, tracer.cc) with the process lookup it owns (class VMI, vmi.h, *)
(* vmi.cc).  Its environment is every sequence of callbacks: calls landing *)
(* anywhere, returns, any result of looking at the guest's current task,   *)
(* any timestamp, and the end of the emulation.                            *)
(*                                                                         *)
(* A call opens a slice on the track of the guest task that made it, a     *)
(* return closes one.  Both go to m_queue, which is written to disk when   *)
(* QEMU exits; track_backtrace remembers which calls of every track have   *)
(* not returned, to close and re-open their slices around a context        *)
(* switch.                                                                 *)
(***************************************************************************)
EXTENDS Integers, Sequences, FiniteSets

CONSTANTS
  Addr,          \* the addresses a call can land on
  SwitchTo,      \* VMI::m_switchToAddr, the address of __switch_to_asm
  StartingFrom,  \* the plugin's starting_from option, resolved to an address
  Pid,           \* the pids of the guest's tasks; 0 also stands for "unknown"
  Tgid,          \* the thread group of each pid
  Ts,            \* timestamps: instructions executed by the calling vCPU
  MinInsns,      \* the plugin's min_insns option
  TsMod          \* the timestamps' type is the integers modulo TsMod

NoOption == -1   \* starting_from was not given
NotFound == 0    \* starting_from names no symbol: lookupSymbol returned 0

ASSUME TracerAssumption ==
  /\ IsFiniteSet(Addr) /\ Addr \subseteq Nat \ {0}
  /\ StartingFrom \in Addr \cup {NoOption, NotFound}
  /\ IsFiniteSet(Pid) /\ Pid \subseteq Nat /\ 0 \in Pid
  /\ Tgid \in [Pid -> Pid] /\ Tgid[0] = 0
  /\ Ts \subseteq Nat /\ MinInsns \in Nat
  /\ TsMod \in Nat /\ \A ts \in Ts : ts < TsMod

VARIABLES
  inhibited,        \* m_inhibited: nothing is recorded yet
  startingFrom,     \* m_startingFrom
  prevTrack,        \* m_prevTrackUuid: the track the last recorded call was on
  invalidated,      \* VMI::m_processInvalidated: look the task up again
  ret,              \* GetTrackUuid's static ret: the track of the last lookup
  pid_to_uuid,      \* 0 for a pid that is not in the map
  track_backtrace,  \* the calls of each track that have not returned
  queue,            \* m_queue
  protos,           \* the packets serialised so far
  exited,           \* plugin_exit has run
  disk              \* the trace file

vars == <<inhibited, startingFrom, prevTrack, invalidated, ret, pid_to_uuid,
          track_backtrace, queue, protos, exited, disk>>

(* Track uuids are 1, 2, ... in the order pids are first seen.  0 is the     *)
(* uuid of no track: as a value of m_prevTrackUuid it stands for every value *)
(* that is no track's uuid.                                                  *)
Track == 0 .. Cardinality(Pid)

(* struct tracing_event: addr = 0 ends the innermost slice of the track.     *)
Event == [addr : Addr \cup {0}, ts : Ts, track : Track]
TracingEvent(addr, ts, track) == [addr |-> addr, ts |-> ts, track |-> track]

(* back() and pop_back() of the deque m_queue and the vectors of             *)
(* track_backtrace.                                                          *)
Back(s) == s[Len(s)]
PopBack(s) == SubSeq(s, 1, Len(s) - 1)

Running == ~exited
-----------------------------------------------------------------------------
(* The packets of the trace: the two the constructor writes, one descriptor  *)
(* per track, one event per queue element.  name = 0 when the packet interns *)
(* no name; iid = 0 when the event has none.                                 *)
StateCleared == [type |-> "incremental_state_cleared"]
QemuInfo     == [type |-> "qemu_info"]
TrackDescriptor(uuid, tgid) ==
  [type |-> "track_descriptor", uuid |-> uuid, pid |-> tgid]
TrackEvent(e, iid, name) ==
  [type |-> "track_event", begin |-> e.addr # 0, ts |-> e.ts,
   track |-> e.track, iid |-> iid, name |-> name]

Packet ==
  {StateCleared, QemuInfo}
    \cup [type : {"track_descriptor"}, uuid : Track, pid : Pid]
    \cup [type : {"track_event"}, begin : BOOLEAN, ts : Ts, track : Track,
          iid : Nat, name : Addr \cup {0}]

(* Tracer::Tracer.  Without a starting_from that resolves, m_inhibited is    *)
(* never assigned, and without the option neither is m_startingFrom;         *)
(* m_prevTrackUuid never is.                                                 *)
Init ==
  /\ CASE StartingFrom = NoOption ->
            inhibited \in BOOLEAN /\ startingFrom \in Addr \cup {0}
       [] StartingFrom = NotFound ->
            inhibited \in BOOLEAN /\ startingFrom = 0
       [] OTHER -> inhibited = TRUE /\ startingFrom = StartingFrom
  /\ prevTrack \in Track
  /\ invalidated = TRUE
  /\ ret = 0
  /\ pid_to_uuid = [p \in Pid |-> 0]
  /\ track_backtrace = [t \in Track |-> <<>>]
  /\ queue = <<>>
  /\ protos = <<StateCleared, QemuInfo>>
  /\ exited = FALSE
  /\ disk = <<>>
-----------------------------------------------------------------------------
(* What VMI::GetProcessInfo can bring back.  It reads the task's address,    *)
(* its tgid, its pid and its comm from guest memory, and stops at the first  *)
(* read that fails, with what it has so far: only a complete lookup is ok    *)
(* and clears m_processInvalidated.                                          *)
ProcessInfo ==
  {[ok |-> FALSE, tgid |-> 0, pid |-> 0]}
    \cup {[ok |-> FALSE, tgid |-> Tgid[p], pid |-> 0] : p \in Pid}
    \cup {[ok |-> ok, tgid |-> Tgid[p], pid |-> p] : ok \in BOOLEAN, p \in Pid}

KnownPids == {p \in Pid : pid_to_uuid[p] # 0}

TrackUuidOffByOne(info) ==  \* mutant: the map's size, not its size plus one
  IF invalidated /\ info.pid \notin KnownPids THEN Cardinality(KnownPids) ELSE ret
(* Tracer::GetTrackUuid: the result, and its effect on the tracer's state.   *)
TrackUuid(info) ==
  IF ~invalidated THEN ret
  ELSE IF info.pid \in KnownPids THEN pid_to_uuid[info.pid]
  ELSE Cardinality(KnownPids) + 1

GetTrackUuid(info) ==
  /\ ret' = TrackUuid(info)
  /\ IF invalidated /\ info.pid \notin KnownPids
     THEN /\ pid_to_uuid' = [pid_to_uuid EXCEPT ![info.pid] = ret']
          /\ protos' = Append(protos, TrackDescriptor(ret', info.tgid))
     ELSE UNCHANGED <<pid_to_uuid, protos>>

(* Tracer::LogCall's context switch: every open slice of the track the last  *)
(* call was on is closed, and the open calls of the current one re-opened.   *)
CloseSlices(track, ts) ==
  [i \in 1 .. Len(track_backtrace[track]) |-> TracingEvent(0, ts, track)]
ReopenSlices(track, ts) ==
  [i \in 1 .. Len(track_backtrace[track]) |->
     TracingEvent(track_backtrace[track][i], ts, track)]
ContextSwitchNoReopen(track, ts) ==  \* mutant: slices are not re-opened
  IF track = prevTrack THEN <<>> ELSE CloseSlices(prevTrack, ts)
ContextSwitch(track, ts) ==
  IF track = prevTrack THEN <<>>
  ELSE CloseSlices(prevTrack, ts) \o ReopenSlices(track, ts)

(* Tracer::LogCall, and VMI::LogCall at its end.                             *)
LogCall(addr, info, ts) ==
  /\ Running
  /\ IF inhibited /\ addr # startingFrom
     THEN UNCHANGED vars
     ELSE LET track == TrackUuid(info) IN
          /\ inhibited' = FALSE
          /\ GetTrackUuid(info)
          /\ prevTrack' = track
          /\ track_backtrace' =
               [track_backtrace EXCEPT ![track] = Append(@, addr)]
          /\ queue' = queue \o ContextSwitch(track, ts)
                            \o <<TracingEvent(addr, ts, track)>>
          /\ invalidated' = (addr = SwitchTo \/ (invalidated /\ ~info.ok))
          /\ UNCHANGED <<startingFrom, exited, disk>>

IsShortAnyTrack(event, track, ts) ==  \* mutant: takes back any track's begin
  event.addr # 0 /\ (ts - event.ts) % TsMod < MinInsns
(* Tracer::LogRet takes the last event back, instead of closing its slice,   *)
(* when that event opened a slice of this track a few instructions ago.      *)
IsShort(event, track, ts) ==
  /\ event.addr # 0
  /\ event.track = track
  /\ (ts - event.ts) % TsMod < MinInsns

PopBacktraceNot(track) == track_backtrace  \* mutant: pop_back is missing
PopBacktrace(track) == [track_backtrace EXCEPT ![track] = PopBack(@)]

(* Tracer::LogRet.  The lookup is over before the backtrace is found empty.  *)
LogRet(info, ts) ==
  /\ Running
  /\ IF inhibited
     THEN UNCHANGED vars
     ELSE LET track == TrackUuid(info) IN
          /\ GetTrackUuid(info)
          /\ invalidated' = (invalidated /\ ~info.ok)
          /\ IF track_backtrace[track] = <<>>
             THEN UNCHANGED <<queue, track_backtrace>>
             ELSE /\ queue' = IF IsShort(Back(queue), track, ts)
                              THEN PopBack(queue)
                              ELSE Append(queue, TracingEvent(0, ts, track))
                  /\ track_backtrace' = PopBacktrace(track)
          /\ UNCHANGED <<inhibited, startingFrom, prevTrack, exited, disk>>
-----------------------------------------------------------------------------
FunctionUuidOffByOne(uuids, addr) ==  \* mutant: the size before the insertion
  IF uuids[addr] # 0 THEN uuids[addr] ELSE Cardinality({a \in Addr : uuids[a] # 0})
(* Tracer::GetFunctionUuid on the map uuids: 0 is the uuid of an address     *)
(* that is not in it.                                                        *)
FunctionUuid(uuids, addr) ==
  IF uuids[addr] # 0 THEN uuids[addr]
  ELSE Cardinality({a \in Addr : uuids[a] # 0}) + 1

(* One round of the loop of Tracer::WriteToDisk.                             *)
WriteEvent(acc, e) ==
  IF e.addr = 0
  THEN [acc EXCEPT !.packets = Append(@, TrackEvent(e, 0, 0))]
  ELSE LET iid == FunctionUuid(acc.uuids, e.addr) IN
       [uuids   |-> [acc.uuids EXCEPT ![e.addr] = iid],
        packets |-> Append(acc.packets,
                           TrackEvent(e, iid, IF acc.uuids[e.addr] = 0
                                              THEN e.addr ELSE 0))]

WriteLoop(events) ==
  LET acc[i \in 0 .. Len(events)] ==
        IF i = 0 THEN [uuids |-> [a \in Addr |-> 0], packets |-> protos]
        ELSE WriteEvent(acc[i - 1], events[i])
  IN  acc[Len(events)]

(* Tracer::WriteToDisk, from plugin_exit, after which the tracer is deleted. *)
(* A write that fails leaves a prefix of the trace in the file.              *)
WriteToDisk ==
  /\ Running
  /\ exited' = TRUE
  /\ \/ UNCHANGED <<queue, protos, disk>>  \* the file cannot be opened
     \/ /\ queue' = <<>>
        /\ protos' = WriteLoop(queue).packets
        /\ \E n \in 0 .. Len(protos') : disk' = SubSeq(protos', 1, n)
  /\ UNCHANGED <<inhibited, startingFrom, prevTrack, invalidated, ret,
                 pid_to_uuid, track_backtrace>>

Next ==
  \/ \E addr \in Addr, info \in ProcessInfo, ts \in Ts : LogCall(addr, info, ts)
  \/ \E info \in ProcessInfo, ts \in Ts : LogRet(info, ts)
  \/ WriteToDisk

Spec == Init /\ [][Next]_vars
-----------------------------------------------------------------------------
(* The type of the tracer's members and of what it has queued and written.     *)
TypeOK ==
  /\ inhibited \in BOOLEAN
  /\ startingFrom \in Addr \cup {0}
  /\ prevTrack \in Track
  /\ invalidated \in BOOLEAN
  /\ ret \in Track
  /\ pid_to_uuid \in [Pid -> Track]
  /\ track_backtrace \in [Track -> Seq(Addr)]
  /\ queue \in Seq(Event)
  /\ protos \in Seq(Packet)
  /\ exited \in BOOLEAN
  /\ disk \in Seq(Packet)

(* How an importer reads the queue: the slices open on every track after     *)
(* each of its prefixes.  Ending a slice where none is open does nothing.    *)
ReadEvent(open, e) ==
  IF e.addr # 0 THEN [open EXCEPT ![e.track] = Append(@, e.addr)]
  ELSE IF open[e.track] = <<>> THEN open
  ELSE [open EXCEPT ![e.track] = PopBack(@)]
Reading(q) ==
  LET open[i \in 0 .. Len(q)] ==
        IF i = 0 THEN [t \in Track |-> <<>>] ELSE ReadEvent(open[i - 1], q[i])
  IN  open

(* Context switches that close and re-open slices, returns on a track whose  *)
(* slices are not re-opened yet, and begin events taken back add up: a       *)
(* reader of the queue sees open, at any time, exactly the calls that have   *)
(* not returned on the track of the last call, and nothing on the others.    *)
QueueReadsAsBacktrace ==
  Running =>
    Reading(queue)[Len(queue)] =
      [t \in Track |-> IF t = prevTrack THEN track_backtrace[t] ELSE <<>>]

(* LogRet reads m_queue.back() whenever the track has an open call: the      *)
(* deque is not empty then, whatever was taken back before.                  *)
BackIsDefined ==
  Running /\ (\E t \in Track : track_backtrace[t] # <<>>) => queue # <<>>

(* LogRet only takes back the event that opened the call that returns: the   *)
(* last call of its track, which is the track the queue ends on.             *)
TakesBackOwnBegin ==
  [][Len(queue') < Len(queue) /\ Running' =>
       LET e == Back(queue) IN
         /\ queue' = PopBack(queue)
         /\ e.track = prevTrack
         /\ track_backtrace[e.track] = Append(track_backtrace'[e.track], e.addr)]_vars

Descriptors == {i \in DOMAIN protos : protos[i].type = "track_descriptor"}

(* Every track an event of the queue is on was announced by one descriptor,  *)
(* serialised before the event will be, and no two pids share a track.       *)
TracksAreAnnounced ==
  /\ \A i \in DOMAIN queue :
       Cardinality({d \in Descriptors : protos[d].uuid = queue[i].track}) = 1
  /\ \A p, q \in KnownPids : pid_to_uuid[p] = pid_to_uuid[q] => p = q

Interned(packets, iid) ==
  {packets[k].name : k \in {j \in DOMAIN packets : /\ packets[j].type = "track_event"
                                                  /\ packets[j].iid = iid
                                                  /\ packets[j].name # 0}}

(* In a trace that was written, even in part, the name a begin event refers  *)
(* to is that of the function its call landed on: the packets up to it       *)
(* interned that name, and no other, under the event's iid.                  *)
NamesAreInterned ==
  [][disk' # disk =>
       \A i \in DOMAIN queue :
         LET k == Len(protos) + i IN
           k <= Len(disk') /\ queue[i].addr # 0 =>
             Interned(SubSeq(disk', 1, k), disk'[k].iid) = {queue[i].addr}]_vars
=============================================================================
