-------------------------- MODULE UiProviderProofs --------------------------
(***************************************************************************)
(* Proof that the provider never loses sight of a process, for any number  *)
(* of panels, processes and changes of the file.  The calls that await a   *)
(* port may run in any order, each of them spawning a process; what saves  *)
(* the day is that startTraceProcessor kills what it replaces in the same  *)
(* step, and that a 'close' event removes the entry of its own process     *)
(* only.                                                                   *)
(***************************************************************************)
EXTENDS UiProvider, TLAPS

Process == [running : BOOLEAN, printed : BOOLEAN, killed : BOOLEAN, code : -1 .. 1,
            rpcStarted : BOOLEAN, closed : BOOLEAN]

(* The part of the type that matters is inductive with the property: no      *)
(* entry of this.backends is ahead of the processes.                         *)
IInv ==
  /\ spawned \in Nat /\ backend \in 0 .. spawned
  /\ proc \in [1 .. spawned -> Process]
  /\ OneBackend

(* A process that only printed, served, died or was reaped is no more        *)
(* running, and no less killed, than before.                                 *)
Ages(before, after) ==
  after.running /\ ~after.killed => before.running /\ ~before.killed

(* The numbers of n processes, of one more, and None.                        *)
LEMMA NumProcs ==
  ASSUME NEW n \in Nat
  PROVE  /\ n + 1 \in Nat /\ n + 1 \in 0 .. n + 1 /\ 0 \in 0 .. n + 1 /\ 0 \in 0 .. n
         /\ \A q \in 1 .. n : q \in 0 .. n /\ q # 0 /\ ~(q > n)
         /\ \A q \in 0 .. n : q # 0 => q \in 1 .. n
         /\ \A q \in 1 .. n + 1 : (q > n /\ q = n + 1) \/ (q \in 1 .. n /\ ~(q > n))
OBVIOUS

(* Killing the process that is there leaves none that was not told to stop.  *)
LEMMA KilledAll ==
  ASSUME IInv
  PROVE  /\ Killed(backend) \in [1 .. spawned -> Process]
         /\ \A q \in 1 .. spawned : Killed(backend)[q].running => Killed(backend)[q].killed
<1>1. CASE backend = None
  BY <1>1, NumProcs, Zenon DEF IInv, OneBackend, Killed, None
<1>2. CASE backend # None
  <2> DEFINE b == backend
             r == [proc[b] EXCEPT !.killed = TRUE]
  <2>1. b \in 1 .. spawned /\ proc \in [1 .. spawned -> Process] /\ proc[b] \in Process
    BY <1>2, NumProcs DEF IInv, None
  <2>2. Killed(backend) = [proc EXCEPT ![b] = r]
    BY <1>2 DEF Killed
  <2>3. r \in Process /\ r.killed
    BY <2>1 DEF Process
  <2>4. \A q \in 1 .. spawned : q # b /\ proc[q].running => proc[q].killed
    BY Zenon DEF IInv, OneBackend
  <2> HIDE DEF r, b
  <2> QED BY <2>1, <2>2, <2>3, <2>4, Zenon
<1> QED BY <1>1, <1>2

(* startTraceProcessor, whether or not it spawns one.                        *)
LEMMA StartInv ==
  ASSUME IInv, startTraceProcessor
  PROVE  IInv'
<1> DEFINE K == Killed(backend)
           failed == [New EXCEPT !.running = FALSE, !.code = 1]
<1>1. /\ K \in [1 .. spawned -> Process]
      /\ \A q \in 1 .. spawned : K[q].running => K[q].killed
  BY KilledAll
<1>2. New \in Process /\ failed \in Process /\ ~failed.running
  <2>1. -1 \in -1 .. 1 /\ 1 \in -1 .. 1
    OBVIOUS
  <2> QED BY <2>1, Zenon DEF New, Process
<1>3. spawned \in Nat /\ spawned' = spawned + 1
  BY DEF IInv, startTraceProcessor
<1>4. \/ backend' = spawned + 1 /\ proc' = [q \in 1 .. spawned + 1 |->
                                              IF q > spawned THEN New ELSE K[q]]
      \/ backend' = None /\ proc' = [q \in 1 .. spawned + 1 |->
                                       IF q > spawned THEN failed ELSE K[q]]
  BY Zenon DEF startTraceProcessor
<1> HIDE DEF K, failed
<1>5. ASSUME NEW r \in Process,
             proc' = [q \in 1 .. spawned + 1 |-> IF q > spawned THEN r ELSE K[q]]
      PROVE  /\ proc' \in [1 .. spawned + 1 -> Process]
             /\ \A q \in 1 .. spawned + 1 : proc'[q].running /\ ~proc'[q].killed =>
                                              q = spawned + 1 /\ proc'[q] = r
  <2>1. ASSUME NEW q \in 1 .. spawned + 1
        PROVE  /\ proc'[q] \in Process
               /\ proc'[q].running /\ ~proc'[q].killed => q = spawned + 1 /\ proc'[q] = r
    <3>1. proc'[q] = IF q > spawned THEN r ELSE K[q]
      BY <1>5, Zenon
    <3>2. CASE q > spawned /\ q = spawned + 1
      BY <1>5, <3>1, <3>2, Zenon
    <3>3. CASE q \in 1 .. spawned /\ ~(q > spawned)
      BY <1>1, <3>1, <3>3, Zenon
    <3> QED BY <1>3, <3>2, <3>3, NumProcs, Zenon
  <2>2. DOMAIN proc' = 1 .. spawned + 1 /\ proc' = [q \in 1 .. spawned + 1 |-> proc'[q]]
    BY <1>5, Zenon
  <2> QED BY <2>1, <2>2, Zenon
<1>6. /\ proc' \in [1 .. spawned + 1 -> Process] /\ backend' \in 0 .. spawned + 1
      /\ \A q \in 1 .. spawned + 1 : proc'[q].running /\ ~proc'[q].killed => backend' = q
  <2>1. backend' \in 0 .. spawned + 1
    <3>1. 0 \in 0 .. spawned + 1 /\ spawned + 1 \in 0 .. spawned + 1
      BY <1>3
    <3>2. backend' = spawned + 1 \/ backend' = 0
      BY <1>4, Zenon DEF None
    <3> QED BY <3>1, <3>2, Zenon
  <2> QED BY <1>2, <1>4, <1>5, <2>1, Zenon
<1>7. spawned' \in Nat
  BY <1>3
<1> QED BY <1>3, <1>6, <1>7, Zenon DEF IInv, OneBackend

(* An event of process q: backend may only lose the entry of a process that  *)
(* does not run.                                                             *)
LEMMA EventInv ==
  ASSUME IInv, spawned' = spawned, NEW q \in 1 .. spawned, NEW r \in Process,
         proc' = [proc EXCEPT ![q] = r], Ages(proc[q], r),
         backend' = backend \/ (backend = q /\ backend' = None /\ ~r.running)
  PROVE  IInv'
<1>1. /\ spawned \in Nat /\ backend \in 0 .. spawned /\ proc \in [1 .. spawned -> Process]
      /\ \A k \in 1 .. spawned : proc[k].running /\ ~proc[k].killed => backend = k
  BY Zenon DEF IInv, OneBackend
<1>2. proc' \in [1 .. spawned -> Process] /\ proc'[q] = r
      /\ \A k \in 1 .. spawned : k # q => proc'[k] = proc[k]
  BY <1>1, Zenon
<1>3. backend' \in 0 .. spawned
  BY <1>1, NumProcs, Zenon DEF None
<1>4. ASSUME NEW k \in 1 .. spawned, proc'[k].running, ~proc'[k].killed
      PROVE  backend' = k
  <2>1. CASE k = q
    BY <1>1, <1>2, <1>4, <2>1, Zenon DEF Ages
  <2>2. CASE k # q
    BY <1>1, <1>2, <1>4, <2>2, Zenon
  <2> QED BY <2>1, <2>2
<1> QED BY <1>1, <1>2, <1>3, <1>4, Zenon DEF IInv, OneBackend

(* Every step of the editor, of the watcher and of a process keeps IInv.     *)
LEMMA StepInv == IInv /\ [Next]_vars => IInv'
<1> SUFFICES ASSUME IInv, [Next]_vars PROVE IInv'
  OBVIOUS
<1>0. ASSUME UNCHANGED <<backend, spawned, proc>>
      PROVE  IInv'
  BY <1>0, Zenon DEF IInv, OneBackend
<1>1. CASE UNCHANGED vars
  BY <1>0, <1>1, Zenon DEF vars
<1>2. ASSUME NEW p \in Panel,
             resolveCustomEditor(p) \/ PortFound(p) \/ onDidDispose(p) \/ Hide(p)
      PROVE  IInv'
  <2>1. CASE resolveCustomEditor(p) \/ Hide(p)
    BY <1>0, <2>1, Zenon DEF resolveCustomEditor, Hide
  <2>2. CASE PortFound(p)
    BY <1>0, <2>2, StartInv, Zenon DEF PortFound, NoPort
  <2>3. CASE onDidDispose(p)
    <3>1. CASE panels' # {}
      BY <1>0, <2>3, <3>1, Zenon DEF onDidDispose
    <3>2. CASE panels' = {}
      <4>1. proc' = Killed(backend) /\ backend' = None /\ spawned' = spawned
        BY <2>3, <3>2, Zenon DEF onDidDispose
      <4>2. spawned \in Nat /\ None \in 0 .. spawned
        BY NumProcs DEF IInv, None
      <4> QED BY <4>1, <4>2, KilledAll, Zenon DEF IInv, OneBackend
    <3> QED BY <3>1, <3>2
  <2> QED BY <1>2, <2>1, <2>2, <2>3
<1>3. CASE onDidChange
  BY <1>0, <1>3, Zenon DEF onDidChange
<1>4. CASE Reload
  BY <1>0, <1>4, StartInv, Zenon DEF Reload, NoPort
<1>5. ASSUME NEW q \in 1 .. spawned, Prints(q) \/ Dies(q) \/ onData(q) \/ onClose(q)
      PROVE  IInv'
  <2>1. proc \in [1 .. spawned -> Process] /\ proc[q] \in Process
    BY Zenon DEF IInv
  <2>2. CASE Prints(q)
    <3> DEFINE r == [proc[q] EXCEPT !.printed = TRUE]
    <3>1. r \in Process /\ r.running = proc[q].running /\ r.killed = proc[q].killed
      BY <2>1 DEF Process
    <3>2. proc' = [proc EXCEPT ![q] = r] /\ backend' = backend /\ spawned' = spawned
      BY <2>2, Zenon DEF Prints
    <3> HIDE DEF r
    <3> QED BY <3>1, <3>2, EventInv, Zenon DEF Ages
  <2>3. CASE Dies(q)
    <3>1. PICK code \in {0, 1} :
            proc' = [proc EXCEPT ![q].running = FALSE, ![q].code = code]
      BY <2>3, Zenon DEF Dies
    <3> DEFINE r == [proc[q] EXCEPT !.running = FALSE, !.code = code]
    <3>2. r \in Process /\ ~r.running
      <4>1. \A c \in {0, 1} : c \in -1 .. 1
        OBVIOUS
      <4> QED BY <2>1, <4>1, Zenon DEF Process
    <3>3. proc' = [proc EXCEPT ![q] = r] /\ backend' = backend /\ spawned' = spawned
      BY <2>1, <2>3, <3>1 DEF Dies
    <3> HIDE DEF r
    <3> QED BY <3>2, <3>3, EventInv, Zenon DEF Ages
  <2>4. CASE onData(q)
    <3> DEFINE r == [proc[q] EXCEPT !.rpcStarted = TRUE]
    <3>1. r \in Process /\ r.running = proc[q].running /\ r.killed = proc[q].killed
      BY <2>1 DEF Process
    <3>2. proc' = [proc EXCEPT ![q] = r] /\ backend' = backend /\ spawned' = spawned
      BY <2>4, Zenon DEF onData
    <3> HIDE DEF r
    <3> QED BY <3>1, <3>2, EventInv, Zenon DEF Ages
  <2>5. CASE onClose(q)
    <3> DEFINE r == [proc[q] EXCEPT !.closed = TRUE]
    <3>1. r \in Process /\ r.running = proc[q].running /\ r.killed = proc[q].killed
      BY <2>1 DEF Process
    <3>2. /\ proc' = [proc EXCEPT ![q] = r] /\ spawned' = spawned /\ ~proc[q].running
          /\ backend' = IF backend = q THEN None ELSE backend
      BY <2>5, Zenon DEF onClose
    <3> HIDE DEF r
    <3>3. backend' = backend \/ (backend = q /\ backend' = None /\ ~r.running)
      BY <3>1, <3>2, Zenon
    <3> QED BY <3>1, <3>2, <3>3, EventInv, Zenon DEF Ages
  <2> QED BY <1>5, <2>2, <2>3, <2>4, <2>5
<1> QED BY <1>1, <1>2, <1>3, <1>4, <1>5 DEF Next

(* Whichever calls of resolveCustomEditor and of the watcher's handler await  *)
(* a port, and however often the file changes, a process that was not told to *)
(* stop is the one this.backends knows.                                       *)
THEOREM AlwaysOneBackend == Spec => []OneBackend
<1>1. Init => IInv
  BY DEF Init, IInv, OneBackend, None, Process
<1>2. IInv => OneBackend
  BY DEF IInv
<1> QED BY <1>1, <1>2, StepInv, PTL DEF Spec
=============================================================================
